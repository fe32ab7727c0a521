-------------------------- MODULE OffsideRule_verdict --------------------------
(***************************************************************************)
(* The verdict on a source: the parser accepts it exactly when its lines    *)
(* are well formed.  The argument follows the two passes.  While the lexer  *)
(* reads, the tokens of a logical line are its text, lines under the same   *)
(* line are equally wide, and an error of the lexer is a fault of a line    *)
(* (ReadInv).  While the parser reads, it accepts only lines that fit where *)
(* they stand and refuses only where one does not (VerInv).                 *)
(***************************************************************************)
EXTENDS OffsideRule_proofs

-------------------------------------------------------------------------------
(* The text of lines i to j, laid end to end.                                *)
Parts(i, j) == [x \in 1..(j - i + 1) |-> Lines[i + x - 1].text]
TextFrom(i, j) == FlattenSeq(Parts(i, j))
TextOf(l) == Outline.text[l]
EndOf(l) == Min({Len(Lines)} \cup {j - 1 : j \in {k \in Logicals : k > l}})

LEMMA AppendIs ==
    ASSUME NEW S, NEW p \in Seq(S), NEW q \in Seq(S), NEW e \in S, Len(q) = Len(p) + 1,
           \A x \in 1..Len(p) : q[x] = p[x], q[Len(p) + 1] = e
    PROVE  q = Append(p, e)
OBVIOUS

LEMMA PartsStep ==
    ASSUME source \in Sources, NEW i \in 1..Len(Lines), NEW j \in (i - 1)..Len(Lines)
    PROVE  /\ Parts(i, j) \in Seq(Seq(TextKinds)) /\ Len(Parts(i, j)) = j - i + 1
           /\ j < Len(Lines) => Parts(i, j + 1) = Append(Parts(i, j), Lines[j + 1].text)
<1> DEFINE S == Seq(TextKinds)
<1>1. /\ Len(Lines) \in Nat /\ \A l \in 1..Len(Lines) : Lines[l].text \in S
  BY LineFacts
<1> HIDE DEF S
<1>2. ASSUME NEW m \in (i - 1)..Len(Lines)
      PROVE  /\ Parts(i, m) \in Seq(S) /\ Len(Parts(i, m)) = m - i + 1 /\ m - i + 1 \in Nat
             /\ \A x \in 1..(m - i + 1) : Parts(i, m)[x] = Lines[i + x - 1].text
  <2> DEFINE n == m - i + 1
             P == Parts(i, m)
  <2>1. n \in Nat /\ \A x \in 1..n : i + x - 1 \in 1..Len(Lines)  BY <1>1
  <2>2. P \in [1..n -> S]  BY <1>1, <2>1 DEF Parts
  <2>3. \A x \in 1..n : P[x] = Lines[i + x - 1].text  BY DEF Parts
  <2>4. n \in Nat  BY <2>1
  <2> HIDE DEF P, n
  <2>5. P \in Seq(S) /\ Len(P) = n  BY <2>2, <2>4
  <2> QED  BY <2>3, <2>4, <2>5 DEF P, n
<1>3. ASSUME j < Len(Lines) PROVE Parts(i, j + 1) = Append(Parts(i, j), Lines[j + 1].text)
  <2> DEFINE e == Lines[j + 1].text
             P == Parts(i, j)
             Q == Parts(i, j + 1)
             n == j - i + 1
  <2>1. /\ j + 1 \in (i - 1)..Len(Lines) /\ j + 1 \in 1..Len(Lines) /\ (j + 1) - i + 1 = n + 1
        /\ n + 1 \in 1..(n + 1) /\ i + (n + 1) - 1 = j + 1 /\ \A x \in 1..n : x \in 1..(n + 1)
    BY <1>1, <1>3
  <2>2. e \in S  BY <1>1, <2>1
  <2>3. P \in Seq(S) /\ Len(P) = n /\ \A x \in 1..n : P[x] = Lines[i + x - 1].text  BY <1>2
  <2>4. /\ Q \in Seq(S) /\ Len(Q) = n + 1
        /\ \A x \in 1..(n + 1) : Q[x] = Lines[i + x - 1].text
    <3>1. /\ Q \in Seq(S) /\ Len(Q) = (j + 1) - i + 1
          /\ \A x \in 1..((j + 1) - i + 1) : Q[x] = Lines[i + x - 1].text
      BY <1>2, <2>1
    <3> QED  BY <2>1, <3>1
  <2> HIDE DEF P, Q, n
  <2>5. \A x \in 1..n : Q[x] = P[x]  BY <2>1, <2>3, <2>4
  <2>6. Q[n + 1] = e  BY <2>1, <2>4
  <2> HIDE DEF e
  <2>7. Q = Append(P, e)  BY <2>2, <2>3, <2>4, <2>5, <2>6, AppendIs
  <2> QED  BY <2>7 DEF P, Q, e
<1> QED  BY <1>2, <1>3 DEF S

LEMMA TextFromStep ==
    ASSUME source \in Sources, NEW i \in 1..Len(Lines), NEW j \in (i - 1)..Len(Lines)
    PROVE  /\ TextFrom(i, j) \in Seq(TextKinds) /\ TextFrom(i, i - 1) = <<>>
           /\ j < Len(Lines) => TextFrom(i, j + 1) = Joined(TextFrom(i, j), Lines[j + 1].text)
<1>1. /\ Parts(i, j) \in Seq(Seq(TextKinds))
      /\ j < Len(Lines) => Parts(i, j + 1) = Append(Parts(i, j), Lines[j + 1].text)
  BY PartsStep
<1>2. TextFrom(i, j) \in Seq(TextKinds)  BY <1>1, FlatType DEF TextFrom
<1>3. TextFrom(i, i - 1) = <<>>
  <2>1. i - 1 \in (i - 1)..Len(Lines) /\ (i - 1) - i + 1 = 0  BY LineFacts
  <2>2. Parts(i, i - 1) \in Seq(Seq(TextKinds)) /\ Len(Parts(i, i - 1)) = 0  BY <2>1, PartsStep
  <2>3. Parts(i, i - 1) = <<>>  BY <2>2
  <2> QED  BY <2>2, <2>3 DEF TextFrom, FlattenSeq
<1>4. ASSUME j < Len(Lines) PROVE TextFrom(i, j + 1) = Joined(TextFrom(i, j), Lines[j + 1].text)
  <2>1. Lines[j + 1].text \in Seq(TextKinds)
    <3>1. j + 1 \in 1..Len(Lines)  BY <1>4, LineFacts
    <3> QED  BY <3>1, LineFacts
  <2> QED  BY <1>1, <1>4, <2>1, FlattenAppend DEF TextFrom, Joined
<1> QED  BY <1>2, <1>3, <1>4

LEMMA EndFacts ==
    ASSUME source \in Sources, NEW l \in Logicals
    PROVE  /\ EndOf(l) \in Nat /\ l <= EndOf(l) /\ EndOf(l) <= Len(Lines)
           /\ TextOf(l) = TextFrom(l, EndOf(l))
           /\ \A k \in Logicals : k > l => EndOf(l) <= k - 1
           /\ EndOf(l) = Len(Lines) \/ EndOf(l) + 1 \in Logicals
<1> DEFINE E == {Len(Lines)} \cup {j - 1 : j \in {k \in Logicals : k > l}}
<1>1. /\ Len(Lines) \in Nat /\ l \in 1..Len(Lines) /\ \A k \in Logicals : k \in 1..Len(Lines)
  BY LineFacts DEF Logicals
<1>2. E \in SUBSET Nat /\ E # {} /\ \A x \in E : x >= l /\ x <= Len(Lines)  BY <1>1
<1>3. Min(E) \in E /\ \A x \in E : Min(E) <= x
  <2> HIDE DEF E
  <2> QED  BY <1>2, MinIs
<1>4. EndOf(l) = Min(E)  BY DEF EndOf
<1>5. TextOf(l) = TextFrom(l, EndOf(l))
  BY DEF TextOf, Outline, TextFrom, Parts, EndOf, Logicals
<1>6. \A k \in Logicals : k > l => Min(E) <= k - 1  BY <1>3
<1>7. Min(E) = Len(Lines) \/ Min(E) + 1 \in Logicals
  <2>1. CASE Min(E) \in {j - 1 : j \in {k \in Logicals : k > l}}
    <3>1. PICK k \in Logicals : Min(E) = k - 1  BY <2>1
    <3>2. k \in Nat  BY <1>1
    <3>3. Min(E) + 1 = k  BY <3>1, <3>2
    <3> QED  BY <3>3
  <2> QED  BY <1>3, <2>1
<1> QED  BY <1>2, <1>3, <1>4, <1>5, <1>6, <1>7

(* Blank lines add nothing.                                                  *)
LEMMA BlankTail ==
    ASSUME source \in Sources, NEW i \in 1..Len(Lines), NEW j \in (i - 1)..Len(Lines),
           NEW m \in j..Len(Lines), \A x \in (j + 1)..m : Lines[x].text = <<>>
    PROVE  TextFrom(i, m) = TextFrom(i, j)
<1>0. Len(Lines) \in Nat /\ i \in Nat /\ j \in Int /\ j >= 0  BY LineFacts
<1> DEFINE T == {d \in Nat : j + d <= m => TextFrom(i, j + d) = TextFrom(i, j)}
<1>1. 0 \in T
  <2>1. j + 0 = j  BY <1>0
  <2> QED  BY <2>1
<1>2. ASSUME NEW d \in Nat, d \in T PROVE d + 1 \in T
  <2> SUFFICES ASSUME j + (d + 1) <= m PROVE TextFrom(i, j + (d + 1)) = TextFrom(i, j)
    OBVIOUS
  <2> DEFINE y == j + d
  <2>1. y \in (i - 1)..Len(Lines) /\ y < Len(Lines) /\ y <= m /\ j + (d + 1) = y + 1
        /\ y + 1 \in (j + 1)..m
    BY <1>0
  <2>2. TextFrom(i, y) = TextFrom(i, j)  BY <1>2, <2>1
  <2>3. Lines[y + 1].text = <<>>  BY <2>1
  <2> HIDE DEF y
  <2>4. TextFrom(i, y) \in Seq(TextKinds) /\ TextFrom(i, y + 1) = Joined(TextFrom(i, y), <<>>)
    BY <2>1, <2>3, TextFromStep
  <2>5. Joined(TextFrom(i, y), <<>>) = TextFrom(i, y)  BY <2>4, ConcatEmptySeq DEF Joined
  <2> QED  BY <2>1, <2>2, <2>4, <2>5
<1> HIDE DEF T
<1>3. m - j \in Nat /\ j + (m - j) = m  BY <1>0
<1>4. m - j \in T  BY <1>1, <1>2, <1>3, NatInduct
<1> QED  BY <1>0, <1>3, <1>4 DEF T

-------------------------------------------------------------------------------
(* A NEWLINE stands right behind text, an INDENT right behind a colon and    *)
(* its NEWLINE, and a pending colon is the one before the last NEWLINE.      *)
EdgeAt(ts, k) ==
    /\ ts[k].kind = "newline" => k > 1 /\ IsText(ts[k - 1])
    /\ ts[k].kind = "indent" => k > 2 /\ ts[k - 1].kind = "newline" /\ ts[k - 2].kind = "colon"
EdgeRule == \A k \in 1..Len(tokens) : EdgeAt(tokens, k)
AfterRule ==
    lexed = "no" /\ at_line_start /\ bracket_depth = 0 =>
      IF Len(tokens) = 0 THEN ~after_colon
      ELSE /\ Len(tokens) > 1 /\ tokens[Len(tokens)].kind = "newline"
           /\ after_colon <=> tokens[Len(tokens) - 1].kind = "colon"

(* The lines of the tokens never fall, and rise where a logical line starts. *)
OrderRule ==
    lexed \in {"no", "yes"} =>
      /\ \A k \in 1..Len(tokens) :
           /\ tokens[k].line <= line
           /\ lexed = "no" /\ (at_line_start \/ col = 1) /\ IsText(tokens[k]) => tokens[k].line < line
      /\ \A j, k \in 1..Len(tokens) : j < k =>
           /\ tokens[j].line <= tokens[k].line
           /\ k \in Starts(tokens) /\ IsText(tokens[j]) => tokens[j].line < tokens[k].line

LEMMA EofShape ==
    ASSUME line \in Nat, Len(indent_stack) \in Nat, Len(indent_stack) >= 1, bracket_depth \in Nat
    PROVE  /\ EofTokens \in Seq({t \in Tokens : t.line = line})
           /\ bracket_depth = 0 /\ NeedsNewline => EofTokens[1].kind = "newline"
           /\ \A i \in 1..Len(EofTokens) :
                EofTokens[i].kind = "newline" => i = 1 /\ bracket_depth = 0 /\ NeedsNewline
<1> DEFINE n == Len(indent_stack) - 1
           a == IF NeedsNewline THEN <<Token("newline")>> ELSE <<>>
           run == [k \in 1..n |-> Token("dedent")]
           e == <<Token("eof")>>
           L == {t \in Tokens : t.line = line}
<1>1. /\ Token("dedent") \in Tokens /\ Token("newline") \in Tokens /\ Token("eof") \in Tokens
      /\ Token("dedent").kind = "dedent" /\ Token("newline").kind = "newline"
      /\ Token("eof").kind = "eof"
  BY LayoutTokens DEF Token
<1>2. Token("dedent") \in L /\ Token("newline") \in L /\ Token("eof") \in L  BY <1>1 DEF Token
<1>3. n \in Nat  OBVIOUS
<1> HIDE DEF L
<1>4. e \in Seq(L) /\ Len(e) = 1 /\ e[1].kind = "eof"  BY <1>1, <1>2
<1>5. run \in Seq(L) /\ Len(run) = n /\ \A i \in 1..n : run[i].kind = "dedent"
  BY <1>1, <1>2, <1>3
<1>6. /\ a \in Seq(L) /\ Len(a) \in {0, 1} /\ (Len(a) = 1 <=> NeedsNewline)
      /\ \A i \in 1..Len(a) : a[i].kind = "newline"
  BY <1>1, <1>2
<1>7. CASE bracket_depth > 0
  <2>1. EofTokens = e  BY <1>7 DEF EofTokens
  <2>2. \A i \in 1..Len(e) : e[i].kind # "newline"  BY <1>4
  <2> QED  BY <1>4, <1>7, <2>1, <2>2 DEF L
<1>8. CASE bracket_depth = 0
  <2>1. EofTokens = (a \o run) \o e  BY <1>8 DEF EofTokens
  <2> HIDE DEF a, run, e, n
  <2> DEFINE b == Joined(a, run)
  <2>2. /\ b \in Seq(L) /\ Len(b) = Len(a) + n
        /\ \A i \in 1..Len(a) : b[i] = a[i]
        /\ \A i \in 1..n : b[Len(a) + i] = run[i]
    <3>0. a \in Seq(L) /\ run \in Seq(L) /\ Len(run) = n  BY <1>5, <1>6
    <3>1. /\ Joined(a, run) \in Seq(L) /\ Len(Joined(a, run)) = Len(a) + Len(run)
          /\ \A i \in 1..Len(a) : Joined(a, run)[i] = a[i]
          /\ \A i \in 1..Len(run) : Joined(a, run)[Len(a) + i] = run[i]
      BY <3>0 DEF Joined
    <3> QED  BY <3>0, <3>1
  <2>3. Len(b) \in Nat  BY <1>3, <1>6, <2>2
  <2>4. EofTokens = Joined(b, e)  BY <2>1 DEF b, Joined
  <2> HIDE DEF b
  <2>5. /\ EofTokens \in Seq(L) /\ Len(EofTokens) = Len(b) + 1
        /\ \A i \in 1..Len(b) : EofTokens[i] = b[i]
        /\ EofTokens[Len(b) + 1] = e[1]
    <3>1. /\ Joined(b, e) \in Seq(L) /\ Len(Joined(b, e)) = Len(b) + Len(e)
          /\ \A i \in 1..Len(b) : Joined(b, e)[i] = b[i]
          /\ \A i \in 1..Len(e) : Joined(b, e)[Len(b) + i] = e[i]
      <4>1. b \in Seq(L) /\ e \in Seq(L)  BY <1>4, <2>2
      <4> QED  BY <4>1 DEF Joined
    <3>2. 1 \in 1..Len(e)  BY <1>4
    <3> QED  BY <1>4, <2>4, <3>1, <3>2
  <2>6. ASSUME NeedsNewline PROVE EofTokens[1].kind = "newline"
    <3>0. Len(a) = 1  BY <1>6, <2>6
    <3>1. 1 \in 1..Len(a) /\ 1 \in 1..Len(b)  BY <1>3, <2>2, <3>0
    <3> QED  BY <1>6, <2>2, <2>5, <3>1
  <2>7. ASSUME NEW i \in 1..Len(EofTokens), EofTokens[i].kind = "newline"
        PROVE  i = 1 /\ NeedsNewline
    <3>1. i # Len(b) + 1  BY <1>4, <2>5, <2>7
    <3>2. i \in 1..Len(b) /\ EofTokens[i] = b[i]  BY <2>3, <2>5, <3>1
    <3>3. i \notin (Len(a) + 1)..Len(b)
      <4> SUFFICES ASSUME i \in (Len(a) + 1)..Len(b) PROVE FALSE
        OBVIOUS
      <4>1. i - Len(a) \in 1..n /\ Len(a) + (i - Len(a)) = i  BY <1>3, <1>6, <2>2
      <4> QED  BY <1>5, <2>2, <2>7, <3>2, <4>1
    <3>4. i \in 1..Len(a)  BY <1>6, <2>3, <3>2, <3>3
    <3> QED  BY <1>6, <3>4
  <2> QED  BY <1>8, <2>5, <2>6, <2>7 DEF L
<1> QED  BY <1>7, <1>8

LEMMA StepLines ==
    ASSUME LexInv, Balance, lexed = "no", Place, LexNext
    PROVE  \A i \in (Len(tokens) + 1)..Len(tokens') : tokens'[i].line = line
<1>0. /\ tokens \in Seq(Tokens) /\ Len(tokens) \in Nat /\ line \in Nat
      /\ Len(indent_stack) \in Nat /\ Len(indent_stack) >= 1 /\ bracket_depth \in Nat
  BY TokenFacts DEF Balance, Balanced, LexInv, LexTypeOK
<1>1. CASE tokens' = tokens  BY <1>0, <1>1
<1>2. ASSUME NEW kind, Emitted(kind) PROVE \A i \in (Len(tokens) + 1)..Len(tokens') : tokens'[i].line = line
  <2>1. tokens' = Append(tokens, Token(kind))  BY <1>2 DEF Emitted
  <2> DEFINE t == Token(kind)
  <2>2. t.line = line  BY DEF Token
  <2> HIDE DEF t
  <2>3. Len(tokens') = Len(tokens) + 1 /\ tokens'[Len(tokens) + 1] = t  BY <1>0, <2>1 DEF t
  <2> QED  BY <1>0, <2>2, <2>3
<1>3. CASE Shallower
  <2>1. PICK k \in 1..(Len(indent_stack) - 1) :
          tokens' = tokens \o [j \in 1..(Len(indent_stack) - k) |-> Token("dedent")]
    BY <1>3 DEF Shallower
  <2> DEFINE r == [j \in 1..(Len(indent_stack) - k) |-> Token("dedent")]
  <2>2. Token("dedent") \in Tokens /\ Token("dedent").line = line  BY <1>0, LayoutTokens DEF Token
  <2>3. r \in Seq(Tokens) /\ \A i \in 1..Len(r) : r[i].line = line
    <3>1. Len(indent_stack) - k \in Nat  BY <1>0
    <3> QED  BY <2>2, <3>1
  <2> HIDE DEF r
  <2>4. tokens' = Joined(tokens, r)  BY <2>1 DEF r, Joined
  <2>5. \A i \in (Len(tokens) + 1)..Len(Joined(tokens, r)) :
          i - Len(tokens) \in 1..Len(r) /\ Joined(tokens, r)[i] = r[i - Len(tokens)]
    BY <1>0, <2>3, TokensAdded
  <2> QED  BY <2>3, <2>4, <2>5
<1>4. CASE EndOfSource
  <2>1. tokens' = Joined(tokens, EofTokens)  BY <1>4 DEF EndOfSource, Joined
  <2>2. EofTokens \in Seq({t \in Tokens : t.line = line})  BY <1>0, EofShape
  <2>3. EofTokens \in Seq(Tokens) /\ \A i \in 1..Len(EofTokens) : EofTokens[i].line = line
    BY <2>2, <1>0, EofTokensAre
  <2>4. \A i \in (Len(tokens) + 1)..Len(Joined(tokens, EofTokens)) :
          i - Len(tokens) \in 1..Len(EofTokens)
          /\ Joined(tokens, EofTokens)[i] = EofTokens[i - Len(tokens)]
    BY <1>0, <2>3, TokensAdded
  <2> QED  BY <2>1, <2>3, <2>4
<1>5. tokens' = tokens \/ Shallower \/ EndOfSource \/ \E kind : Emitted(kind)
  BY DEF LexNext, MixedLine, BlankLine, Continued, Deeper, SameLevel, LogicalStart, Scan, Newline
<1> QED  BY <1>1, <1>2, <1>3, <1>4, <1>5


LEMMA EdgeStays ==
    ASSUME NEW ts, NEW us, Extends(us, ts), NEW k \in 1..Len(ts), EdgeAt(ts, k)
    PROVE  EdgeAt(us, k)
<1>1. us[k] = ts[k]  BY DEF Extends
<1>2. k > 1 => us[k - 1] = ts[k - 1]
  <2>1. k > 1 => k - 1 \in 1..Len(ts)  BY TokenFacts DEF Extends
  <2> QED  BY <2>1 DEF Extends
<1>3. k > 2 => us[k - 2] = ts[k - 2]
  <2>1. k > 2 => k - 2 \in 1..Len(ts)  BY TokenFacts DEF Extends
  <2> QED  BY <2>1 DEF Extends
<1> QED  BY <1>1, <1>2, <1>3 DEF EdgeAt

LEMMA StepKeepsEdge ==
    ASSUME LexInv, Balance, lexed = "no", Place, EofLast, TailRule, EdgeRule, AfterRule, LexNext
    PROVE  EdgeRule'
<1>0. /\ tokens \in Seq(Tokens) /\ Len(tokens) \in Nat /\ line \in Nat
      /\ Len(indent_stack) \in Nat /\ Len(indent_stack) >= 1 /\ bracket_depth \in Nat
  BY TokenFacts DEF Balance, Balanced, LexInv, LexTypeOK
<1>1. /\ Extends(tokens', tokens) /\ Len(tokens') \in Nat
  <2>1. CASE Scan  BY <1>0, <2>1, ScanAdds
  <2>2. CASE ~Scan  BY <2>2, StepAdds, TokenFacts DEF Quiet, Extends
  <2> QED  BY <2>1, <2>2
<1>2. SUFFICES ASSUME NEW k \in (Len(tokens) + 1)..Len(tokens') PROVE EdgeAt(tokens', k)
  <2>1. \A k \in 1..Len(tokens) : EdgeAt(tokens', k)  BY <1>1, EdgeStays DEF EdgeRule
  <2>2. \A k \in 1..Len(tokens') : k \in 1..Len(tokens) \/ k \in (Len(tokens) + 1)..Len(tokens')
    BY <1>0, <1>1
  <2> QED  BY <1>2, <2>1, <2>2 DEF EdgeRule
<1>3. CASE tokens' = tokens  BY <1>0, <1>3
<1>4. CASE Scan
  <2>1. Len(tokens') = Len(tokens) + 1 /\ IsText(tokens'[Len(tokens) + 1])  BY <1>4, ScanAdds
  <2>2. IsText(tokens'[k])  BY <1>0, <2>1
  <2> QED  BY <2>2 DEF EdgeAt, IsText, LayoutKinds
<1>5. CASE Newline /\ bracket_depth = 0
  <2>1. tokens' = Append(tokens, Token("newline")) /\ ~at_line_start /\ col > Len(Here.text)
    BY <1>5 DEF Newline, InLine, Emitted
  <2>2. EndsInText(tokens)  BY <2>1, LineRead
  <2>3. Len(tokens') = Len(tokens) + 1 /\ tokens'[Len(tokens) + 1] = Token("newline")  BY <1>0, <2>1
  <2>4. k - 1 = Len(tokens) /\ tokens'[k].kind = "newline"  BY <1>0, <2>3 DEF Token
  <2>5. k > 1 /\ tokens'[k - 1] = tokens[k - 1]
    BY <1>0, <1>1, <2>2, <2>4 DEF EndsInText, Extends
  <2> QED  BY <2>2, <2>4, <2>5 DEF EdgeAt, EndsInText
<1>6. CASE Deeper /\ after_colon
  <2>1. tokens' = Append(tokens, Token("indent")) /\ at_line_start /\ bracket_depth = 0
    BY <1>6 DEF Deeper, LogicalStart, AtLineStart, Emitted
  <2>2. /\ Len(tokens) > 1 /\ tokens[Len(tokens)].kind = "newline"
        /\ tokens[Len(tokens) - 1].kind = "colon"
    BY <1>6, <2>1 DEF AfterRule
  <2>3. Len(tokens') = Len(tokens) + 1 /\ tokens'[Len(tokens) + 1] = Token("indent")  BY <1>0, <2>1
  <2>4. k - 1 = Len(tokens) /\ k - 2 = Len(tokens) - 1 /\ tokens'[k].kind = "indent" /\ k > 2
    BY <1>0, <2>2, <2>3 DEF Token
  <2>5. tokens'[k - 1] = tokens[k - 1] /\ tokens'[k - 2] = tokens[k - 2]
    BY <1>0, <1>1, <2>2, <2>4 DEF Extends
  <2> QED  BY <2>2, <2>4, <2>5 DEF EdgeAt
<1>7. CASE Shallower
  <2>1. PICK n \in 1..(Len(indent_stack) - 1) :
          tokens' = tokens \o [j \in 1..(Len(indent_stack) - n) |-> Token("dedent")]
    BY <1>7 DEF Shallower
  <2> DEFINE r == [j \in 1..(Len(indent_stack) - n) |-> Token("dedent")]
  <2>2. Token("dedent") \in Tokens /\ Token("dedent").kind = "dedent"
    BY <1>0, LayoutTokens DEF Token
  <2>3. r \in Seq(Tokens) /\ \A i \in 1..Len(r) : r[i].kind = "dedent"
    <3>1. Len(indent_stack) - n \in Nat  BY <1>0
    <3> QED  BY <2>2, <3>1
  <2> HIDE DEF r
  <2>4. tokens' = Joined(tokens, r)  BY <2>1 DEF r, Joined
  <2>5. \A i \in (Len(tokens) + 1)..Len(Joined(tokens, r)) :
          i - Len(tokens) \in 1..Len(r) /\ Joined(tokens, r)[i] = r[i - Len(tokens)]
    BY <1>0, <2>3, TokensAdded
  <2>6. tokens'[k].kind = "dedent"  BY <2>3, <2>4, <2>5
  <2> QED  BY <2>6 DEF EdgeAt
<1>8. CASE EndOfSource
  <2>1. tokens' = Joined(tokens, EofTokens)  BY <1>8 DEF EndOfSource, Joined
  <2>2. EofTokens \in Seq(Tokens) /\ \A i \in 1..Len(EofTokens) : EofTokens[i].kind # "indent"
    BY <1>0, EofTokensAre
  <2>3. \A i \in (Len(tokens) + 1)..Len(Joined(tokens, EofTokens)) :
          i - Len(tokens) \in 1..Len(EofTokens)
          /\ Joined(tokens, EofTokens)[i] = EofTokens[i - Len(tokens)]
    BY <1>0, <2>2, TokensAdded
  <2>4. k - Len(tokens) \in 1..Len(EofTokens) /\ tokens'[k] = EofTokens[k - Len(tokens)]
    BY <2>1, <2>3
  <2>5. ASSUME tokens'[k].kind = "newline" PROVE k > 1 /\ IsText(tokens'[k - 1])
    <3>1. k - Len(tokens) = 1 /\ NeedsNewline  BY <1>0, <2>4, <2>5, EofShape
    <3>2. k - 1 = Len(tokens) /\ Len(tokens) > 0 /\ tokens[Len(tokens)].kind \notin LayoutKinds
      BY <1>0, <3>1 DEF NeedsNewline, Last
    <3>3. tokens[Len(tokens)].kind # "eof"  BY <1>0, <3>2 DEF EofLast
    <3>4. k > 1 /\ tokens'[k - 1] = tokens[k - 1]  BY <1>0, <1>1, <3>2 DEF Extends
    <3> QED  BY <3>2, <3>3, <3>4 DEF IsText
  <2> QED  BY <2>2, <2>4, <2>5 DEF EdgeAt
<1>9. \/ tokens' = tokens \/ Scan \/ (Newline /\ bracket_depth = 0) \/ (Deeper /\ after_colon)
      \/ Shallower \/ EndOfSource
  BY DEF LexNext, MixedLine, BlankLine, Continued, Deeper, SameLevel, LogicalStart, Scan, Newline
<1> QED  BY <1>3, <1>4, <1>5, <1>6, <1>7, <1>8, <1>9

LEMMA StepKeepsAfter ==
    ASSUME LexInv, Balance, lexed = "no", Place, TailRule, AfterRule, LexNext, lexed' = "no",
           at_line_start', bracket_depth' = 0
    PROVE  IF Len(tokens') = 0 THEN ~after_colon'
           ELSE /\ Len(tokens') > 1 /\ tokens'[Len(tokens')].kind = "newline"
                /\ after_colon' <=> tokens'[Len(tokens') - 1].kind = "colon"
<1>0. /\ tokens \in Seq(Tokens) /\ Len(tokens) \in Nat /\ DOMAIN tokens = 1..Len(tokens)
  BY TokenFacts DEF Balance, Balanced, LexInv, LexTypeOK
<1>1. CASE BlankLine  BY <1>1 DEF BlankLine, AtLineStart, AfterRule
<1>2. CASE Newline
  <2>1. bracket_depth = 0 /\ ~at_line_start /\ col > Len(Here.text)  BY <1>2 DEF Newline, InLine
  <2>2. tokens' = Append(tokens, Token("newline")) /\ after_colon' = LastRealIsColon
    BY <1>2, <2>1 DEF Newline, Emitted
  <2>3. EndsInText(tokens)  BY <2>1, LineRead
  <2>a. Len(tokens) > 0 /\ Len(tokens) \in 1..Len(tokens)  BY <1>0, <2>3 DEF EndsInText
  <2>b. /\ Len(tokens') = Len(tokens) + 1 /\ tokens'[Len(tokens) + 1] = Token("newline")
        /\ \A i \in 1..Len(tokens) : tokens'[i] = tokens[i]
    BY <1>0, <2>2
  <2>4. /\ Len(tokens') = Len(tokens) + 1 /\ tokens'[Len(tokens) + 1] = Token("newline")
        /\ Len(tokens) > 0 /\ tokens'[Len(tokens)] = tokens[Len(tokens)]
    BY <2>a, <2>b
  <2>5. LastRealIsColon <=> tokens[Len(tokens)].kind = "colon"
    <3> DEFINE real == {k \in DOMAIN tokens : tokens[k].kind \notin LayoutKinds}
    <3>1. real \in SUBSET Nat /\ Len(tokens) \in real /\ \A j \in real : j <= Len(tokens)
      BY <1>0, <2>3, <2>4 DEF EndsInText, IsText
    <3>2. real # {} /\ Max(real) = Len(tokens)
      <4> HIDE DEF real
      <4> QED  BY <3>1, MaxIs
    <3> QED  BY <3>2 DEF LastRealIsColon
  <2>6. Len(tokens') - 1 = Len(tokens) /\ Len(tokens') > 1 /\ Len(tokens') # 0  BY <1>0, <2>4
  <2> QED  BY <2>2, <2>4, <2>5, <2>6 DEF Token
<1>3. at_line_start' => BlankLine \/ Newline
  BY DEF LexNext, MixedLine, Continued, Deeper, Shallower, SameLevel, LogicalStart, Scan, InLine,
         EndOfSource, Fail
<1> QED  BY <1>1, <1>2, <1>3

LEMMA StepKeepsOrder ==
    ASSUME LexInv, Balance, lexed = "no", Place, TailRule, OrderRule, LexNext,
           lexed' \in {"no", "yes"}
    PROVE  OrderRule'
<1> DEFINE N == Len(tokens)
           New == (N + 1)..Len(tokens')
<1>0. /\ tokens \in Seq(Tokens) /\ N \in Nat /\ line \in Nat /\ tokens' \in Seq(Tokens)
      /\ Len(tokens') \in Nat /\ col \in Nat /\ col # 0 /\ Len(Lines) \in Nat
      /\ \A k \in 1..N : tokens[k].line \in Nat
  BY TokenFacts, StepAdds, LineFacts DEF Balance, Balanced, LexInv, LexTypeOK
<1>1. /\ Extends(tokens', tokens) /\ N <= Len(tokens')
      /\ \A k \in 1..N : tokens'[k] = tokens[k]
      /\ \A k \in New : tokens'[k].line = line
  <2>1. CASE Scan  BY <1>0, <2>1, ScanAdds, StepLines DEF Extends
  <2>2. CASE ~Scan  BY <2>2, StepAdds, StepLines DEF Quiet, Extends
  <2> QED  BY <2>1, <2>2
<1>2. \A k \in 1..Len(tokens') : k \in 1..N \/ k \in New  BY <1>0
<1>3. /\ line' \in {line, line + 1} /\ line' \in Nat
      /\ line' = line /\ lexed' = "no" /\ (at_line_start' \/ col' = 1) => at_line_start /\ ~Scan
  <2>1. CASE Scan
    <3>1. line' = line /\ col' = col + 1 /\ at_line_start' = at_line_start /\ ~at_line_start
      BY <2>1, ScanAdds
    <3> QED  BY <1>0, <3>1
  <2>2. CASE ~Scan
    <3>1. line' \in {line, line + 1}  BY <2>2, StepPlaces
    <3>2. ASSUME line' = line, lexed' = "no" PROVE at_line_start
      <4>1. line' # line + 1 /\ lexed' # "yes"  BY <1>0, <3>2
      <4> QED  BY <2>2, <3>2, <4>1, StepPlaces
    <3> QED  BY <1>0, <2>2, <3>1, <3>2
  <2> QED  BY <2>1, <2>2
<1>a. \A k \in 1..N : tokens[k].line <= line  BY DEF OrderRule
<1>b. at_line_start \/ col = 1 => \A k \in 1..N : IsText(tokens[k]) => tokens[k].line < line
  BY DEF OrderRule
<1>4. \A j, k \in 1..N : j < k =>
           /\ tokens[j].line <= tokens[k].line
           /\ k \in Starts(tokens) /\ IsText(tokens[j]) => tokens[j].line < tokens[k].line
  BY DEF OrderRule
<1>c. \A k \in 1..N : tokens'[k] = tokens[k]  BY <1>1
<1>d. \A k \in 1..N : tokens[k].line \in Nat  BY <1>0
<1>5. ASSUME NEW k \in New, IsText(tokens'[k]) PROVE Scan
  BY <1>5, StepAdds DEF Quiet
<1>6. ASSUME NEW k \in 1..Len(tokens')
      PROVE  /\ tokens'[k].line <= line'
             /\ lexed' = "no" /\ (at_line_start' \/ col' = 1) /\ IsText(tokens'[k]) => tokens'[k].line < line'
  <2>1. CASE k \in 1..N
    <3>1. tokens'[k] = tokens[k] /\ tokens[k].line \in Nat /\ tokens[k].line <= line
      BY <1>a, <1>c, <1>d, <2>1
    <3>2. ASSUME lexed' = "no", at_line_start' \/ col' = 1, IsText(tokens[k]) PROVE tokens[k].line < line'
      <4>1. CASE line' = line + 1  BY <1>0, <3>1, <4>1
      <4>2. CASE line' = line
        <5>1. at_line_start \/ col = 1  BY <1>3, <3>2, <4>2
        <5> QED  BY <1>b, <2>1, <3>2, <4>2, <5>1
      <4> QED  BY <1>3, <4>1, <4>2
    <3> QED  BY <1>0, <1>3, <3>1, <3>2
  <2>2. CASE k \in New
    <3>1. tokens'[k].line = line /\ line <= line'  BY <1>0, <1>1, <1>3, <2>2
    <3>2. ASSUME lexed' = "no", at_line_start' \/ col' = 1, IsText(tokens'[k]) PROVE FALSE
      <4>1. Scan  BY <1>5, <2>2, <3>2
      <4>2. line' = line  BY <4>1, ScanAdds
      <4> QED  BY <1>3, <3>2, <4>1, <4>2
    <3> QED  BY <3>1, <3>2
  <2> QED  BY <1>2, <2>1, <2>2
<1>7. ASSUME NEW j \in 1..Len(tokens'), NEW k \in 1..Len(tokens'), j < k
      PROVE  /\ tokens'[j].line <= tokens'[k].line
             /\ k \in Starts(tokens') /\ IsText(tokens'[j]) => tokens'[j].line < tokens'[k].line
  <2>1. CASE k \in 1..N
    <3>1. j \in 1..N /\ tokens'[j] = tokens[j] /\ tokens'[k] = tokens[k]
      BY <1>0, <1>1, <1>7, <2>1
    <3>2. k \in Starts(tokens') => k \in Starts(tokens)
      <4>1. k - 1 \in 1..N \/ k = 1  BY <2>1
      <4>2. k # 1 => tokens'[k - 1] = tokens[k - 1]  BY <1>1, <4>1
      <4> QED  BY <2>1, <3>1, <4>2 DEF Starts
    <3> QED  BY <1>4, <1>7, <2>1, <3>1, <3>2
  <2>2. CASE k \in New
    <3>1. tokens'[k].line = line  BY <1>1, <2>2
    <3>2. CASE j \in New
      <4>1. tokens'[j].line = line  BY <1>1, <3>2
      <4>2. ~IsText(tokens'[j])
        <5> SUFFICES ASSUME IsText(tokens'[j]) PROVE FALSE
          OBVIOUS
        <5>1. Len(tokens') = N + 1  BY <1>5, <3>2, ScanAdds
        <5> QED  BY <1>0, <1>7, <2>2, <3>2, <5>1
      <4> QED  BY <1>0, <3>1, <4>1, <4>2
    <3>3. CASE j \in 1..N
      <4>1. tokens'[j] = tokens[j] /\ tokens[j].line <= line  BY <1>a, <1>c, <3>3
      <4>2. ASSUME k \in Starts(tokens'), IsText(tokens[j]) PROVE tokens[j].line < line
        <5>1. IsText(tokens'[k])  BY <4>2 DEF Starts
        <5>2. Scan  BY <1>5, <2>2, <5>1
        <5>3. k \in Starts(tokens) \cup (IF EndsInText(tokens) THEN {} ELSE {N + 1})
          BY <4>2, <5>2, ScanAdds
        <5>4. k \notin Starts(tokens)  BY <1>0, <2>2 DEF Starts
        <5>5. ~EndsInText(tokens)  BY <5>3, <5>4
        <5>6. col = 1  BY <5>5 DEF TailRule
        <5> QED  BY <1>b, <3>3, <4>2, <5>6
      <4> QED  BY <3>1, <4>1, <4>2
    <3> QED  BY <1>2, <3>2, <3>3
  <2> QED  BY <1>2, <2>1, <2>2
<1> QED  BY <1>6, <1>7 DEF OrderRule

-------------------------------------------------------------------------------
(* The tokens of a logical line are the text of its lines, and a NEWLINE     *)
(* follows them.                                                             *)
RunIs(ts, k, s) == k + Len(s) - 1 <= Len(ts) /\ \A n \in 1..Len(s) : ts[k + n - 1].kind = s[n]
ReadAt(h, l, c, start) ==
    IF start THEN TextFrom(h, l - 1) ELSE Joined(TextFrom(h, l - 1), SubSeq(Lines[l].text, 1, c - 1))

Finished(ts, k) ==
    LET s == TextOf(ts[k].line)
    IN  RunIs(ts, k, s) /\ k + Len(s) <= Len(ts) /\ ts[k + Len(s)].kind = "newline"
AtTail(ts, k, s) == RunIs(ts, k, s) /\ k + Len(s) - 1 = Len(ts)
Unfinished(ts, k) ==
    /\ lexed = "no" /\ Newest(ts[k].line) /\ (at_line_start => bracket_depth > 0)
    /\ AtTail(ts, k, ReadAt(ts[k].line, line, col, at_line_start))
TextRule ==
    lexed \in {"no", "yes"} /\ (lexed = "yes" => bracket_depth = 0) /\ ~Surplus =>
      \A k \in Starts(tokens) : Finished(tokens, k) \/ Unfinished(tokens, k)

LEMMA TextStays ==
    ASSUME source' = source
    PROVE  /\ \A i, j : TextFrom(i, j)' = TextFrom(i, j)
           /\ \A l : TextOf(l)' = TextOf(l)
<1>1. Lines' = Lines /\ \A i : DepthBefore(i)' = DepthBefore(i)  BY LinesStay
<1>2. \A i, j : TextFrom(i, j)' = TextFrom(i, j)  BY <1>1 DEF TextFrom, Parts
<1>3. Outline' = Outline  BY DEF Outline, DepthBefore, PlacesBefore, WidthOf, Lines
<1>4. \A l : TextOf(l)' = TextOf(l)  BY <1>3 DEF TextOf
<1> QED  BY <1>2, <1>4

LEMMA FinishedStays ==
    ASSUME NEW ts, NEW us, Extends(us, ts), NEW k \in 1..Len(ts), Finished(ts, k),
           Len(TextOf(ts[k].line)) \in Nat
    PROVE  Finished(us, k)
<1> DEFINE s == TextOf(ts[k].line)
<1>1. /\ us[k] = ts[k] /\ Len(ts) \in Nat /\ Len(us) \in Nat /\ Len(ts) <= Len(us)
      /\ \A i \in 1..Len(ts) : us[i] = ts[i]
  BY TokenFacts DEF Extends
<1>2. RunIs(ts, k, s) /\ k + Len(s) <= Len(ts) /\ ts[k + Len(s)].kind = "newline"  BY DEF Finished
<1>3. Len(s) \in Nat  OBVIOUS
<1> HIDE DEF s
<1>4. k + Len(s) \in 1..Len(ts) /\ k + Len(s) <= Len(us) /\ k + Len(s) - 1 <= Len(us)
  BY <1>1, <1>2, <1>3
<1>5. \A n \in 1..Len(s) : k + n - 1 \in 1..Len(ts)  BY <1>1, <1>3, <1>4
<1>6. RunIs(us, k, s)  BY <1>1, <1>2, <1>4, <1>5 DEF RunIs
<1>7. us[k + Len(s)].kind = "newline"  BY <1>1, <1>2, <1>4
<1> QED  BY <1>1, <1>4, <1>6, <1>7 DEF Finished, s

LEMMA RunGrows ==
    ASSUME NEW ts \in Seq(Tokens), NEW us, NEW k \in 1..(Len(ts) + 1), NEW s \in Seq(TextKinds), NEW e \in TextKinds,
           AtTail(ts, k, s), Extends(us, ts), Len(us) = Len(ts) + 1, us[Len(ts) + 1].kind = e
    PROVE  AtTail(us, k, Append(s, e))
<1> DEFINE r == Append(s, e)
<1>1. /\ Len(r) = Len(s) + 1 /\ r[Len(s) + 1] = e /\ \A n \in 1..Len(s) : r[n] = s[n]
      /\ Len(s) \in Nat /\ Len(ts) \in Nat
  OBVIOUS
<1>a. RunIs(ts, k, s) /\ k + Len(s) - 1 = Len(ts)  BY DEF AtTail
<1> HIDE DEF r
<1>2. ASSUME NEW n \in 1..Len(r) PROVE us[k + n - 1].kind = r[n]
  <2>1. CASE n = Len(s) + 1
    <3>1. k + n - 1 = Len(ts) + 1  BY <1>1, <1>a, <2>1
    <3> QED  BY <1>1, <2>1, <3>1
  <2>2. CASE n # Len(s) + 1
    <3>1. n \in 1..Len(s) /\ k + n - 1 \in 1..Len(ts)  BY <1>1, <1>a, <2>2
    <3>2. us[k + n - 1] = ts[k + n - 1]  BY <3>1 DEF Extends
    <3> QED  BY <1>1, <1>a, <3>1, <3>2 DEF RunIs
  <2> QED  BY <2>1, <2>2
<1>3. k + Len(r) - 1 = Len(us)  BY <1>1, <1>a
<1> QED  BY <1>1, <1>2, <1>3 DEF RunIs, AtTail, r

(* A line that leaves no bracket open, and the last one, end a logical line. *)
LEMMA LineDone ==
    ASSUME source \in Sources, NEW h \in Logicals, NEW l \in 1..Len(Lines), h <= l,
           \A j \in Logicals : j <= l => j <= h,
           l = Len(Lines) \/ DepthBefore(l + 1) = 0
    PROVE  TextFrom(h, l) = TextOf(h)
<1> DEFINE m == EndOf(h)
           e == Len(Lines)
<1>1. m \in Nat /\ h <= m /\ m <= e /\ TextOf(h) = TextFrom(h, m)  BY EndFacts
<1>a. (\A k \in Logicals : k > h => m <= k - 1) /\ (m = e \/ m + 1 \in Logicals)
  BY EndFacts
<1>2. e \in Nat /\ h \in 1..e /\ DOMAIN Lines = 1..e  BY LineFacts DEF Logicals
<1>b. \A j \in Logicals : j <= l => j <= h  OBVIOUS
<1>c. l \in 1..e /\ h <= l /\ (l = e \/ DepthBefore(l + 1) = 0)  OBVIOUS
<1>d. e = Len(Lines)  OBVIOUS
<1> HIDE DEF m, e
<1>n. e \in Nat /\ m \in Nat /\ h \in Nat /\ l \in Nat /\ h <= m /\ m <= e /\ h >= 1 /\ l >= 1 /\ l <= e
      /\ h <= l
  BY <1>1, <1>2, <1>c
<1>3. l <= m
  <2>1. ASSUME m < l PROVE FALSE
    <3>0. m # e /\ m + 1 <= l  BY <1>n, <2>1
    <3>1. m + 1 \in Logicals  BY <1>a, <3>0
    <3>2. m + 1 <= h  BY <1>b, <3>0, <3>1
    <3> QED  BY <1>n, <3>2
  <2> QED  BY <1>n, <2>1
<1> DEFINE T == {d \in Nat : l + d <= m /\ l # e =>
                               /\ DepthBefore(l + d + 1) = 0
                               /\ d > 0 => Lines[l + d].text = <<>>}
<1>4. 0 \in T
  <2>1. l + 0 + 1 = l + 1  BY <1>n
  <2> QED  BY <1>c, <2>1
<1>5. ASSUME NEW d \in Nat, d \in T PROVE d + 1 \in T
  <2> SUFFICES ASSUME l + (d + 1) <= m, l # e
               PROVE  DepthBefore(l + (d + 1) + 1) = 0 /\ Lines[l + (d + 1)].text = <<>>
    OBVIOUS
  <2> DEFINE x == l + d + 1
  <2>a. l + (d + 1) <= m /\ l # e  OBVIOUS
  <2>1. x \in 1..e /\ l + (d + 1) = x /\ x > h /\ x <= m /\ x \in Nat /\ l + d <= m
    BY <1>n, <2>a
  <2>2. DepthBefore(x) = 0  BY <1>5, <2>1, <2>a
  <2> HIDE DEF x
  <2>3. x \notin Logicals
    <3>1. ASSUME x \in Logicals PROVE FALSE
      <4>1. m <= x - 1  BY <1>a, <2>1, <3>1
      <4> QED  BY <1>n, <2>1, <4>1
    <3> QED  BY <3>1
  <2>4. Lines[x].text = <<>>  BY <1>2, <2>1, <2>2, <2>3 DEF Logicals
  <2>5. DepthBefore(x + 1) = 0
    <3>0. x \in 1..Len(Lines)  BY <1>d, <2>1
    <3>1. Lines[x].text \in Seq(TextKinds) /\ Len(Lines[x].text) = 0  BY <2>4, <3>0, LineFacts
    <3>2. Level(Lines[x].text, 0) = 0  BY <3>1, LevelNone
    <3>3. DepthBefore(x + 1) = DepthBefore(x) + Level(Lines[x].text, Len(Lines[x].text))
      BY <3>0, DepthStep
    <3> QED  BY <2>2, <3>1, <3>2, <3>3
  <2> QED  BY <2>1, <2>4, <2>5
<1> HIDE DEF T
<1>6. \A d \in Nat : d \in T  BY <1>4, <1>5, NatInduct
<1>7. ASSUME NEW x \in (l + 1)..m PROVE Lines[x].text = <<>>
  <2>1. x - l \in Nat /\ x - l > 0 /\ l + (x - l) = x /\ x <= m /\ l # e  BY <1>n
  <2>2. x - l \in T  BY <1>6, <2>1
  <2> QED  BY <2>1, <2>2 DEF T
<1>8. TextFrom(h, m) = TextFrom(h, l)
  <2>1. h \in 1..Len(Lines) /\ l \in (h - 1)..Len(Lines) /\ m \in l..Len(Lines)
    BY <1>n, <1>3, <1>d
  <2> QED  BY <1>7, <2>1, BlankTail
<1> QED  BY <1>1, <1>8

(* What has been read of a line, one step on.                                *)
LEMMA ReadFacts ==
    ASSUME source \in Sources, NEW h \in Logicals, NEW l \in 1..Len(Lines), h <= l
    PROVE  /\ TextFrom(h, l - 1) \in Seq(TextKinds) /\ TextFrom(h, l) \in Seq(TextKinds)
           /\ Lines[l].text = <<>> => TextFrom(h, l) = TextFrom(h, l - 1)
           /\ h = l => TextFrom(h, l - 1) = <<>>
           /\ ReadAt(h, l, 1, FALSE) = TextFrom(h, l - 1)
           /\ ReadAt(h, l, Len(Lines[l].text) + 1, FALSE) = TextFrom(h, l)
           /\ \A c \in 1..Len(Lines[l].text) :
                /\ ReadAt(h, l, c, FALSE) \in Seq(TextKinds)
                /\ ReadAt(h, l, c + 1, FALSE) = Append(ReadAt(h, l, c, FALSE), Lines[l].text[c])
<1> DEFINE t == Lines[l].text
           p == TextFrom(h, l - 1)
<1>1. /\ Len(Lines) \in Nat /\ h \in 1..Len(Lines) /\ t \in Seq(TextKinds) /\ Len(t) \in Nat
  BY LineFacts DEF Logicals
<1>2. l - 1 \in (h - 1)..Len(Lines) /\ l - 1 < Len(Lines) /\ (l - 1) + 1 = l /\ l \in (h - 1)..Len(Lines)
  BY <1>1
<1>3. p \in Seq(TextKinds) /\ TextFrom(h, l) \in Seq(TextKinds) /\ TextFrom(h, l) = Joined(p, t)
  BY <1>1, <1>2, TextFromStep
<1>4. h = l => p = <<>>  BY <1>1, <1>2, TextFromStep
<1> HIDE DEF t, p
<1>5. t = <<>> => TextFrom(h, l) = p  BY <1>3, ConcatEmptySeq DEF Joined
<1>6. SubSeq(t, 1, 0) = <<>> /\ SubSeq(t, 1, Len(t)) = t
  BY <1>1
<1>7. 1 - 1 = 0 /\ (Len(t) + 1) - 1 = Len(t)  BY <1>1
<1>8. ReadAt(h, l, 1, FALSE) = p /\ ReadAt(h, l, Len(t) + 1, FALSE) = TextFrom(h, l)
  <2>1. ReadAt(h, l, 1, FALSE) = Joined(p, SubSeq(t, 1, 1 - 1))
        /\ ReadAt(h, l, Len(t) + 1, FALSE) = Joined(p, SubSeq(t, 1, (Len(t) + 1) - 1))
    BY DEF ReadAt, p, t
  <2>2. Joined(p, <<>>) = p  BY <1>3, ConcatEmptySeq DEF Joined
  <2> QED  BY <1>3, <1>6, <1>7, <2>1, <2>2
<1>9. ASSUME NEW c \in 1..Len(t)
      PROVE  /\ ReadAt(h, l, c, FALSE) \in Seq(TextKinds)
             /\ ReadAt(h, l, c + 1, FALSE) = Append(ReadAt(h, l, c, FALSE), t[c])
  <2> DEFINE q == SubSeq(t, 1, c - 1)
             r == SubSeq(t, 1, c)
  <2>1. q \in Seq(TextKinds) /\ t[c] \in TextKinds /\ r = Append(q, t[c])
    <3>1. /\ q \in Seq(TextKinds) /\ r \in Seq(TextKinds) /\ Len(q) = c - 1 /\ Len(r) = c /\ t[c] \in TextKinds
          /\ \A x \in 1..(c - 1) : q[x] = t[x] /\ r[x] = t[x]
          /\ r[c] = t[c]
      BY <1>1
    <3> HIDE DEF q, r
    <3>2. Len(r) = Len(q) + 1 /\ r[Len(q) + 1] = t[c] /\ \A x \in 1..Len(q) : r[x] = q[x]
      BY <1>1, <3>1
    <3> QED  BY <3>1, <3>2, AppendIs
  <2>2. ReadAt(h, l, c, FALSE) = Joined(p, q) /\ ReadAt(h, l, c + 1, FALSE) = Joined(p, r)
    <3>1. (c + 1) - 1 = c  BY <1>1
    <3> QED  BY <3>1 DEF ReadAt, p, t
  <2> HIDE DEF q, r
  <2>3. Joined(p, q) \in Seq(TextKinds)  BY <1>3, <2>1 DEF Joined
  <2>4. Joined(p, Append(q, t[c])) = Append(Joined(p, q), t[c])
    BY SMTT(30), <1>3, <2>1 DEF Joined
  <2> QED  BY <2>1, <2>2, <2>3, <2>4
<1> QED  BY <1>3, <1>4, <1>5, <1>8, <1>9 DEF t, p

-------------------------------------------------------------------------------
(* What a step of the lexer makes of this.                                  *)
LastUpTo(h, r) == h \in Logicals /\ h <= r /\ \A j \in Logicals : j <= r => j <= h

LEMMA TextPrimed ==
    ASSUME source' = source
    PROVE  TextRule' <=>
      (lexed' \in {"no", "yes"} /\ (lexed' = "yes" => bracket_depth' = 0) /\ ~Surplus' =>
        \A k \in Starts(tokens') :
          \/ Finished(tokens', k)
          \/ /\ lexed' = "no" /\ LastUpTo(tokens'[k].line, Reached') /\ (at_line_start' => bracket_depth' > 0)
             /\ AtTail(tokens', k, ReadAt(tokens'[k].line, line', col', at_line_start')))
<1>1. /\ \A i, j : TextFrom(i, j)' = TextFrom(i, j)
      /\ \A l : TextOf(l)' = TextOf(l)
      /\ Lines' = Lines
  BY TextStays, LinesStay
<1>2. Starts(tokens)' = Starts(tokens')  BY DEF Starts, IsText
<1>3. \A k : Finished(tokens, k)' <=> Finished(tokens', k)  BY <1>1 DEF Finished, RunIs
<1>4. \A k : AtTail(tokens, k, ReadAt(tokens[k].line, line, col, at_line_start))'
               <=> AtTail(tokens', k, ReadAt(tokens'[k].line, line', col', at_line_start'))
  <2>1. \A k : ReadAt(tokens[k].line, line, col, at_line_start)'
                 = ReadAt(tokens'[k].line, line', col', at_line_start')
    BY <1>1 DEF ReadAt, Joined
  <2> QED  BY <2>1 DEF AtTail, RunIs
<1>7. \A k : Newest(tokens[k].line)' <=> LastUpTo(tokens'[k].line, Reached')
  BY <1>1, LinesStay DEF Newest, LastUpTo
<1>5. \A k : Unfinished(tokens, k)' <=>
             /\ lexed' = "no" /\ LastUpTo(tokens'[k].line, Reached') /\ (at_line_start' => bracket_depth' > 0)
             /\ AtTail(tokens', k, ReadAt(tokens'[k].line, line', col', at_line_start'))
  BY <1>4, <1>7 DEF Unfinished
<1> QED  BY <1>2, <1>3, <1>5 DEF TextRule

(* The tokens of a line whose NEWLINE comes are the whole of its text.       *)
LEMMA RunEnds ==
    ASSUME NEW ts \in Seq(Tokens), NEW us, Extends(us, ts), NEW k \in 1..Len(ts), us[k] = ts[k],
           Len(us) > Len(ts), us[Len(ts) + 1].kind = "newline",
           NEW s \in Seq(TextKinds), s = TextOf(ts[k].line), AtTail(ts, k, s)
    PROVE  Finished(us, k)
<1>1. /\ RunIs(ts, k, s) /\ k + Len(s) - 1 = Len(ts) /\ Len(s) \in Nat /\ Len(ts) \in Nat
      /\ Len(us) \in Nat
  BY TokenFacts DEF AtTail, Extends
<1>2. \A n \in 1..Len(s) : k + n - 1 \in 1..Len(ts)  BY <1>1
<1>3. \A n \in 1..Len(s) : us[k + n - 1].kind = s[n]  BY <1>1, <1>2 DEF RunIs, Extends
<1>4. k + Len(s) = Len(ts) + 1 /\ k + Len(s) - 1 <= Len(us) /\ k + Len(s) <= Len(us)  BY <1>1
<1> QED  BY <1>3, <1>4 DEF Finished, RunIs

LEMMA StepKeepsText ==
    ASSUME NestInv, NestInv', LayInv, LayInv', TextRule, lexed = "no", LexNext
    PROVE  TextRule'
<1> DEFINE N == Len(tokens)
<1>0. /\ LexInv /\ Balance /\ Place /\ DepthRight /\ LexInv' /\ TailRule /\ StartsRight
      /\ tokens \in Seq(Tokens) /\ N \in Nat /\ line \in Nat /\ line # 0 /\ col \in Nat /\ col # 0
      /\ Len(indent_stack) \in Nat /\ Len(indent_stack) >= 1 /\ bracket_depth \in Nat
      /\ at_line_start \in BOOLEAN /\ source \in Sources /\ source' = source
  BY TokenFacts, StepAdds DEF NestInv, LayInv, Balance, Balanced, LexInv, LexTypeOK
<1> SUFFICES ASSUME lexed' \in {"no", "yes"}, lexed' = "yes" => bracket_depth' = 0, ~Surplus',
                    NEW k \in Starts(tokens')
             PROVE  \/ Finished(tokens', k)
                    \/ /\ lexed' = "no" /\ LastUpTo(tokens'[k].line, Reached')
                       /\ (at_line_start' => bracket_depth' > 0)
                       /\ AtTail(tokens', k, ReadAt(tokens'[k].line, line', col', at_line_start'))
  BY <1>0, TextPrimed
<1> DEFINE Goal == \/ Finished(tokens', k)
                   \/ /\ lexed' = "no" /\ LastUpTo(tokens'[k].line, Reached')
                      /\ (at_line_start' => bracket_depth' > 0)
                      /\ AtTail(tokens', k, ReadAt(tokens'[k].line, line', col', at_line_start'))
<1>1. line' \in {line, line + 1}
  <2>1. CASE Scan  BY <1>0, <2>1, ScanAdds
  <2>2. CASE ~Scan  BY <1>0, <2>2, StepPlaces
  <2> QED  BY <2>1, <2>2
<1>2. ~Surplus  BY <1>0, <1>1, SurplusOnly
<1>3. Extends(tokens', tokens) /\ Len(tokens') \in Nat /\ N <= Len(tokens')
      /\ (~Scan => Starts(tokens') = Starts(tokens))
  <2>1. CASE Scan  BY <1>0, <2>1, ScanAdds, TokenFacts DEF Extends
  <2>2. CASE ~Scan  BY <1>0, <2>2, StepAdds, QuietAdds, TokenFacts DEF Quiet, Extends
  <2> QED  BY <2>1, <2>2
<1>t. StartsAre(tokens, Passed)  BY <1>2 DEF StartsRight, LayInv
<1>4. ASSUME k \in Starts(tokens) PROVE Goal
  <2> DEFINE h == tokens[k].line
  <2>0. k \in 1..N /\ tokens'[k] = tokens[k]  BY <1>3, <1>4, OldStarts
  <2>1. h \in Logicals
    <3>1. h \in Passed  BY <1>t, <1>4 DEF StartsAre
    <3> QED  BY <3>1 DEF Passed
  <2>2. CASE Finished(tokens, k)
    <3>1. TextOf(h) \in Seq(TextKinds)
      <4>1. h \in 1..Len(Lines) /\ EndOf(h) \in (h - 1)..Len(Lines) /\ TextOf(h) = TextFrom(h, EndOf(h))
        <5>1. h \in 1..Len(Lines) /\ Len(Lines) \in Nat  BY <1>0, <2>1, LineFacts DEF Logicals
        <5>2. /\ EndOf(h) \in Nat /\ h <= EndOf(h) /\ EndOf(h) <= Len(Lines)
              /\ TextOf(h) = TextFrom(h, EndOf(h))
          BY <1>0, <2>1, EndFacts
        <5> HIDE DEF h
        <5> QED  BY <5>1, <5>2
      <4> QED  BY <1>0, <4>1, TextFromStep
    <3>2. Len(TextOf(h)) \in Nat  BY <3>1
    <3> QED  BY <1>3, <2>0, <2>2, <3>2, FinishedStays
  <2>3. CASE Unfinished(tokens, k)
    <3>1. /\ Newest(h) /\ (at_line_start => bracket_depth > 0)
          /\ AtTail(tokens, k, ReadAt(h, line, col, at_line_start))
      BY <2>3 DEF Unfinished
    <3>2. /\ h <= Reached /\ (\A j \in Logicals : j <= Reached => j <= h)
          /\ Len(Lines) \in Nat /\ h \in 1..Len(Lines) /\ DOMAIN Lines = 1..Len(Lines)
      BY <1>0, <2>1, <3>1, LineFacts DEF Newest, Logicals
    <3>3. k \in 1..(N + 1) /\ tokens'[k].line = h  BY <1>0, <2>0
    <3> HIDE DEF h
    <3>4. CASE BlankLine
      <4>1. /\ line' = line + 1 /\ at_line_start /\ at_line_start' = TRUE /\ ~AtEnd
            /\ Lines[line].text = <<>> /\ tokens' = tokens /\ lexed' = "no"
            /\ bracket_depth' = bracket_depth
        BY <1>0, <3>4 DEF BlankLine, AtLineStart, Here, Lines
      <4>2. line \in 1..Len(Lines) /\ h <= line - 1 /\ h <= line /\ line' - 1 = line
        BY <1>0, <3>2, <4>1, StartFacts DEF Reached
      <4>3. \A j \in Logicals : j <= line => j <= line - 1
        <5>1. \A j \in Logicals : j \in Nat /\ j # line  BY <1>0, <4>1, LineFacts DEF Logicals
        <5> QED  BY <1>0, <5>1
      <4>4. LastUpTo(h, Reached')
        <5>1. \A j \in Logicals : j <= line => j <= h  BY <3>2, <4>1, <4>3 DEF Reached
        <5>2. Reached' = line  BY <1>0, <4>1, <4>2 DEF Reached
        <5> QED  BY <2>1, <4>2, <5>1, <5>2 DEF LastUpTo
      <4>5. ReadAt(h, line', col', TRUE) = ReadAt(h, line, col, TRUE)
        <5>1. TextFrom(h, line) = TextFrom(h, line - 1)  BY <1>0, <2>1, <4>1, <4>2, ReadFacts
        <5> QED  BY <4>2, <5>1 DEF ReadAt
      <4> QED  BY <3>1, <3>3, <4>1, <4>4, <4>5
    <3>5. CASE Continued
      <4>1. /\ line' = line /\ col' = col /\ at_line_start /\ at_line_start' = FALSE /\ ~AtEnd
            /\ bracket_depth > 0 /\ tokens' = tokens /\ lexed' = "no" /\ col = 1
        BY <1>0, <3>5 DEF Continued, AtLineStart, Place
      <4>2. line \in 1..Len(Lines) /\ h <= line - 1 /\ h <= line
        BY <1>0, <3>2, <4>1, StartFacts DEF Reached
      <4>3. line \notin Logicals  BY <1>0, <1>2, <4>1, LogicalHere
      <4>4. \A j \in Logicals : j <= line => j <= line - 1
        <5>1. \A j \in Logicals : j \in Nat /\ j # line  BY <1>0, <4>3, LineFacts DEF Logicals
        <5> QED  BY <1>0, <5>1
      <4>5. LastUpTo(h, Reached')
        <5>1. \A j \in Logicals : j <= line => j <= h  BY <3>2, <4>1, <4>4 DEF Reached
        <5>2. Reached' = line  BY <1>0, <4>1, <4>2 DEF Reached
        <5> QED  BY <2>1, <4>2, <5>1, <5>2 DEF LastUpTo
      <4>6. ReadAt(h, line', col', FALSE) = ReadAt(h, line, col, TRUE)
        <5>1. ReadAt(h, line, 1, FALSE) = TextFrom(h, line - 1)  BY <1>0, <2>1, <4>2, ReadFacts
        <5> QED  BY <4>1, <5>1 DEF ReadAt
      <4> QED  BY <3>1, <3>3, <4>1, <4>5, <4>6
    <3>6. CASE Scan
      <4>1. /\ line' = line /\ col' = col + 1 /\ at_line_start = FALSE /\ at_line_start' = FALSE /\ ~AtEnd
            /\ lexed' = "no" /\ col <= Len(Here.text) /\ Len(tokens') = N + 1
            /\ tokens'[N + 1].kind = Here.text[col]
        <5>1. Token(Here.text[col]).kind = Here.text[col]  BY DEF Token
        <5> QED  BY <1>0, <3>6, <5>1, ScanAdds
      <4>2. /\ line \in 1..Len(Lines) /\ h <= line /\ Here = Lines[line]
            /\ col \in 1..Len(Lines[line].text)
        BY <1>0, <3>2, <4>1, StartFacts DEF Reached
      <4>3. LastUpTo(h, Reached')
        <5>1. \A j \in Logicals : j <= line => j <= h  BY <3>2, <4>1 DEF Reached
        <5>2. Reached' = line  BY <1>0, <4>1, <4>2 DEF Reached
        <5> QED  BY <2>1, <4>2, <5>1, <5>2 DEF LastUpTo
      <4>4. /\ ReadAt(h, line, col, FALSE) \in Seq(TextKinds)
            /\ ReadAt(h, line, col + 1, FALSE) = Append(ReadAt(h, line, col, FALSE), Lines[line].text[col])
        BY <1>0, <2>1, <4>2, ReadFacts
      <4>5. Lines[line].text[col] \in TextKinds  BY <1>0, <4>2, LineFacts
      <4>6. AtTail(tokens', k, ReadAt(h, line, col + 1, FALSE))
        BY <1>0, <1>3, <3>1, <3>3, <4>1, <4>2, <4>4, <4>5, RunGrows
      <4> QED  BY <3>3, <4>1, <4>3, <4>6
    <3>7. CASE Newline
      <4>1. /\ line' = line + 1 /\ col' = 1 /\ at_line_start = FALSE /\ at_line_start' = TRUE /\ ~AtEnd
            /\ lexed' = "no" /\ col > Len(Here.text) /\ bracket_depth' = bracket_depth
        BY <1>0, <3>7 DEF Newline, InLine
      <4>2. /\ line \in 1..Len(Lines) /\ h <= line /\ Here = Lines[line] /\ line' - 1 = line
            /\ col = Len(Lines[line].text) + 1
        <5>1. line \in 1..Len(Lines) /\ h <= line /\ Here = Lines[line] /\ Len(Here.text) \in Nat
          BY <1>0, <3>2, <4>1, StartFacts DEF Reached
        <5>2. col <= Len(Lines[line].text) + 1  BY <1>0, <4>1 DEF Place
        <5> QED  BY <1>0, <4>1, <5>1, <5>2
      <4>a. \A j \in Logicals : j <= line => j <= h  BY <3>2, <4>1 DEF Reached
      <4>3. ReadAt(h, line, col, FALSE) = TextFrom(h, line)  BY <1>0, <2>1, <4>2, ReadFacts
      <4>4. CASE bracket_depth > 0
        <5>1. tokens' = tokens  BY <1>0, <3>7, <4>4 DEF Newline
        <5>4. Reached' = line  BY <1>0, <4>1, <4>2 DEF Reached
        <5>2. LastUpTo(h, Reached')  BY <2>1, <4>2, <4>a, <5>4 DEF LastUpTo
        <5>3. ReadAt(h, line', col', TRUE) = ReadAt(h, line, col, FALSE)  BY <4>2, <4>3 DEF ReadAt
        <5> QED  BY <3>1, <3>3, <4>1, <4>4, <5>1, <5>2, <5>3
      <4>5. CASE bracket_depth = 0
        <5>1. tokens' = Append(tokens, Token("newline"))  BY <3>7, <4>5 DEF Newline, Emitted
        <5>2. Len(tokens') > N /\ tokens'[N + 1].kind = "newline"  BY <1>0, <5>1 DEF Token
        <5>3. DepthBefore(line + 1) = 0
          <6>1. DepthRight'  BY <4>1 DEF NestInv
          <6>2. bracket_depth' = DepthBefore(line')  BY <1>0, <4>1, <6>1, DepthPrimed
          <6> QED  BY <4>1, <4>5, <6>2
        <5>4. TextFrom(h, line) = TextOf(h)  BY <1>0, <2>1, <4>2, <4>a, <5>3, LineDone
        <5>5. TextFrom(h, line) \in Seq(TextKinds)  BY <1>0, <2>1, <4>2, ReadFacts
        <5>6. AtTail(tokens, k, TextOf(h))  BY <3>1, <4>1, <4>3, <5>4
        <5>7. Finished(tokens', k)
          BY <1>0, <1>3, <2>0, <5>2, <5>4, <5>5, <5>6, RunEnds DEF h
        <5> QED  BY <5>7
      <4> QED  BY <1>0, <4>4, <4>5
    <3>8. CASE EndOfSource
      <4>1. /\ bracket_depth = 0 /\ ~at_line_start /\ tokens' = Joined(tokens, EofTokens)
            /\ line = Len(Lines) /\ line' = line /\ ~AtEnd /\ col > Len(Here.text) /\ Exhausted
        <5>1. lexed' = "yes" /\ bracket_depth' = bracket_depth  BY <3>8 DEF EndOfSource
        <5>2. bracket_depth = 0 /\ ~at_line_start  BY <3>1, <5>1
        <5>3. tokens' = Joined(tokens, EofTokens) /\ line' = line  BY <3>8 DEF EndOfSource, Joined
        <5>4. ~AtEnd /\ line <= Len(Lines)  BY <1>0, <3>2, <5>2 DEF Place, AtEnd, Lines
        <5>5. Exhausted  BY <3>8 DEF EndOfSource
        <5>6. col > Len(Here.text) /\ ~LineBreak  BY <5>4, <5>5 DEF Exhausted
        <5>7. line = Len(Lines)  BY <1>0, <3>2, <5>4, <5>6 DEF LineBreak, Lines
        <5> QED  BY <5>2, <5>3, <5>4, <5>5, <5>6, <5>7
      <4>2. /\ line \in 1..Len(Lines) /\ h <= line /\ Here = Lines[line]
            /\ col = Len(Lines[line].text) + 1
        <5>1. line \in 1..Len(Lines) /\ h <= line /\ Here = Lines[line] /\ Len(Here.text) \in Nat
          BY <1>0, <3>2, <4>1, StartFacts DEF Reached
        <5>2. col <= Len(Lines[line].text) + 1  BY <1>0, <4>1 DEF Place
        <5> QED  BY <1>0, <4>1, <5>1, <5>2
      <4>a. \A j \in Logicals : j <= line => j <= h  BY <3>2, <4>1 DEF Reached
      <4>3. ReadAt(h, line, col, FALSE) = TextFrom(h, line)  BY <1>0, <2>1, <4>2, ReadFacts
      <4>4. TextFrom(h, line) = TextOf(h)  BY <1>0, <2>1, <4>1, <4>2, <4>a, LineDone
      <4>5. TextFrom(h, line) \in Seq(TextKinds)  BY <1>0, <2>1, <4>2, ReadFacts
      <4>6. AtTail(tokens, k, TextOf(h))
        <5>1. at_line_start = FALSE  BY <1>0, <4>1
        <5> QED  BY <3>1, <4>3, <4>4, <5>1
      <4>7. EndsInText(tokens)  BY <1>0, <4>1, LineRead
      <4>8. NeedsNewline
        <5>1. N > 0 /\ tokens[N].kind \notin LayoutKinds /\ Last(tokens) = tokens[N]
          BY <1>0, <4>7 DEF EndsInText, IsText, Last
        <5> QED  BY <1>0, <5>1 DEF NeedsNewline
      <4>9. Len(tokens') > N /\ tokens'[N + 1].kind = "newline"
        <5>1. EofTokens[1].kind = "newline"  BY <1>0, <4>1, <4>8, EofShape
        <5>2. EofTokens \in Seq(Tokens) /\ Len(EofTokens) >= 1  BY <1>0, EofTokensAre
        <5>3. /\ Len(tokens') = N + Len(EofTokens)
              /\ \A i \in (N + 1)..Len(tokens') : tokens'[i] = EofTokens[i - N]
          BY <1>0, <4>1, <5>2, TokensAdded
        <5>4. Len(EofTokens) \in Nat  BY <5>2
        <5>5. N + 1 \in (N + 1)..Len(tokens') /\ (N + 1) - N = 1 /\ Len(tokens') > N
          BY <1>0, <5>2, <5>3, <5>4
        <5> QED  BY <5>1, <5>3, <5>5
      <4>10. Finished(tokens', k)
        BY <1>0, <1>3, <2>0, <4>4, <4>5, <4>6, <4>9, RunEnds DEF h
      <4> QED  BY <4>10
    <3>9. ~MixedLine /\ ~Deeper /\ ~Shallower /\ ~SameLevel
      <4>1. ~MixedLine  BY DEF MixedLine, Fail
      <4>2. ~(at_line_start /\ bracket_depth = 0)  BY <1>0, <3>1
      <4>3. ~LogicalStart  BY <4>2 DEF LogicalStart, AtLineStart
      <4> QED  BY <4>1, <4>3 DEF Deeper, Shallower, SameLevel
    <3> QED  BY <3>4, <3>5, <3>6, <3>7, <3>8, <3>9 DEF LexNext
  <2>4. Finished(tokens, k) \/ Unfinished(tokens, k)  BY <1>2, <1>4 DEF TextRule
  <2> QED  BY <2>2, <2>3, <2>4
<1>5. ASSUME k \notin Starts(tokens) PROVE Goal
  <2>1. Scan  BY <1>3, <1>5
  <2>2. k = N + 1 /\ ~EndsInText(tokens)
    <3>1. Starts(tokens') = Starts(tokens) \cup (IF EndsInText(tokens) THEN {} ELSE {N + 1})
      BY <1>0, <2>1, ScanAdds
    <3> QED  BY <1>5, <3>1
  <2>3. col = 1 /\ bracket_depth = 0  BY <2>2 DEF TailRule, LayInv
  <2>4. /\ line' = line /\ col' = col + 1 /\ at_line_start = FALSE /\ at_line_start' = FALSE /\ ~AtEnd
        /\ lexed' = "no" /\ col <= Len(Here.text) /\ Len(tokens') = N + 1 /\ Here.text # <<>>
        /\ tokens'[N + 1].kind = Here.text[col] /\ tokens'[N + 1].line = line
    <3>1. Token(Here.text[col]).kind = Here.text[col] /\ Token(Here.text[col]).line = line
      BY DEF Token
    <3> QED  BY <1>0, <2>1, <3>1, ScanAdds
  <2>5. line \in 1..Len(Lines) /\ Here = Lines[line] /\ 1 \in 1..Len(Lines[line].text)
        /\ Lines[line].text \in Seq(TextKinds)
    BY <1>0, <2>3, <2>4, StartFacts
  <2>6. line \in Logicals
    <3>1. Level(Lines[line].text, 0) = 0  BY <2>5, LevelNone
    <3>2. DepthBefore(line) \in Int  BY <1>0, <2>5, DepthStep
    <3>3. col - 1 = 0 /\ 1..(col - 1) = {}  BY <2>3
    <3>4. bracket_depth = DepthBefore(line) + Level(Lines[line].text, col - 1)
      BY <1>0, <1>2, <2>4, <3>3 DEF DepthRight
    <3>5. DepthBefore(line) = 0  BY <2>3, <3>1, <3>2, <3>3, <3>4
    <3> QED  BY <1>0, <2>4, <2>5, <3>5, LineFacts DEF Logicals
  <2>7. LastUpTo(line, Reached')
    <3>1. Reached' = line  BY <2>4 DEF Reached
    <3> QED  BY <1>0, <2>6, <3>1 DEF LastUpTo
  <2>8. ReadAt(line, line, 1, FALSE) = <<>>
        /\ ReadAt(line, line, 1 + 1, FALSE) = Append(ReadAt(line, line, 1, FALSE), Lines[line].text[1])
    <3>1. line <= line /\ line = line  BY <1>0
    <3>2. /\ ReadAt(line, line, 1, FALSE) = TextFrom(line, line - 1) /\ TextFrom(line, line - 1) = <<>>
      BY <1>0, <2>5, <2>6, <3>1, ReadFacts
    <3>3. \A c \in 1..Len(Lines[line].text) :
             ReadAt(line, line, c + 1, FALSE) = Append(ReadAt(line, line, c, FALSE), Lines[line].text[c])
      BY <1>0, <2>5, <2>6, <3>1, ReadFacts
    <3> QED  BY <2>5, <3>2, <3>3
  <2>9. Lines[line].text[1] \in TextKinds  BY <2>5
  <2>10. AtTail(tokens, N + 1, <<>>)  BY <1>0 DEF AtTail, RunIs
  <2>11. N + 1 \in 1..(N + 1) /\ <<>> \in Seq(TextKinds)  BY <1>0
  <2>12. AtTail(tokens', N + 1, Append(<<>>, Lines[line].text[1]))
    BY <1>0, <1>3, <2>3, <2>4, <2>5, <2>9, <2>10, <2>11, RunGrows
  <2>13. ReadAt(line, line', col', FALSE) = Append(<<>>, Lines[line].text[1])
    <3>1. line' = line /\ col' = 1 + 1  BY <2>3, <2>4
    <3> QED  BY <2>8, <3>1
  <2> QED  BY <2>2, <2>4, <2>7, <2>12, <2>13
<1> QED  BY <1>4, <1>5

-------------------------------------------------------------------------------
(* Lines that stand under the same line are equally wide, and the outermost  *)
(* ones are not indented.                                                    *)
WidthsTo(r) ==
    \A i, j \in Logicals : i <= r /\ j <= r /\ Up(i) = Up(j) =>
        WidthOf(i) = WidthOf(j) /\ (Up(i) = 0 => WidthOf(i) = 0)
WidthRule == lexed \in {"no", "yes"} /\ ~Surplus => WidthsTo(Reached)

(* One character indents all lines looked at.                                *)
CharsTo(r, c) ==
    /\ \A i \in 1..Len(Lines) : i <= r => Range(Lines[i].lead) \subseteq {c}
    /\ c = "none" \/ \E i \in 1..Len(Lines) : i <= r /\ Lines[i].lead # <<>> /\ Lines[i].lead[1] = c
CharRule == lexed \in {"no", "yes"} => CharsTo(Reached, indent_char)
EndRule == lexed = "yes" => Len(Lines) <= Reached

(* A step looks at the line it is at the start of, or at none.               *)
LEMMA StepLooks ==
    ASSUME LexInv, Place, TailRule, lexed = "no", LexNext, lexed' \in {"no", "yes"}
    PROVE  \/ Reached' = Reached /\ indent_char' = indent_char
           \/ /\ at_line_start /\ ~AtEnd /\ ~Mixed /\ SetChar /\ lexed' = "no"
              /\ Reached = line - 1 /\ Reached' = line
<1>0. line \in Nat  BY DEF LexInv, LexTypeOK
<1>1. CASE BlankLine
  <2>1. /\ at_line_start /\ ~AtEnd /\ ~Mixed /\ SetChar /\ line' = line + 1 /\ at_line_start'
        /\ lexed' = lexed
    BY <1>1 DEF BlankLine, AtLineStart
  <2> QED  BY <1>0, <2>1 DEF Reached
<1>2. CASE Continued \/ LogicalStart
  <2>1. /\ at_line_start /\ ~AtEnd /\ ~Mixed /\ SetChar /\ line' = line /\ at_line_start' = FALSE
    BY <1>2 DEF Continued, LogicalStart, AtLineStart
  <2>2. lexed' = "no"
    <3>1. lexed' # "yes"
      <4>1. ~(~at_line_start /\ col > Len(Here.text) /\ ~LineBreak) /\ ~AtEnd  BY <2>1
      <4>2. ~EndOfSource  BY <4>1 DEF EndOfSource, Exhausted
      <4>3. Continued => lexed' = lexed  BY DEF Continued
      <4>4. ~BlankLine /\ ~Scan /\ ~Newline  
        <5>1. at_line_start' = FALSE /\ at_line_start /\ Here.text # <<>>
          BY <1>2, <2>1 DEF Continued, LogicalStart
        <5> QED  BY <5>1 DEF BlankLine, Scan, Newline, InLine
      <4>5. Deeper \/ Shallower \/ SameLevel => lexed' # "yes"
        BY DEF Deeper, Shallower, SameLevel, Fail
      <4> QED  BY <4>2, <4>3, <4>4, <4>5 DEF LexNext, MixedLine, Fail
    <3> QED  BY <3>1
  <2> QED  BY <1>0, <2>1, <2>2 DEF Reached
<1>3. CASE Scan \/ EndOfSource
  <2>1. line' = line /\ at_line_start' = at_line_start /\ indent_char' = indent_char
    BY <1>3 DEF Scan, EndOfSource
  <2> QED  BY <2>1 DEF Reached
<1>4. CASE Newline
  <2>1. line' = line + 1 /\ at_line_start' = TRUE /\ ~at_line_start /\ indent_char' = indent_char
    BY <1>4 DEF Newline, InLine
  <2> QED  BY <1>0, <2>1 DEF Reached
<1>5. ~MixedLine  BY DEF MixedLine, Fail
<1> QED  BY <1>1, <1>2, <1>3, <1>4, <1>5 DEF LexNext, Deeper, Shallower, SameLevel

LEMMA LeadFacts ==
    ASSUME source \in Sources
    PROVE  \A i \in 1..Len(Lines) :
             /\ DOMAIN Lines[i].lead = 1..Len(Lines[i].lead)
             /\ Range(Lines[i].lead) \subseteq {" ", "tab"}
             /\ Lines[i].lead = <<>> <=> Range(Lines[i].lead) = {}
             /\ Lines[i].lead # <<>> => Lines[i].lead[1] \in Range(Lines[i].lead)
<1> DEFINE C == {" ", "tab"}
           R == [lead : Seq(C), text : Seq(TextKinds)]
<1>0. Lines \in Seq(R)  BY SourcesAssumption DEF Lines
<1> HIDE DEF R
<1>1. ASSUME NEW i \in 1..Len(Lines) PROVE Lines[i].lead \in Seq(C)
  <2>1. Lines[i] \in R  BY <1>0
  <2> HIDE DEF C
  <2> QED  BY <2>1 DEF R
<1> HIDE DEF C
<1>2. ASSUME NEW s \in Seq(C)
      PROVE  /\ DOMAIN s = 1..Len(s) /\ Range(s) \subseteq C
             /\ s = <<>> <=> Range(s) = {}
             /\ s # <<>> => s[1] \in Range(s)
  <2>1. DOMAIN s = 1..Len(s) /\ Len(s) \in Nat /\ \A n \in 1..Len(s) : s[n] \in C  BY <1>2
  <2>2. s # <<>> => 1 \in 1..Len(s)  BY <1>2
  <2>3. s = <<>> => DOMAIN s = {}  OBVIOUS
  <2>4. Range(s) = {s[n] : n \in DOMAIN s}  BY DEF Range
  <2>5. Range(s) \subseteq C  BY <2>1, <2>4
  <2>6. s = <<>> => Range(s) = {}  BY <2>3, <2>4
  <2>7. s # <<>> => s[1] \in Range(s)  BY <2>1, <2>2, <2>4
  <2> QED  BY <2>1, <2>5, <2>6, <2>7
<1>3. ASSUME NEW i \in 1..Len(Lines)
      PROVE  /\ DOMAIN Lines[i].lead = 1..Len(Lines[i].lead) /\ Range(Lines[i].lead) \subseteq C
             /\ Lines[i].lead = <<>> <=> Range(Lines[i].lead) = {}
             /\ Lines[i].lead # <<>> => Lines[i].lead[1] \in Range(Lines[i].lead)
  BY <1>1, <1>2
<1> QED  BY <1>3 DEF C

LEMMA StepKeepsChars ==
    ASSUME LexInv, Place, TailRule, lexed = "no", CharRule, LexNext, lexed' \in {"no", "yes"}
    PROVE  CharRule'
<1>0. /\ line \in Nat /\ source \in Sources /\ source' = source /\ Len(Lines) \in Nat
      /\ Lines' = Lines
  <2>1. source' = source
    BY DEF LexNext, MixedLine, BlankLine, Continued, Deeper, Shallower, SameLevel, LogicalStart,
           Scan, Newline, EndOfSource
  <2> QED  BY <2>1, LineFacts, LinesStay DEF LexInv, LexTypeOK
<1>1. CharsTo(Reached, indent_char)  BY DEF CharRule
<1>p. CharsTo(Reached', indent_char') => CharRule'  BY <1>0 DEF CharRule, CharsTo
<1>2. CASE Reached' = Reached /\ indent_char' = indent_char  BY <1>1, <1>2, <1>p
<1>3. CASE /\ at_line_start /\ ~AtEnd /\ ~Mixed /\ SetChar /\ lexed' = "no"
           /\ Reached = line - 1 /\ Reached' = line
  <2> DEFINE s == Lines[line].lead
             c == IF s = <<>> THEN "none" ELSE s[1]
             d == indent_char'
  <2>a. line \in 1..Len(Lines) /\ Here = Lines[line]  BY <1>3, StartFacts
  <2>b. DOMAIN s = 1..Len(s)  BY <1>0, <2>a, LeadFacts
  <2>0. line \in 1..Len(Lines) /\ Here = Lines[line] /\ DOMAIN s = 1..Len(s)  BY <2>a, <2>b
  <2>1. /\ \A n \in DOMAIN s : s[n] = c
        /\ c # "none" /\ indent_char # "none" => indent_char = c
        /\ d = IF indent_char = "none" THEN c ELSE indent_char
    BY <1>3, <2>0 DEF Mixed, SetChar, CharHere
  <2>2. /\ Range(s) \subseteq {" ", "tab"} /\ (s = <<>> <=> Range(s) = {})
        /\ (s # <<>> => s[1] \in Range(s))
    BY <1>0, <2>0, LeadFacts
  <2>3. Range(s) \subseteq {c}  BY <2>0, <2>1 DEF Range
  <2>4. Range(s) \subseteq {d}
    <3>1. CASE s = <<>>  BY <2>2, <3>1
    <3>2. CASE s # <<>>
      <4>1. c = s[1] /\ s[1] \in {" ", "tab"}  BY <2>2, <3>2
      <4>2. d = c  BY <2>1, <4>1
      <4> QED  BY <2>3, <4>2
    <3> QED  BY <3>1, <3>2
  <2> HIDE DEF s, c, d
  <2>5. ASSUME NEW i \in 1..Len(Lines), i <= line PROVE Range(Lines[i].lead) \subseteq {d}
    <3>1. CASE i = line  BY <2>4, <3>1 DEF s
    <3>2. CASE i # line
      <4>1. i <= line - 1  BY <1>0, <2>5, <3>2
      <4>2. Range(Lines[i].lead) \subseteq {indent_char}  BY <1>1, <1>3, <4>1 DEF CharsTo
      <4>3. CASE indent_char # "none"  BY <2>1, <4>2, <4>3
      <4>4. CASE indent_char = "none"
        <5>1. Range(Lines[i].lead) \subseteq {" ", "tab"}  BY <1>0, LeadFacts
        <5>2. Range(Lines[i].lead) = {}  BY <4>2, <4>4, <5>1
        <5> QED  BY <5>2
      <4> QED  BY <4>3, <4>4
    <3> QED  BY <3>1, <3>2
  <2>6. d = "none" \/ \E i \in 1..Len(Lines) : i <= line /\ Lines[i].lead # <<>> /\ Lines[i].lead[1] = d
    <3>1. CASE indent_char # "none"
      <4>1. PICK i \in 1..Len(Lines) : i <= line - 1 /\ Lines[i].lead # <<>> /\ Lines[i].lead[1] = indent_char
        BY <1>1, <1>3, <3>1 DEF CharsTo
      <4>2. i <= line  BY <1>0, <4>1
      <4> QED  BY <2>1, <3>1, <4>1, <4>2
    <3>2. CASE indent_char = "none"
      <4>1. d = c  BY <2>1, <3>2
      <4>2. line <= line  BY <1>0
      <4> QED  BY <2>0, <4>1, <4>2 DEF c, s
    <3> QED  BY <3>1, <3>2
  <2>7. CharsTo(line, d)  BY <2>5, <2>6 DEF CharsTo
  <2> QED  BY <1>3, <1>p, <2>7 DEF d
<1> QED  BY <1>2, <1>3, StepLooks

LEMMA StepKeepsEnd ==
    ASSUME LexInv, Balance, Place, TailRule, lexed = "no", LexNext, lexed' \in {"no", "yes"}
    PROVE  EndRule'
<1> SUFFICES ASSUME lexed' = "yes" PROVE Len(Lines)' <= Reached'
  BY DEF EndRule
<1>1. EndOfSource /\ source' = source  BY StepAdds
<1>2. line' = line /\ at_line_start' = at_line_start /\ Exhausted /\ Lines' = Lines
  BY <1>1, LinesStay DEF EndOfSource
<1>3. line \in Nat /\ Len(Lines) \in Nat /\ at_line_start \in BOOLEAN
  BY LineFacts DEF LexInv, LexTypeOK
<1>4. CASE at_line_start
  <2>1. line > Len(Lines)  BY <1>2, <1>4 DEF Exhausted, AtEnd, Lines
  <2>2. Reached' = line - 1  BY <1>2, <1>4 DEF Reached
  <2> QED  BY <1>2, <1>3, <2>1, <2>2
<1>5. CASE ~at_line_start
  <2>1. line >= Len(Lines)  BY <1>2, <1>3, <1>5 DEF Exhausted, AtEnd, LineBreak, Lines
  <2>2. Reached' = line  BY <1>2, <1>5 DEF Reached
  <2> QED  BY <1>2, <1>3, <2>1, <2>2
<1> QED  BY <1>4, <1>5

-------------------------------------------------------------------------------
(* Each width on the stack is that of a line the newest one stands under, or *)
(* its own.                                                                  *)
LEMMA StackOf ==
    ASSUME LexInv, Balance, NEW h \in Logicals, NestsAt(h)
    PROVE  /\ \A p \in 1..Len(indent_stack) : \E a \in Anc(h) \cup {h} : WidthOf(a) = indent_stack[p]
           /\ \A a \in Anc(h) \cup {h} : \E p \in 1..Len(indent_stack) : WidthOf(a) = indent_stack[p]
<1> DEFINE n == Len(indent_stack)
<1>1. /\ n \in Nat /\ n >= 1 /\ Last(indent_stack) = indent_stack[n] /\ tokens \in Seq(Tokens)
      /\ DOMAIN tokens = 1..Len(tokens) /\ Len(tokens) \in Nat
      /\ \A m \in 0..Len(tokens) : Height(tokens, m) >= 0
      /\ Height(tokens, Len(tokens)) = n - 1
  BY TokenFacts DEF Balance, Balanced, LexInv, LexTypeOK, Last
<1>2. /\ WidthOf(h) = indent_stack[n]
      /\ {Behind(k) : k \in OpenIn(tokens)} = Anc(h)
      /\ \A k \in OpenIn(tokens) :
           /\ Height(tokens, k) \in 1..(n - 1) /\ WidthOf(Behind(k)) = indent_stack[Height(tokens, k)]
  BY <1>1 DEF NestsAt
<1>3. Opened(tokens, Len(tokens)) = OpenIn(tokens)  BY <1>1 DEF Opened, OpenIn
<1>4. ASSUME NEW p \in 1..n PROVE \E a \in Anc(h) \cup {h} : WidthOf(a) = indent_stack[p]
  <2>1. CASE p = n  BY <1>2, <2>1
  <2>2. CASE p # n
    <3>1. p \in 1..(n - 1) /\ Len(tokens) \in 0..Len(tokens)  BY <1>1, <2>2
    <3>2. PICK k \in OpenIn(tokens) : Height(tokens, k) = p  BY <1>1, <1>3, <3>1, EachHeight
    <3>3. WidthOf(Behind(k)) = indent_stack[p] /\ Behind(k) \in Anc(h)  BY <1>2, <3>2
    <3> QED  BY <3>3
  <2> QED  BY <2>1, <2>2
<1>5. ASSUME NEW a \in Anc(h) \cup {h} PROVE \E p \in 1..n : WidthOf(a) = indent_stack[p]
  <2>1. CASE a = h
    <3>1. n \in 1..n  BY <1>1
    <3> QED  BY <1>2, <2>1, <3>1
  <2>2. CASE a \in Anc(h)
    <3>1. PICK k \in OpenIn(tokens) : a = Behind(k)  BY <1>2, <2>2
    <3>2. Height(tokens, k) \in 1..n  BY <1>1, <1>2
    <3> QED  BY <1>2, <3>1, <3>2
  <2> QED  BY <2>1, <2>2
<1> QED  BY <1>4, <1>5

(* The lines under which a is indented, among those of a line h below it.    *)
LEMMA Narrower ==
    ASSUME source \in Sources, NEW h \in Logicals, NEW a \in Anc(h) \cup {h}
    PROVE  /\ a \in Logicals /\ a <= h
           /\ Anc(a) = {j \in Anc(h) \cup {h} : WidthOf(j) < WidthOf(a)}
<1>0. \A k \in Logicals : k \in Nat /\ WidthOf(k) \in Nat  BY LineFacts DEF Logicals
<1>1. \A l \in Logicals : \A j \in Anc(l) : j \in Logicals /\ j < l /\ WidthOf(j) < WidthOf(l)
  <2> TAKE l \in Logicals
  <2> TAKE j \in Anc(l)
  <2>1. j \in Logicals /\ j < l  BY AncChain
  <2>2. l \in (j + 1)..l  BY <1>0, <2>1
  <2> QED  BY <2>1, <2>2 DEF Anc
<1>2. a \in Logicals /\ a <= h  BY <1>0, <1>1
<1>3. ASSUME NEW j \in Anc(a) PROVE j \in Anc(h) \cup {h} /\ WidthOf(j) < WidthOf(a)
  <2>1. WidthOf(j) < WidthOf(a)  BY <1>1, <1>2
  <2>2. CASE a = h  BY <2>1, <2>2
  <2>3. CASE a \in Anc(h)  BY <2>1, <2>3, AncChain
  <2> QED  BY <2>2, <2>3
<1>4. ASSUME NEW j \in Anc(h) \cup {h}, WidthOf(j) < WidthOf(a) PROVE j \in Anc(a)
  <2>1. j \in Logicals /\ j # a /\ j <= h  BY <1>0, <1>1, <1>2, <1>4
  <2>2. CASE a = h  BY <1>4, <2>1, <2>2
  <2>3. CASE a \in Anc(h)
    <3>1. CASE j < a
      <4>1. j # h  BY <1>0, <1>1, <2>1, <2>3, <3>1
      <4> QED  BY <2>3, <3>1, <4>1, AncChain
    <3>2. CASE a < j
      <4>1. a \in Anc(j)
        <5>1. CASE j = h  BY <2>3, <5>1
        <5>2. CASE j \in Anc(h)  BY <2>3, <3>2, <5>2, AncChain
        <5> QED  BY <5>1, <5>2
      <4>2. WidthOf(a) < WidthOf(j)  BY <1>1, <2>1, <4>1
      <4> QED  BY <1>0, <1>2, <1>4, <2>1, <4>2
    <3> QED  BY <1>0, <1>2, <2>1, <3>1, <3>2
  <2> QED  BY <2>2, <2>3
<1> QED  BY <1>2, <1>3, <1>4

LEMMA Sibling ==
    ASSUME NEW l, Begins(l), NEW h \in Logicals, NestsAt(h),
           NEW p \in 1..Len(indent_stack), Width = indent_stack[p]
    PROVE  \E a \in Logicals : a <= h /\ WidthOf(a) = WidthOf(l) /\ Anc(a) = Anc(l)
<1>1. LexInv /\ Balance /\ source \in Sources  BY DEF Begins, LexInv
<1>2. PICK a \in Anc(h) \cup {h} : WidthOf(a) = indent_stack[p]  BY <1>1, StackOf
<1>3. WidthOf(l) = WidthOf(a)  BY <1>2, BeginsFacts
<1>4. Anc(l) = {j \in Anc(h) \cup {h} : WidthOf(j) < WidthOf(l)}  BY Previous
<1>5. a \in Logicals /\ a <= h /\ Anc(a) = {j \in Anc(h) \cup {h} : WidthOf(j) < WidthOf(a)}
  BY <1>1, Narrower
<1> QED  BY <1>3, <1>4, <1>5

LEMMA Deepest ==
    ASSUME NEW l, Begins(l), NEW h \in Logicals, NestsAt(h), Width > Last(indent_stack)
    PROVE  Anc(l) = Anc(h) \cup {h} /\ Up(l) = h
<1>1. /\ h < l /\ Anc(l) = {j \in Anc(h) \cup {h} : WidthOf(j) < WidthOf(l)}
      /\ \A j \in Anc(h) : WidthOf(j) < WidthOf(h)
      /\ \A j \in Logicals : j \in Nat /\ WidthOf(j) \in Nat
      /\ Anc(h) \subseteq Logicals
  BY Previous
<1>2. WidthOf(h) = Last(indent_stack) /\ WidthOf(l) = Width /\ Width \in Nat
  BY BeginsFacts DEF NestsAt
<1>3. WidthOf(h) < WidthOf(l) /\ \A j \in Anc(h) : WidthOf(j) < WidthOf(l)
  <2>1. WidthOf(h) < WidthOf(l) /\ WidthOf(h) \in Nat /\ WidthOf(l) \in Nat  BY <1>1, <1>2
  <2> QED  BY <1>1, <2>1
<1>4. Anc(l) = Anc(h) \cup {h}  BY <1>1, <1>3
<1>5. Max({0} \cup Anc(l)) = h
  <2>1. \A j \in Anc(h) : j < h  BY AncChain DEF Begins, LexInv
  <2>2. {0} \cup Anc(l) \in SUBSET Nat /\ h \in {0} \cup Anc(l)
        /\ \A j \in {0} \cup Anc(l) : j <= h
    BY <1>1, <1>4, <2>1
  <2> QED  BY <2>2, MaxIs
<1> QED  BY <1>4, <1>5 DEF Up

LEMMA FirstLine ==
    ASSUME NEW l, Begins(l), Unopened
    PROVE  Anc(l) = {} /\ Up(l) = 0 /\ (\A j \in Logicals : ~(j < l)) /\ Last(indent_stack) = 0
<1>1. \A j \in Logicals : j \in Nat /\ ~(j <= l - 1)
  BY LineFacts DEF Begins, LexInv, Unopened, Reached, Logicals
<1>2. l \in Nat  BY BeginsFacts
<1>3. Anc(l) = {} /\ \A j \in Logicals : ~(j < l)  BY <1>1, <1>2 DEF Anc
<1>4. Max({0}) = 0
  <2>1. {0} \in SUBSET Nat /\ 0 \in {0} /\ \A j \in {0} : j <= 0  OBVIOUS
  <2> QED  BY <2>1, MaxIs
<1>5. {0} \cup {} = {0}  OBVIOUS
<1>6. Last(indent_stack) = 0  BY DEF Unopened, Last
<1> QED  BY <1>3, <1>4, <1>5, <1>6 DEF Up

LEMMA StepKeepsWidths ==
    ASSUME NestInv, NestInv', TailRule, WidthRule, lexed = "no", LexNext,
           lexed' \in {"no", "yes"}, ~Surplus'
    PROVE  WidthsTo(Reached')
<1>0. /\ LexInv /\ LexInv' /\ Place /\ DepthRight /\ Balance /\ Nests /\ source' = source
      /\ line \in Nat /\ source \in Sources
  BY StepAdds DEF NestInv, LexInv, LexTypeOK
<1>1. line' \in {line, line + 1}
  <2>1. CASE Scan  BY <1>0, <2>1, ScanAdds
  <2>2. CASE ~Scan  BY <1>0, <2>2, StepPlaces
  <2> QED  BY <2>1, <2>2
<1>2. ~Surplus  BY <1>0, <1>1, SurplusOnly
<1>3. WidthsTo(Reached)  BY <1>2 DEF WidthRule
<1>4. CASE Reached' = Reached  BY <1>3, <1>4
<1>5. CASE /\ at_line_start /\ ~AtEnd /\ ~Mixed /\ SetChar /\ lexed' = "no"
           /\ Reached = line - 1 /\ Reached' = line
  <2>0. \A j \in Logicals : j \in Nat /\ WidthOf(j) \in Nat  BY <1>0, LineFacts DEF Logicals
  <2>a. \A j \in Logicals : j <= line /\ j # line => j <= line - 1  BY <1>0, <2>0
  <2>b. \A i, j \in Logicals : i <= line - 1 /\ j <= line - 1 /\ Up(i) = Up(j) =>
          WidthOf(i) = WidthOf(j) /\ (Up(i) = 0 => WidthOf(i) = 0)
    BY <1>3, <1>5 DEF WidthsTo
  <2>1. CASE line \notin Logicals  BY <1>5, <2>a, <2>b, <2>1 DEF WidthsTo
  <2>2. CASE line \in Logicals
    <3>1. Begins(line) /\ Here.text # <<>> /\ bracket_depth = 0
      BY <1>0, <1>2, <1>5, <2>2, LogicalHere DEF Begins
    <3>2. Deeper \/ Shallower \/ SameLevel
      <4>1. ~MixedLine /\ ~BlankLine /\ ~Scan /\ ~Newline
        BY <1>5, <3>1 DEF MixedLine, BlankLine, Scan, InLine, Newline
      <4>2. ~Continued  BY <3>1 DEF Continued
      <4>3. ~EndOfSource  BY <1>5 DEF EndOfSource, Exhausted
      <4> QED  BY <4>1, <4>2, <4>3 DEF LexNext
    <3>3. /\ Width \in Nat /\ WidthOf(line) = Width /\ Len(indent_stack) \in Nat /\ Len(indent_stack) >= 1
          /\ Last(indent_stack) = indent_stack[Len(indent_stack)]
      BY <3>1, BeginsFacts
    <3>4. /\ Up(line) = 0 => WidthOf(line) = 0
          /\ \A j \in Logicals : j <= line - 1 /\ Up(j) = Up(line) => WidthOf(j) = WidthOf(line)
      <4>1. CASE Unopened
        <5>1. Up(line) = 0 /\ (\A j \in Logicals : ~(j < line)) /\ Last(indent_stack) = 0
          BY <3>1, <4>1, FirstLine
        <5>2. Width = 0
          <6>1. ~after_colon /\ Len(indent_stack) = 1  BY <4>1 DEF Unopened
          <6>2. ~Deeper  BY <6>1 DEF Deeper, Fail
          <6>3. ~Shallower  BY <6>1 DEF Shallower
          <6> QED  BY <3>2, <5>1, <6>2, <6>3 DEF SameLevel
        <5> QED  BY <1>0, <2>0, <3>3, <5>1, <5>2
      <4>2. ASSUME NEW h \in Logicals, NestsAt(h)
            PROVE  /\ Up(line) = 0 => WidthOf(line) = 0
                   /\ \A j \in Logicals : j <= line - 1 /\ Up(j) = Up(line) => WidthOf(j) = WidthOf(line)
        <5>1. h < line /\ \A j \in Logicals : j < line => j <= h  BY <3>1, <4>2, Previous
        <5>2. ASSUME NEW p \in 1..Len(indent_stack), Width = indent_stack[p]
              PROVE  /\ Up(line) = 0 => WidthOf(line) = 0
                     /\ \A j \in Logicals : j <= line - 1 /\ Up(j) = Up(line) => WidthOf(j) = WidthOf(line)
          <6>1. PICK a \in Logicals : a <= h /\ WidthOf(a) = WidthOf(line) /\ Anc(a) = Anc(line)
            BY <3>1, <4>2, <5>2, Sibling
          <6>2. Up(a) = Up(line)  BY <6>1 DEF Up
          <6>3. a <= line - 1  BY <1>0, <2>0, <5>1, <6>1
          <6> QED  BY <2>b, <6>1, <6>2, <6>3
        <5>3. CASE Deeper
          <6>1. Width > Last(indent_stack)  BY <5>3 DEF Deeper
          <6>2. Up(line) = h  BY <3>1, <4>2, <6>1, Deepest
          <6>3. h > 0  BY <1>0, LogicalFacts
          <6>4. ASSUME NEW j \in Logicals, j <= line - 1, Up(j) = h PROVE FALSE
            <7>1. j <= h  BY <1>0, <2>0, <5>1, <6>4
            <7>2. h < j  BY <1>0, <6>4, UpFacts
            <7> QED  BY <2>0, <7>1, <7>2
          <6> QED  BY <2>0, <6>2, <6>3, <6>4
        <5>4. CASE SameLevel
          <6>1. Width = indent_stack[Len(indent_stack)]  BY <3>3, <5>4 DEF SameLevel
          <6>2. Len(indent_stack) \in 1..Len(indent_stack)  BY <3>3
          <6> QED  BY <5>2, <6>1, <6>2
        <5>5. CASE Shallower
          <6>1. PICK p \in 1..(Len(indent_stack) - 1) :
                  IF indent_stack[p] = Width THEN UNCHANGED lexed ELSE Fail("InconsistentDedent")
            BY <5>5 DEF Shallower
          <6>2. indent_stack[p] = Width  BY <6>1 DEF Fail
          <6>3. p \in 1..Len(indent_stack)  BY <3>3
          <6> QED  BY <5>2, <6>2, <6>3
        <5> QED  BY <3>2, <5>3, <5>4, <5>5
      <4> QED  BY <1>0, <1>2, <4>1, <4>2 DEF Nests
    <3>5. ASSUME NEW i \in Logicals, NEW j \in Logicals, i <= line, j <= line, Up(i) = Up(j)
          PROVE  WidthOf(i) = WidthOf(j) /\ (Up(i) = 0 => WidthOf(i) = 0)
      <4>1. CASE i = line /\ j = line  BY <3>4, <4>1
      <4>2. CASE i = line /\ j # line  BY <2>a, <3>4, <3>5, <4>2
      <4>3. CASE i # line /\ j = line  BY <2>a, <3>4, <3>5, <4>3
      <4>4. CASE i # line /\ j # line  BY <2>a, <2>b, <3>5, <4>4
      <4> QED  BY <4>1, <4>2, <4>3, <4>4
    <3> QED  BY <1>5, <3>5 DEF WidthsTo
  <2> QED  BY <2>1, <2>2
<1> QED  BY <1>0, <1>4, <1>5, StepLooks

-------------------------------------------------------------------------------
(* The text of a logical line begins with that of each run of its lines.     *)
StartsWith(t, s) == Len(s) <= Len(t) /\ \A n \in 1..Len(s) : t[n] = s[n]

LEMMA JoinStarts ==
    ASSUME NEW S, NEW s \in Seq(S), NEW t \in Seq(S)
    PROVE  /\ Joined(s, t) \in Seq(S) /\ Len(Joined(s, t)) = Len(s) + Len(t)
           /\ StartsWith(Joined(s, t), s)
           /\ \A n \in 1..Len(t) : Joined(s, t)[Len(s) + n] = t[n]
BY DEF Joined, StartsWith

LEMMA TextStarts ==
    ASSUME source \in Sources, NEW i \in 1..Len(Lines), NEW j \in (i - 1)..Len(Lines),
           NEW m \in j..Len(Lines)
    PROVE  StartsWith(TextFrom(i, m), TextFrom(i, j))
<1>0. Len(Lines) \in Nat /\ i \in Nat /\ j \in Int /\ j >= 0 /\ j >= i - 1 /\ m \in Nat
  BY LineFacts
<1> DEFINE T == {d \in Nat : j + d <= m => StartsWith(TextFrom(i, j + d), TextFrom(i, j))}
<1>1. 0 \in T
  <2>1. j + 0 = j  BY <1>0
  <2>2. TextFrom(i, j) \in Seq(TextKinds)  BY TextFromStep
  <2>3. Len(TextFrom(i, j)) \in Nat  BY <2>2
  <2> QED  BY <2>1, <2>3 DEF StartsWith
<1>2. ASSUME NEW d \in Nat, d \in T PROVE d + 1 \in T
  <2> SUFFICES ASSUME j + (d + 1) <= m PROVE StartsWith(TextFrom(i, j + (d + 1)), TextFrom(i, j))
    OBVIOUS
  <2> DEFINE y == j + d
  <2>a. j + (d + 1) <= m /\ m <= Len(Lines)  OBVIOUS
  <2>1. y \in (i - 1)..Len(Lines) /\ y < Len(Lines) /\ y <= m /\ j + (d + 1) = y + 1
        /\ y + 1 \in 1..Len(Lines)
    BY <1>0, <2>a
  <2>2. StartsWith(TextFrom(i, y), TextFrom(i, j))  BY <1>2, <2>1
  <2> HIDE DEF y
  <2>3. TextFrom(i, y) \in Seq(TextKinds)
        /\ TextFrom(i, y + 1) = Joined(TextFrom(i, y), Lines[y + 1].text)
    BY <2>1, TextFromStep
  <2>4. Lines[y + 1].text \in Seq(TextKinds)  BY <2>1, LineFacts
  <2>5. StartsWith(TextFrom(i, y + 1), TextFrom(i, y))
    <3> DEFINE u == TextFrom(i, y)
               v == Lines[y + 1].text
    <3>1. u \in Seq(TextKinds) /\ v \in Seq(TextKinds)  BY <2>3, <2>4
    <3> HIDE DEF u, v
    <3>2. StartsWith(Joined(u, v), u)  BY <3>1, JoinStarts
    <3> QED  BY <2>3, <3>2 DEF u, v
  <2>6. TextFrom(i, j) \in Seq(TextKinds)  BY TextFromStep
  <2>7. Len(TextFrom(i, j)) \in Nat /\ Len(TextFrom(i, y)) \in Nat
        /\ Len(TextFrom(i, y + 1)) \in Nat
    <3>1. TextFrom(i, y + 1) \in Seq(TextKinds)  BY <2>3, <2>4, JoinStarts
    <3> QED  BY <2>3, <2>6, <3>1
  <2>8. StartsWith(TextFrom(i, y + 1), TextFrom(i, j))
    BY <2>2, <2>5, <2>7 DEF StartsWith
  <2> QED  BY <2>1, <2>8
<1> HIDE DEF T
<1>3. m - j \in Nat /\ j + (m - j) = m  BY <1>0
<1>4. m - j \in T  BY <1>1, <1>2, <1>3, NatInduct
<1> QED  BY <1>0, <1>3, <1>4 DEF T

LEMMA TextFacts ==
    ASSUME source \in Sources, NEW l \in Logicals
    PROVE  /\ TextOf(l) \in Seq(TextKinds) /\ Len(TextOf(l)) \in Nat /\ Len(TextOf(l)) >= 1
           /\ TextOf(l)[1] = Lines[l].text[1]
           /\ \A n \in 1..Len(TextOf(l)) : TextOf(l)[n] \in TextKinds
           /\ \A j \in l..EndOf(l) : StartsWith(TextOf(l), TextFrom(l, j))
           /\ StartsWith(TextOf(l), TextFrom(l, l - 1))
<1>1. /\ EndOf(l) \in Nat /\ l <= EndOf(l) /\ EndOf(l) <= Len(Lines)
      /\ TextOf(l) = TextFrom(l, EndOf(l))
  BY EndFacts
<1>2. Len(Lines) \in Nat /\ l \in 1..Len(Lines) /\ Lines[l].text # <<>>
      /\ Lines[l].text \in Seq(TextKinds)
  BY LineFacts DEF Logicals
<1> DEFINE m == EndOf(l)
<1>3. m \in (l - 1)..Len(Lines) /\ m \in l..Len(Lines) /\ m \in (l - 1)..Len(Lines)
  BY <1>1, <1>2
<1> HIDE DEF m
<1>4. TextFrom(l, m) \in Seq(TextKinds)  BY <1>2, <1>3, TextFromStep
<1>5. \A j \in (l - 1)..m : StartsWith(TextFrom(l, m), TextFrom(l, j))
  <2> TAKE j \in (l - 1)..m
  <2>1. j \in (l - 1)..Len(Lines) /\ m \in j..Len(Lines)  BY <1>2, <1>3
  <2> QED  BY <1>2, <2>1, TextStarts
<1>6. TextFrom(l, l) = Lines[l].text
  <2>1. l - 1 \in (l - 1)..Len(Lines) /\ l - 1 < Len(Lines) /\ (l - 1) + 1 = l  BY <1>2
  <2>2. TextFrom(l, l - 1) = <<>> /\ TextFrom(l, l) = Joined(TextFrom(l, l - 1), Lines[l].text)
    BY <1>2, <2>1, TextFromStep
  <2>3. Joined(<<>>, Lines[l].text) = Lines[l].text  BY <1>2, ConcatEmptySeq DEF Joined
  <2> QED  BY <2>2, <2>3
<1>7. StartsWith(TextFrom(l, m), Lines[l].text)
  <2>1. l \in (l - 1)..m  BY <1>2, <1>3
  <2> QED  BY <1>5, <1>6, <2>1
<1>8. Len(TextFrom(l, m)) \in Nat /\ Len(TextFrom(l, m)) >= 1 /\ TextFrom(l, m)[1] = Lines[l].text[1]
  <2>1. Len(Lines[l].text) \in Nat /\ Len(Lines[l].text) >= 1  BY <1>2
  <2>2. 1 \in 1..Len(Lines[l].text) /\ Len(TextFrom(l, m)) \in Nat  BY <1>4, <2>1
  <2> QED  BY <1>7, <2>1, <2>2 DEF StartsWith
<1>9. \A j \in l..m : j \in (l - 1)..m  BY <1>2, <1>3
<1>10. l - 1 \in (l - 1)..m  BY <1>2, <1>3
<1>11. \A n \in 1..Len(TextFrom(l, m)) : TextFrom(l, m)[n] \in TextKinds  BY <1>4
<1> QED  BY <1>1, <1>4, <1>5, <1>8, <1>9, <1>10, <1>11 DEF m

-------------------------------------------------------------------------------
(* Brackets in texts.                                                        *)
LEMMA LevelStarts ==
    ASSUME NEW S, NEW s \in Seq(S), NEW t \in Seq(S), StartsWith(t, s), NEW n \in 0..Len(s)
    PROVE  Level(t, n) = Level(s, n)
<1>1. n \in Nat /\ n \in 0..Len(t) /\ Len(s) \in Nat /\ Len(t) \in Nat
      /\ \A m \in 1..n : s[m] = t[m]
  <2>1. Len(s) \in Nat /\ Len(t) \in Nat /\ Len(s) <= Len(t)  BY DEF StartsWith
  <2>2. \A m \in 1..n : m \in 1..Len(s)  BY <2>1
  <2> QED  BY <2>1, <2>2 DEF StartsWith
<1>2. \A kind : Upto(s, n, kind) = Upto(t, n, kind)  BY <1>1, UptoSame
<1>3. \A kind : Count(SubSeq(s, 1, n), kind) = Upto(s, n, kind)  BY CountIsUpto
<1>4. \A kind : Count(SubSeq(t, 1, n), kind) = Upto(t, n, kind)  BY <1>1, CountIsUpto
<1> QED  BY <1>2, <1>3, <1>4 DEF Level

LEMMA LevelShift ==
    ASSUME NEW s \in Seq(TextKinds), NEW n \in Nat, n < Len(s)
    PROVE  Level(s, n) \in Int /\ Level(s, n + 1) = Level(s, n) + Shift(s[n + 1])
<1>1. /\ Level(s, n) \in Int
      /\ Level(s, n + 1) = CASE s[n + 1] = "open"  -> Level(s, n) + 1
                             [] s[n + 1] = "close" -> Level(s, n) - 1
                             [] OTHER              -> Level(s, n)
  BY LevelStep
<1> QED  BY <1>1 DEF Shift

(* The levels of a slice go on from the level before it.                     *)
LEMMA LevelSlice ==
    ASSUME NEW s \in Seq(TextKinds), NEW t \in Seq(TextKinds), NEW a \in Nat, a + Len(s) <= Len(t),
           \A n \in 1..Len(s) : t[a + n] = s[n]
    PROVE  /\ \A n \in 0..Len(s) : Level(t, a + n) = Level(t, a) + Level(s, n) /\ Level(s, n) \in Int
           /\ Level(t, a) \in Int
<1>0. Len(s) \in Nat /\ Len(t) \in Nat /\ a \in Nat /\ a + Len(s) <= Len(t)  OBVIOUS
<1>a. \A n \in 1..Len(s) : t[a + n] = s[n]  OBVIOUS
<1>1. Level(s, 0) = 0  BY LevelNone
<1>2. Level(t, a) \in Int
  <2>1. CASE a < Len(t)  BY <2>1, LevelShift
  <2>2. CASE a = Len(t)
    <3>1. CASE a = 0  BY <3>1, LevelNone
    <3>2. CASE a # 0
      <4>1. a - 1 \in Nat /\ a - 1 < Len(t) /\ (a - 1) + 1 = a  BY <1>0, <2>2, <3>2
      <4>2. Level(t, a - 1) \in Int /\ Level(t, (a - 1) + 1) = Level(t, a - 1) + Shift(t[(a - 1) + 1])
        BY <4>1, LevelShift
      <4>3. Shift(t[(a - 1) + 1]) \in Int  BY DEF Shift
      <4> QED  BY <4>1, <4>2, <4>3
    <3> QED  BY <3>1, <3>2
  <2> QED  BY <1>0, <2>1, <2>2
<1> DEFINE T == {n \in Nat : n <= Len(s) =>
                   Level(t, a + n) = Level(t, a) + Level(s, n) /\ Level(s, n) \in Int}
<1>3. 0 \in T
  <2>1. a + 0 = a  BY <1>0
  <2> QED  BY <1>1, <1>2, <2>1
<1>4. ASSUME NEW n \in Nat, n \in T PROVE n + 1 \in T
  <2> SUFFICES ASSUME n + 1 <= Len(s)
               PROVE  Level(t, a + (n + 1)) = Level(t, a) + Level(s, n + 1) /\ Level(s, n + 1) \in Int
    OBVIOUS
  <2>a. n + 1 <= Len(s)  OBVIOUS
  <2>1. n < Len(s) /\ n <= Len(s) /\ a + n \in Nat /\ a + n < Len(t) /\ a + (n + 1) = (a + n) + 1 /\ n + 1 \in 1..Len(s)
    BY <1>0, <2>a
  <2>2. Level(t, a + n) = Level(t, a) + Level(s, n) /\ Level(s, n) \in Int  BY <1>4, <2>1
  <2>3. Level(s, n + 1) = Level(s, n) + Shift(s[n + 1])  BY <2>1, LevelShift
  <2>4. Level(t, (a + n) + 1) = Level(t, a + n) + Shift(t[(a + n) + 1])  BY <2>1, LevelShift
  <2>5. t[(a + n) + 1] = s[n + 1]  BY <1>a, <2>1
  <2>6. Shift(s[n + 1]) \in Int  BY DEF Shift
  <2> QED  BY SMTT(30), <1>2, <2>1, <2>2, <2>3, <2>4, <2>5, <2>6
<1> HIDE DEF T
<1>5. \A n \in Nat : n \in T  BY <1>3, <1>4, NatInduct
<1>6. \A n \in 0..Len(s) : n \in Nat /\ n <= Len(s)  BY <1>0
<1> QED  BY <1>2, <1>5, <1>6 DEF T

-------------------------------------------------------------------------------
(* A source whose logical lines close their brackets closes none too many.   *)
Even(s) == (\A n \in 1..Len(s) : Level(s, n) >= 0) /\ Level(s, Len(s)) = 0

UnderOne(i) ==
    \/ (\A j \in Logicals : ~(j < i)) /\ DepthBefore(i) = 0
    \/ \E h \in Logicals : /\ h < i /\ \A j \in Logicals : j < i => j <= h
                           /\ DepthBefore(i) = Level(TextFrom(h, i - 1), Len(TextFrom(h, i - 1)))

LEMMA LineAdds ==
    ASSUME source \in Sources, \A l \in Logicals : Even(TextOf(l)),
           NEW i \in 1..Len(Lines), NEW h \in Logicals, h <= i, \A j \in Logicals : j <= i => j <= h,
           DepthBefore(i) = Level(TextFrom(h, i - 1), Len(TextFrom(h, i - 1)))
    PROVE  /\ \A n \in 1..Len(Lines[i].text) : DepthBefore(i) + Level(Lines[i].text, n) >= 0
           /\ DepthBefore(i + 1) = Level(TextFrom(h, i), Len(TextFrom(h, i)))
<1> DEFINE s == TextFrom(h, i - 1)
           t == Lines[i].text
           u == TextFrom(h, i)
           w == TextOf(h)
<1>1. /\ Len(Lines) \in Nat /\ h \in 1..Len(Lines) /\ t \in Seq(TextKinds)
      /\ \A l \in Logicals : l \in Nat
  BY LineFacts DEF Logicals
<1>2. i - 1 \in (h - 1)..Len(Lines) /\ i - 1 < Len(Lines) /\ (i - 1) + 1 = i  BY <1>1
<1>3. s \in Seq(TextKinds) /\ u = Joined(s, t)  BY <1>1, <1>2, TextFromStep
<1>4. i <= EndOf(h)
  <2>1. /\ EndOf(h) \in Nat /\ h <= EndOf(h) /\ (EndOf(h) = Len(Lines) \/ EndOf(h) + 1 \in Logicals)
    BY EndFacts
  <2>2. ASSUME EndOf(h) < i PROVE FALSE
    <3>1. EndOf(h) # Len(Lines) /\ EndOf(h) + 1 <= i  BY <1>1, <2>1, <2>2
    <3>2. EndOf(h) + 1 <= h  BY <2>1, <3>1
    <3> QED  BY <1>1, <2>1, <3>2
  <2> QED  BY <1>1, <2>1, <2>2
<1>5. StartsWith(w, u) /\ w \in Seq(TextKinds) /\ Even(w)
  <2>1. i \in h..EndOf(h)  BY <1>1, <1>4, EndFacts
  <2> QED  BY <2>1, TextFacts
<1>a. DepthBefore(i) = Level(s, Len(s))  OBVIOUS
<1>b. /\ DepthBefore(i) \in Int /\ DepthBefore(i + 1) = DepthBefore(i) + Level(t, Len(t))
  BY DepthStep
<1> HIDE DEF s, t, u, w
<1>6. /\ u \in Seq(TextKinds) /\ Len(u) = Len(s) + Len(t) /\ StartsWith(u, s)
      /\ \A n \in 1..Len(t) : u[Len(s) + n] = t[n]
  BY <1>1, <1>3, JoinStarts
<1>7. Len(s) \in Nat /\ Len(t) \in Nat /\ Len(u) \in Nat /\ Len(w) \in Nat
  BY <1>1, <1>3, <1>5, <1>6
<1>8. \A n \in 0..Len(t) : Level(u, Len(s) + n) = Level(u, Len(s)) + Level(t, n) /\ Level(t, n) \in Int
  <2>1. u \in Seq(TextKinds) /\ \A n \in 1..Len(t) : u[Len(s) + n] = t[n]  BY <1>6
  <2>2. Len(s) + Len(t) <= Len(u)  BY <1>6, <1>7
  <2> QED  BY <1>1, <1>7, <2>1, <2>2, LevelSlice
<1>9. Level(u, Len(s)) = DepthBefore(i)
  <2>1. Len(s) \in 0..Len(s)  BY <1>7
  <2> QED  BY <1>3, <1>6, <1>a, <2>1, LevelStarts
<1>10. \A n \in 0..Len(u) : Level(w, n) = Level(u, n)  BY <1>5, <1>6, LevelStarts
<1>11. ASSUME NEW n \in 1..Len(t) PROVE DepthBefore(i) + Level(t, n) >= 0
  <2>1. n \in 0..Len(t) /\ Len(s) + n \in 0..Len(u) /\ Len(s) + n \in 1..Len(w)
    BY <1>5, <1>6, <1>7 DEF StartsWith
  <2>2. Level(w, Len(s) + n) >= 0  BY <1>5, <2>1 DEF Even
  <2> QED  BY <1>8, <1>9, <1>10, <2>1, <2>2
<1>12. DepthBefore(i + 1) = Level(u, Len(u))
  <2>1. Len(t) \in 0..Len(t)  BY <1>7
  <2> QED  BY <1>6, <1>8, <1>9, <1>b, <2>1
<1> QED  BY <1>11, <1>12 DEF s, t, u

LEMMA EvenLines ==
    ASSUME source \in Sources, \A l \in Logicals : Even(TextOf(l))
    PROVE  /\ \A i \in 1..Len(Lines) : \A n \in 1..Len(Lines[i].text) :
                DepthBefore(i) + Level(Lines[i].text, n) >= 0
           /\ DepthBefore(Len(Lines) + 1) = 0
<1>0. Len(Lines) \in Nat /\ \A l \in Logicals : l \in 1..Len(Lines) /\ l \in Nat
  BY LineFacts DEF Logicals
<1>1. ASSUME NEW i \in 1..Len(Lines), UnderOne(i)
      PROVE  /\ UnderOne(i + 1)
             /\ \A n \in 1..Len(Lines[i].text) : DepthBefore(i) + Level(Lines[i].text, n) >= 0
  <2>1. DepthBefore(i) \in Int /\ DepthBefore(i) >= 0
    <3>1. DepthBefore(i) \in Int  BY DepthStep
    <3>2. ASSUME NEW h \in Logicals, h < i, \A j \in Logicals : j < i => j <= h,
                 DepthBefore(i) = Level(TextFrom(h, i - 1), Len(TextFrom(h, i - 1)))
          PROVE  DepthBefore(i) >= 0
      <4> DEFINE u == TextFrom(h, i - 1)
                 w == TextOf(h)
      <4>1. i - 1 \in h..EndOf(h)
        <5>1. /\ EndOf(h) \in Nat /\ h <= EndOf(h) /\ (EndOf(h) = Len(Lines) \/ EndOf(h) + 1 \in Logicals)
          BY EndFacts
        <5>2. ASSUME EndOf(h) < i - 1 PROVE FALSE
          <6>1. EndOf(h) # Len(Lines) /\ EndOf(h) + 1 < i  BY <1>0, <5>1, <5>2
          <6>2. EndOf(h) + 1 <= h  BY <3>2, <5>1, <6>1
          <6> QED  BY <1>0, <5>1, <6>2
        <5> QED  BY <1>0, <3>2, <5>1, <5>2
      <4>2. StartsWith(w, u) /\ w \in Seq(TextKinds) /\ Even(w)  BY <4>1, TextFacts
      <4>3. u \in Seq(TextKinds)
        <5>1. i - 1 \in (h - 1)..Len(Lines) /\ h \in 1..Len(Lines)  BY <1>0, <3>2
        <5> QED  BY <5>1, TextFromStep
      <4>4. DepthBefore(i) = Level(u, Len(u))  BY <3>2
      <4> HIDE DEF u, w
      <4>5. Len(u) \in 0..Len(u) /\ Len(u) \in Nat /\ Len(w) \in Nat  BY <4>2, <4>3
      <4>6. DepthBefore(i) = Level(w, Len(u))  BY <4>2, <4>3, <4>4, <4>5, LevelStarts
      <4>7. CASE Len(u) = 0  BY <4>2, <4>6, <4>7, LevelNone
      <4>8. CASE Len(u) # 0
        <5>1. Len(u) \in 1..Len(w)  BY <4>2, <4>5, <4>8 DEF StartsWith
        <5> QED  BY <4>2, <4>6, <5>1 DEF Even
      <4> QED  BY <4>7, <4>8
    <3> QED  BY <1>1, <3>1, <3>2 DEF UnderOne
  <2>2. ASSUME NEW h \in Logicals, h <= i, \A j \in Logicals : j <= i => j <= h,
               DepthBefore(i) = Level(TextFrom(h, i - 1), Len(TextFrom(h, i - 1)))
        PROVE  /\ UnderOne(i + 1)
               /\ \A n \in 1..Len(Lines[i].text) : DepthBefore(i) + Level(Lines[i].text, n) >= 0
    <3>1. /\ \A n \in 1..Len(Lines[i].text) : DepthBefore(i) + Level(Lines[i].text, n) >= 0
          /\ DepthBefore(i + 1) = Level(TextFrom(h, i), Len(TextFrom(h, i)))
      BY <2>2, LineAdds
    <3>2. (i + 1) - 1 = i /\ h < i + 1 /\ \A j \in Logicals : j < i + 1 => j <= i
      BY <1>0, <2>2
    <3> QED  BY <2>2, <3>1, <3>2 DEF UnderOne
  <2>3. CASE i \in Logicals
    <3>1. DepthBefore(i) = 0  BY <2>1, <2>3 DEF Logicals
    <3>2. TextFrom(i, i - 1) = <<>>
      <4>1. i - 1 \in (i - 1)..Len(Lines)  BY <1>0
      <4> QED  BY <4>1, TextFromStep
    <3>3. Level(<<>>, Len(<<>>)) = 0
      <4>1. <<>> \in Seq(TextKinds) /\ Len(<<>>) = 0  OBVIOUS
      <4> QED  BY <4>1, LevelNone
    <3>4. i <= i /\ \A j \in Logicals : j <= i => j <= i  BY <1>0
    <3> QED  BY <2>2, <2>3, <3>1, <3>2, <3>3, <3>4
  <2>4. CASE i \notin Logicals
    <3>1. CASE (\A j \in Logicals : ~(j < i)) /\ DepthBefore(i) = 0
      <4>1. Lines[i].text = <<>>  BY <1>0, <2>4, <3>1, LineFacts DEF Logicals
      <4>2. Len(Lines[i].text) = 0 /\ Lines[i].text \in Seq(TextKinds)  BY <4>1, LineFacts
      <4>3. Level(Lines[i].text, 0) = 0  BY <4>2, LevelNone
      <4>4. DepthBefore(i + 1) = DepthBefore(i) + Level(Lines[i].text, Len(Lines[i].text))
        BY DepthStep
      <4>5. DepthBefore(i + 1) = 0  BY <3>1, <4>2, <4>3, <4>4
      <4>6. \A j \in Logicals : ~(j < i + 1)
        <5>1. \A j \in Logicals : j \in Nat /\ j # i  BY <1>0, <2>4
        <5> QED  BY <1>0, <3>1, <5>1
      <4>7. \A n \in 1..Len(Lines[i].text) : FALSE  BY <4>2
      <4> QED  BY <4>5, <4>6, <4>7 DEF UnderOne
    <3>2. ASSUME NEW h \in Logicals, h < i, \A j \in Logicals : j < i => j <= h,
                 DepthBefore(i) = Level(TextFrom(h, i - 1), Len(TextFrom(h, i - 1)))
          PROVE  h <= i /\ \A j \in Logicals : j <= i => j <= h
      <4>1. \A j \in Logicals : j \in Nat /\ j # i  BY <1>0, <2>4
      <4>2. \A j \in Logicals : j <= i => j < i  BY <1>0, <4>1
      <4> QED  BY <1>0, <3>2, <4>2
    <3> QED  BY <1>1, <2>2, <3>1, <3>2 DEF UnderOne
  <2> QED  BY <2>3, <2>4
<1> DEFINE T == {d \in Nat : d <= Len(Lines) => UnderOne(d + 1)}
<1>2. 0 \in T
  <2>1. \A j \in Logicals : ~(j < 1)  BY <1>0
  <2>2. UnderOne(1)  BY <2>1, DepthFirst DEF UnderOne
  <2>3. 0 + 1 = 1  OBVIOUS
  <2> QED  BY <2>2, <2>3
<1>3. ASSUME NEW d \in Nat, d \in T PROVE d + 1 \in T
  <2> SUFFICES ASSUME d + 1 <= Len(Lines) PROVE UnderOne((d + 1) + 1)
    OBVIOUS
  <2>1. d + 1 \in 1..Len(Lines) /\ d <= Len(Lines)  BY <1>0
  <2>2. UnderOne(d + 1)  BY <1>3, <2>1
  <2> QED  BY <1>1, <2>1, <2>2
<1> HIDE DEF T
<1>4. \A d \in Nat : d \in T  BY <1>2, <1>3, NatInduct
<1>5. \A i \in 1..(Len(Lines) + 1) : UnderOne(i)
  <2> TAKE i \in 1..(Len(Lines) + 1)
  <2>1. i - 1 \in Nat /\ i - 1 <= Len(Lines) /\ (i - 1) + 1 = i  BY <1>0
  <2>2. i - 1 \in T  BY <1>4, <2>1
  <2> QED  BY <2>1, <2>2 DEF T
<1>6. \A i \in 1..Len(Lines) : i \in 1..(Len(Lines) + 1)  BY <1>0
<1>7. DepthBefore(Len(Lines) + 1) = 0
  <2> DEFINE e == Len(Lines)
  <2>1. UnderOne(e + 1) /\ (e + 1) - 1 = e
    <3>1. e + 1 \in 1..(e + 1)  BY <1>0
    <3> QED  BY <1>0, <1>5, <3>1
  <2>2. ASSUME NEW h \in Logicals, h < e + 1, \A j \in Logicals : j < e + 1 => j <= h,
               DepthBefore(e + 1) = Level(TextFrom(h, e), Len(TextFrom(h, e)))
        PROVE  DepthBefore(e + 1) = 0
    <3>1. h \in 1..e /\ h <= e /\ e \in 1..e  BY <1>0
    <3>2. \A j \in Logicals : j <= e => j <= h  BY <1>0, <2>2
    <3>3. TextFrom(h, e) = TextOf(h)  BY <3>1, <3>2, LineDone
    <3>4. Even(TextOf(h))  OBVIOUS
    <3> QED  BY <2>2, <3>3, <3>4 DEF Even
  <2> HIDE DEF e
  <2>3. \/ DepthBefore(e + 1) = 0
        \/ \E h \in Logicals : /\ h < e + 1 /\ \A j \in Logicals : j < e + 1 => j <= h
                               /\ DepthBefore(e + 1) = Level(TextFrom(h, e), Len(TextFrom(h, e)))
    BY <2>1 DEF UnderOne
  <2> QED  BY <2>2, <2>3 DEF e
<1> QED  BY <1>1, <1>5, <1>6, <1>7

-------------------------------------------------------------------------------
(* Well-formedness, in the terms of the proof.                               *)
KindUnder(p) ==
    IF p = 0 THEN "program"
    ELSE IF TextOf(p)[1] \in {"struct", "trait", "impl", "match"} THEN TextOf(p)[1] ELSE "body"
Colon(i) == TextOf(i)[Len(TextOf(i))] = "colon"
HasChild(i) == \E c \in Logicals : Up(c) = i

ShapedLine(i) ==
    LET s == TextOf(i)
    IN  /\ Colon(i)
        /\ s[1] = "else" => Len(s) = 2
        /\ s[1] \in Keyword => /\ IsExpr(SubSeq(s, 2, Len(s) - 1))
                               /\ Named(s[1]) => s[2] = "word"
        /\ s[1] \notin Keyword \cup {"else"} =>
             IsExpr(SubSeq(s, 1, Len(s) - 1)) /\ s[1] = "word"
FirstImports(i) == \A j \in Logicals : Up(j) = 0 /\ j < i => TextOf(j)[1] = "import"
FitsLine(i) ==
    LET s == TextOf(i)
        u == KindUnder(Up(i))
    IN  /\ u = "program" => \/ s[1] \in {"fn", "struct", "trait", "impl"} /\ ShapedLine(i)
                            \/ s = <<"import", "word">> /\ FirstImports(i)
        /\ u = "struct" => s = <<"word", "colon", "word">>
        /\ u = "trait" => s[1] = "fn" /\ IsExpr(Tail(s))
        /\ u = "impl" => s[1] = "fn" /\ ShapedLine(i)
        /\ u = "match" => s[1] = "word" /\ ShapedLine(i)
        /\ u = "body" => \/ s[1] \in {"if", "while", "match"} /\ ShapedLine(i)
                         \/ /\ s[1] = "else" /\ ShapedLine(i)
                            /\ Earlier(i) # 0 /\ TextOf(Earlier(i))[1] = "if"
                         \/ IsExpr(s)
GoodLine(i) == (Colon(i) <=> HasChild(i)) /\ FitsLine(i)
GoodWidth(i) == IF Up(i) = 0 THEN WidthOf(i) = 0
                ELSE \A j \in Logicals : Up(j) = Up(i) => WidthOf(j) = WidthOf(i)

LEMMA EarlierIs ==
    ASSUME source \in Sources, NEW i \in Logicals
    PROVE  /\ Earlier(i) \in Nat /\ Earlier(i) < i
           /\ Earlier(i) # 0 => Earlier(i) \in Logicals /\ Up(Earlier(i)) = Up(i)
           /\ \A j \in Logicals : j < i /\ Up(j) = Up(i) => j <= Earlier(i)
<1> DEFINE A == {j \in Logicals : j < i /\ Up(j) = Up(i)}
           S == {0} \cup A
<1>1. i \in Nat /\ i > 0 /\ \A j \in Logicals : j \in Nat  BY LogicalFacts
<1>a. \A j \in A : j \in Nat /\ j < i /\ j <= i  BY <1>1
<1>2. S \in SUBSET Nat /\ S # {} /\ \A j \in S : j <= i /\ j < i
  <2> HIDE DEF A
  <2> QED  BY <1>1, <1>a
<1>3. Max(S) \in S /\ \A j \in S : j <= Max(S)
  <2> HIDE DEF S
  <2> QED  BY <1>1, <1>2, Greatest
<1>4. Earlier(i) = Max(S)  BY DEF Earlier
<1> QED  BY <1>2, <1>3, <1>4

LEMMA ShapedIs ==
    ASSUME source \in Sources, NEW i \in Logicals
    PROVE  /\ HeaderShaped(Outline, i) <=> ShapedLine(i)
           /\ IsHeader(Outline, i) <=> Colon(i)
<1>1. Outline.text[i] = TextOf(i)  BY DEF TextOf
<1>2. TextOf(i) \in Seq(TextKinds) /\ Len(TextOf(i)) >= 1  BY TextFacts
<1>3. Last(TextOf(i)) = TextOf(i)[Len(TextOf(i))]  BY DEF Last
<1>4. IsHeader(Outline, i) <=> Colon(i)  BY <1>1, <1>3 DEF IsHeader, Colon
<1>5. "else" \notin Keyword  BY DEF Keyword
<1>6. HeaderShaped(Outline, i) <=> ShapedLine(i)
  <2> DEFINE s == TextOf(i)
  <2>1. HeadOf(Outline, i) = s[1] /\ \A f : Inner(Outline, i, f) = SubSeq(s, f, Len(s) - 1)
    BY <1>1 DEF HeadOf, Inner
  <2>0. Outline.text[i] = s  BY <1>1
  <2> HIDE DEF s
  <2>2. CASE s[1] = "else"
    <3>1. HeaderShaped(Outline, i) <=> Colon(i) /\ Len(s) = 2
      BY <2>0, <1>4, <1>5, <2>1, <2>2 DEF HeaderShaped
    <3> QED  BY <1>5, <2>2, <3>1 DEF ShapedLine, s
  <2>3. CASE s[1] \in Keyword
    <3>1. HeaderShaped(Outline, i) <=> /\ Colon(i) /\ IsExpr(SubSeq(s, 2, Len(s) - 1))
                                       /\ Named(s[1]) => s[2] = "word"
      BY <2>0, <1>4, <1>5, <2>1, <2>3 DEF HeaderShaped
    <3> QED  BY <1>5, <2>3, <3>1 DEF ShapedLine, s
  <2>4. CASE s[1] \notin Keyword \cup {"else"}
    <3>1. HeaderShaped(Outline, i) <=>
            Colon(i) /\ IsExpr(SubSeq(s, 1, Len(s) - 1)) /\ s[1] = "word"
      BY <1>4, <2>1, <2>4 DEF HeaderShaped
    <3> QED  BY <2>4, <3>1 DEF ShapedLine, s
  <2> QED  BY <2>2, <2>3, <2>4
<1> QED  BY <1>4, <1>6

LEMMA UnderKinds ==
    KindUnder(0) = "program" /\
    \A p : KindUnder(p) \in {"program", "struct", "trait", "impl", "match", "body"}
BY DEF KindUnder

LEMMA FitsIs ==
    ASSUME source \in Sources, NEW i \in Logicals
    PROVE  Fits(Outline, i) <=> FitsLine(i)
<1> DEFINE s == TextOf(i)
           u == KindUnder(Up(i))
<1>1. /\ Outline.up[i] = Up(i) /\ Outline.text[i] = s /\ HeadOf(Outline, i) = s[1]
      /\ HeaderShaped(Outline, i) <=> ShapedLine(i)
      /\ Before(Outline, i) = Earlier(i)
  BY OutlineUp, ShapedIs, OutlineBefore DEF TextOf, HeadOf
<1>2. UnderOf(Outline, Up(i)) = u  BY DEF UnderOf, KindUnder, HeadOf, TextOf
<1>3. (\A j \in ChildrenOf(Outline, 0) : j < i => HeadOf(Outline, j) = "import") <=> FirstImports(i)
  <2>1. ChildrenOf(Outline, 0) = {j \in Logicals : Up(j) = 0}
    BY OutlineUp, OutlineLogicals DEF ChildrenOf
  <2>2. \A j \in Logicals : HeadOf(Outline, j) = TextOf(j)[1]  BY DEF HeadOf, TextOf
  <2> QED  BY <2>1, <2>2 DEF FirstImports
<1>4. HeadOf(Outline, Earlier(i)) = TextOf(Earlier(i))[1]  BY DEF HeadOf, TextOf
<1>5. u \in {"program", "struct", "trait", "impl", "match", "body"}  BY UnderKinds
<1> HIDE DEF s, u
<1>6. CASE u = "program"
  BY <1>1, <1>2, <1>3, <1>6 DEF Fits, FitsLine, s, u
<1>7. CASE u = "struct"
  BY <1>1, <1>2, <1>7 DEF Fits, FitsLine, s, u
<1>8. CASE u = "trait"
  BY <1>1, <1>2, <1>8 DEF Fits, FitsLine, s, u
<1>9. CASE u = "impl"
  BY <1>1, <1>2, <1>9 DEF Fits, FitsLine, s, u
<1>10. CASE u = "match"
  BY <1>1, <1>2, <1>10 DEF Fits, FitsLine, s, u
<1>11. CASE u = "body"
  BY <1>1, <1>2, <1>4, <1>11 DEF Fits, FitsLine, s, u
<1> QED  BY <1>5, <1>6, <1>7, <1>8, <1>9, <1>10, <1>11

LEMMA WellFormedIs ==
    ASSUME source \in Sources
    PROVE  WellFormed(Outline) <=> OneChar /\ \A i \in Logicals : GoodWidth(i) /\ GoodLine(i)
<1>1. ASSUME NEW i \in Logicals
      PROVE  (/\ IF Outline.up[i] = 0 THEN WidthOf(i) = 0
                 ELSE \A j \in ChildrenOf(Outline, Outline.up[i]) : WidthOf(j) = WidthOf(i)
              /\ IsHeader(Outline, i) <=> ChildrenOf(Outline, i) # {}
              /\ Fits(Outline, i))
             <=> GoodWidth(i) /\ GoodLine(i)
  <2>1. \A p : ChildrenOf(Outline, p) = {j \in Logicals : Up(j) = p}
    BY OutlineUp, OutlineLogicals DEF ChildrenOf
  <2>2. Outline.up[i] = Up(i)  BY OutlineUp
  <2>3. ChildrenOf(Outline, i) # {} <=> HasChild(i)  BY <2>1 DEF HasChild
  <2>4. (IF Outline.up[i] = 0 THEN WidthOf(i) = 0
         ELSE \A j \in ChildrenOf(Outline, Outline.up[i]) : WidthOf(j) = WidthOf(i)) <=> GoodWidth(i)
    BY <2>1, <2>2 DEF GoodWidth
  <2>5. IsHeader(Outline, i) <=> Colon(i)  BY ShapedIs
  <2>6. Fits(Outline, i) <=> FitsLine(i)  BY FitsIs
  <2> QED  BY <2>3, <2>4, <2>5, <2>6 DEF GoodLine
<1>2. Outline.logical = Logicals  BY OutlineLogicals
<1> QED  BY <1>1, <1>2 DEF WellFormed

-------------------------------------------------------------------------------
(* A line that fits closes its brackets.                                     *)
Bracket(kind) == kind \in {"open", "close"}

LEMMA NoBrackets ==
    ASSUME NEW s \in Seq(TextKinds), \A n \in 1..Len(s) : ~Bracket(s[n])
    PROVE  Even(s)
<1>0. Len(s) \in Nat  OBVIOUS
<1> DEFINE T == {n \in Nat : n <= Len(s) => Level(s, n) = 0}
<1>1. 0 \in T  BY LevelNone
<1>2. ASSUME NEW n \in Nat, n \in T PROVE n + 1 \in T
  <2> SUFFICES ASSUME n + 1 <= Len(s) PROVE Level(s, n + 1) = 0
    OBVIOUS
  <2>a. n + 1 <= Len(s)  OBVIOUS
  <2>1. n < Len(s) /\ n + 1 \in 1..Len(s) /\ n <= Len(s)  BY <1>0, <2>a
  <2>2. Level(s, n) = 0  BY <1>2, <2>1
  <2>3. Level(s, n + 1) = Level(s, n) + Shift(s[n + 1])  BY <2>1, LevelShift
  <2>4. Shift(s[n + 1]) = 0  BY <2>1 DEF Shift, Bracket
  <2> QED  BY <2>2, <2>3, <2>4
<1> HIDE DEF T
<1>3. \A n \in Nat : n \in T  BY <1>1, <1>2, NatInduct
<1>4. \A n \in 0..Len(s) : Level(s, n) = 0  BY <1>0, <1>3 DEF T
<1> QED  BY <1>0, <1>4 DEF Even

(* One expression among tokens that are no brackets.                         *)
LEMMA OneExpr ==
    ASSUME NEW s \in Seq(TextKinds), NEW a \in Nat, a >= 1, NEW b \in Nat, a <= b, b <= Len(s),
           IsExpr(SubSeq(s, a, b)), \A n \in 1..Len(s) : n < a \/ n > b => ~Bracket(s[n])
    PROVE  Even(s)
<1> DEFINE t == SubSeq(s, a, b)
           c == a - 1
           e == Len(s)
<1>1. /\ t \in Seq(TextKinds) /\ Len(t) = b - a + 1 /\ \A n \in 1..Len(t) : s[c + n] = t[n]
      /\ e \in Nat /\ c \in Nat /\ Len(t) \in Nat /\ c + Len(t) = b /\ c + Len(t) <= e
  <2>1. e \in Nat /\ c \in Nat /\ b - a + 1 \in Nat  OBVIOUS
  <2>2. t \in Seq(TextKinds) /\ Len(t) = b - a + 1  BY SubSeqProperties
  <2>3. \A n \in 1..(b - a + 1) : t[n] = s[a + n - 1] /\ a + n - 1 = c + n
    BY SubSeqProperties
  <2> QED  BY <2>1, <2>2, <2>3
<1>2. (\A n \in 1..Len(t) : Level(t, n) >= 0) /\ Level(t, Len(t)) = 0
  <2>1. DOMAIN t = 1..Len(t)  BY <1>1
  <2> QED  BY <2>1 DEF IsExpr
<1>a. \A n \in 1..e : n < a \/ n > b => ~Bracket(s[n])  OBVIOUS
<1> HIDE DEF t, e
<1>3. \A n \in 1..c : ~Bracket(s[n])  BY <1>1, <1>a
<1> HIDE DEF c
<1>4. \A n \in 0..Len(t) : Level(s, c + n) = Level(s, c) + Level(t, n) /\ Level(t, n) \in Int
  BY <1>1, LevelSlice DEF e
<1> DEFINE T == {n \in Nat : n <= c => Level(s, n) = 0}
<1>5. 0 \in T  BY LevelNone
<1>6. ASSUME NEW n \in Nat, n \in T PROVE n + 1 \in T
  <2> SUFFICES ASSUME n + 1 <= c PROVE Level(s, n + 1) = 0
    OBVIOUS
  <2>a. n + 1 <= c  OBVIOUS
  <2>1. n < e /\ n + 1 \in 1..c /\ n <= c  BY <1>1, <2>a
  <2>2. Level(s, n) = 0  BY <1>6, <2>1
  <2>3. Level(s, n + 1) = Level(s, n) + Shift(s[n + 1])  BY <2>1, LevelShift DEF e
  <2>4. Shift(s[n + 1]) = 0  BY <1>3, <2>1 DEF Shift, Bracket
  <2> QED  BY <2>2, <2>3, <2>4
<1> HIDE DEF T
<1>7. \A n \in Nat : n \in T  BY <1>5, <1>6, NatInduct
<1>8. \A n \in 0..c : Level(s, n) = 0  BY <1>1, <1>7 DEF T
<1>9. Level(s, c) = 0 /\ Level(s, b) = 0
  <2>1. c \in 0..c /\ Len(t) \in 0..Len(t)  BY <1>1
  <2>2. Level(s, c) = 0  BY <1>8, <2>1
  <2>3. Level(s, c + Len(t)) = Level(s, c) + Level(t, Len(t))  BY <1>4, <2>1
  <2>4. c + Len(t) = b  BY <1>1
  <2>5. Level(s, b) = Level(s, c) + Level(t, Len(t))  BY <2>3, <2>4
  <2> QED  BY <1>2, <2>2, <2>5
<1> DEFINE U == {n \in Nat : b + n <= e => Level(s, b + n) = 0}
<1>10. 0 \in U
  <2>1. b + 0 = b  OBVIOUS
  <2> QED  BY <1>9, <2>1
<1>11. ASSUME NEW n \in Nat, n \in U PROVE n + 1 \in U
  <2> SUFFICES ASSUME b + (n + 1) <= e PROVE Level(s, b + (n + 1)) = 0
    OBVIOUS
  <2>a. b + (n + 1) <= e /\ b \in Nat  OBVIOUS
  <2>1. b + n < e /\ b + n \in Nat /\ b + n <= e /\ (b + n) + 1 = b + (n + 1) /\ (b + n) + 1 \in 1..e /\ (b + n) + 1 > b
    BY <1>1, <2>a
  <2>2. Level(s, b + n) = 0  BY <1>11, <2>1
  <2>3. Level(s, (b + n) + 1) = Level(s, b + n) + Shift(s[(b + n) + 1])  BY <2>1, LevelShift DEF e
  <2>4. Shift(s[(b + n) + 1]) = 0  BY <1>a, <2>1 DEF Shift, Bracket
  <2> QED  BY <2>1, <2>2, <2>3, <2>4
<1> HIDE DEF U
<1>12. \A n \in Nat : n \in U  BY <1>10, <1>11, NatInduct
<1>13. \A n \in 1..e : n > b => Level(s, n) = 0
  <2> TAKE n \in 1..e
  <2> SUFFICES ASSUME n > b PROVE Level(s, n) = 0
    OBVIOUS
  <2>1. n - b \in Nat /\ b + (n - b) = n /\ b + (n - b) <= e  BY <1>1
  <2>2. n - b \in U  BY <1>12, <2>1
  <2> QED  BY <2>1, <2>2 DEF U
<1>14. \A n \in 1..e : Level(s, n) >= 0
  <2> TAKE n \in 1..e
  <2>1. CASE n <= c
    <3>1. n \in 0..c  BY <1>1, <2>1
    <3> QED  BY <1>8, <3>1
  <2>2. CASE n > c /\ n <= b
    <3>1. n - c \in 1..Len(t) /\ n - c \in 0..Len(t) /\ c + (n - c) = n  BY <1>1, <2>2
    <3>2. Level(s, n) = Level(s, c) + Level(t, n - c) /\ Level(t, n - c) >= 0 /\ Level(t, n - c) \in Int
      BY <1>2, <1>4, <3>1
    <3> QED  BY <1>9, <3>2
  <2>3. CASE n > b  BY <1>13, <2>3
  <2> QED  BY <1>1, <2>1, <2>2, <2>3
<1>15. Level(s, e) = 0
  <2>1. CASE e = b  BY <1>9, <2>1
  <2>2. CASE e # b
    <3>1. e \in 1..e /\ e > b  BY <1>1, <2>2
    <3> QED  BY <1>13, <3>1
  <2> QED  BY <2>1, <2>2
<1> QED  BY <1>14, <1>15 DEF Even, e

-------------------------------------------------------------------------------
(* A line that fits closes the brackets it opens.                            *)
LEMMA ExprSlice ==
    ASSUME NEW s \in Seq(TextKinds), NEW a \in Nat, a >= 1, NEW b \in Int, b <= Len(s), IsExpr(SubSeq(s, a, b))
    PROVE  b \in Nat /\ a <= b
<1>1. SubSeq(s, a, b) # <<>>  BY DEF IsExpr
<1>2. ASSUME b < a PROVE FALSE
  <2>1. SubSeq(s, a, b) = <<>>  BY <1>2
  <2> QED  BY <1>1, <2>1
<1> QED  BY <1>2

LEMMA ShapedEven ==
    ASSUME source \in Sources, NEW i \in Logicals, ShapedLine(i)
    PROVE  Even(TextOf(i))
<1> DEFINE s == TextOf(i)
           e == Len(s)
<1>1. s \in Seq(TextKinds) /\ e \in Nat /\ e >= 1  BY TextFacts
<1>2. s[e] = "colon" /\ ~Bracket("colon") /\ ~Bracket("else") /\ \A k \in Keyword : ~Bracket(k)
  BY DEF ShapedLine, Colon, Bracket, Keyword
<1>3. \/ s[1] = "else" /\ e = 2
      \/ s[1] \in Keyword /\ IsExpr(SubSeq(s, 2, e - 1))
      \/ IsExpr(SubSeq(s, 1, e - 1))
  BY DEF ShapedLine
<1> HIDE DEF s
<1>4. CASE s[1] = "else" /\ e = 2
  <2>1. \A n \in 1..e : n = 1 \/ n = e  BY <1>4
  <2>2. \A n \in 1..e : ~Bracket(s[n])  BY <1>2, <1>4, <2>1
  <2> QED  BY <1>1, <2>2, NoBrackets DEF s
<1>5. CASE s[1] \in Keyword /\ IsExpr(SubSeq(s, 2, e - 1))
  <2>1. e - 1 \in Nat /\ 2 <= e - 1  BY <1>1, <1>5, ExprSlice
  <2>2. \A n \in 1..e : n < 2 \/ n > e - 1 => n = 1 \/ n = e  BY <1>1
  <2>3. \A n \in 1..e : n < 2 \/ n > e - 1 => ~Bracket(s[n])  BY <1>2, <1>5, <2>2
  <2> QED  BY <1>1, <1>5, <2>1, <2>3, OneExpr DEF s
<1>6. CASE IsExpr(SubSeq(s, 1, e - 1))
  <2>1. e - 1 \in Nat /\ 1 <= e - 1  BY <1>1, <1>6, ExprSlice
  <2>2. \A n \in 1..e : n < 1 \/ n > e - 1 => n = e  BY <1>1
  <2>3. \A n \in 1..e : n < 1 \/ n > e - 1 => ~Bracket(s[n])  BY <1>2, <2>2
  <2> QED  BY <1>1, <1>6, <2>1, <2>3, OneExpr DEF s
<1> QED  BY <1>3, <1>4, <1>5, <1>6 DEF s

LEMMA ExprEven ==
    ASSUME NEW s \in Seq(TextKinds), IsExpr(s)
    PROVE  Even(s)
BY DEF IsExpr, Even

LEMMA FitsEven ==
    ASSUME source \in Sources, NEW i \in Logicals, FitsLine(i)
    PROVE  Even(TextOf(i))
<1> DEFINE s == TextOf(i)
           e == Len(s)
<1>1. s \in Seq(TextKinds) /\ e \in Nat /\ e >= 1  BY TextFacts
<1>2. KindUnder(Up(i)) \in {"program", "struct", "trait", "impl", "match", "body"}  BY UnderKinds
<1>3. \/ ShapedLine(i) \/ s = <<"import", "word">> \/ s = <<"word", "colon", "word">>
      \/ s[1] = "fn" /\ IsExpr(Tail(s))
      \/ IsExpr(s)
  BY <1>2 DEF FitsLine
<1> HIDE DEF s
<1>4. CASE ShapedLine(i)  BY <1>4, ShapedEven DEF s
<1>5. CASE s = <<"import", "word">>
  <2>1. \A n \in 1..e : ~Bracket(s[n])  BY <1>5 DEF Bracket
  <2> QED  BY <1>1, <2>1, NoBrackets DEF s
<1>6. CASE s = <<"word", "colon", "word">>
  <2>1. \A n \in 1..e : ~Bracket(s[n])  BY <1>6 DEF Bracket
  <2> QED  BY <1>1, <2>1, NoBrackets DEF s
<1>7. CASE s[1] = "fn" /\ IsExpr(Tail(s))
  <2>0. Tail(s) = SubSeq(s, 2, e)  BY <1>1
  <2>1. IsExpr(SubSeq(s, 2, e))  BY <1>7, <2>0
  <2>2. 2 <= e  BY <1>1, <2>1, ExprSlice
  <2>3. \A n \in 1..e : n < 2 \/ n > e => n = 1  BY <1>1
  <2>4. \A n \in 1..e : n < 2 \/ n > e => ~Bracket(s[n])  BY <1>7, <2>3 DEF Bracket
  <2> QED  BY <1>1, <2>1, <2>2, <2>4, OneExpr DEF s
<1>8. CASE IsExpr(s)  BY <1>1, <1>8, ExprEven DEF s
<1> QED  BY <1>3, <1>4, <1>5, <1>6, <1>7, <1>8 DEF s

Good == OneChar /\ \A i \in Logicals : GoodWidth(i) /\ GoodLine(i)

(* Well-formed lines leave no bracket open and close none too many.          *)
LEMMA GoodEven ==
    ASSUME source \in Sources, Good
    PROVE  /\ \A i \in 1..Len(Lines) : \A n \in 1..Len(Lines[i].text) :
                DepthBefore(i) + Level(Lines[i].text, n) >= 0
           /\ DepthBefore(Len(Lines) + 1) = 0
<1>1. \A l \in Logicals : Even(TextOf(l))  BY FitsEven DEF Good, GoodLine
<1> QED  BY <1>1, EvenLines

LEMMA GoodStays ==
    ASSUME source' = source
    PROVE  /\ Logicals' = Logicals /\ \A i : TextOf(i)' = TextOf(i)
           /\ \A i : KindUnder(i)' = KindUnder(i)
           /\ \A i : GoodLine(i)' <=> GoodLine(i)
           /\ Good' <=> Good
<1>1. /\ Lines' = Lines /\ Logicals' = Logicals
      /\ \A i : WidthOf(i)' = WidthOf(i) /\ Anc(i)' = Anc(i) /\ TextOf(i)' = TextOf(i)
  BY LinesStay, TextStays
<1>2. \A i : Up(i)' = Up(i)  BY <1>1 DEF Up
<1>3. \A i : Earlier(i)' = Earlier(i)  BY <1>1, <1>2 DEF Earlier
<1>4. \A i : KindUnder(i)' = KindUnder(i)  BY <1>1 DEF KindUnder
<1>5. \A i : Colon(i)' <=> Colon(i)  BY <1>1 DEF Colon
<1>6. \A i : HasChild(i)' <=> HasChild(i)  BY <1>1, <1>2 DEF HasChild
<1>7. \A i : ShapedLine(i)' <=> ShapedLine(i)  BY <1>1, <1>5 DEF ShapedLine
<1>8. \A i : FirstImports(i)' <=> FirstImports(i)  BY <1>1, <1>2 DEF FirstImports
<1>9. \A i : FitsLine(i)' <=> FitsLine(i)  BY <1>1, <1>2, <1>3, <1>4, <1>7, <1>8 DEF FitsLine
<1>10. \A i : GoodLine(i)' <=> GoodLine(i)  BY <1>5, <1>6, <1>9 DEF GoodLine
<1>11. \A i : GoodWidth(i)' <=> GoodWidth(i)  BY <1>1, <1>2 DEF GoodWidth
<1>12. OneChar' <=> OneChar  BY <1>1 DEF OneChar
<1>13. Good' <=> Good  BY <1>1, <1>10, <1>11, <1>12 DEF Good
<1> QED  BY <1>1, <1>4, <1>10, <1>13

LEMMA GoodPrimed ==
    ASSUME source' = source PROVE Good' <=> Good
BY GoodStays

-------------------------------------------------------------------------------
(* Every text token belongs to the line of a start before it.                *)
LEMMA RunStart ==
    ASSUME NEW ts \in Seq(Tokens), NEW n \in 1..Len(ts), IsText(ts[n])
    PROVE  \E k \in Starts(ts) : k \in 1..n /\ \A x \in k..n : IsText(ts[x])
<1>0. Len(ts) \in Nat  OBVIOUS
<1> DEFINE T == {m \in Nat : \A p \in 1..Len(ts) : p = m /\ IsText(ts[p]) =>
                    \E k \in Starts(ts) : k \in 1..p /\ \A x \in k..p : IsText(ts[x])}
<1>1. 0 \in T  OBVIOUS
<1>2. ASSUME NEW m \in Nat, m \in T PROVE m + 1 \in T
  <2> SUFFICES ASSUME NEW p \in 1..Len(ts), p = m + 1, IsText(ts[p])
               PROVE  \E k \in Starts(ts) : k \in 1..p /\ \A x \in k..p : IsText(ts[x])
    OBVIOUS
  <2>a. p = m + 1 /\ IsText(ts[p])  OBVIOUS
  <2>1. CASE p \in Starts(ts)
    <3>1. p \in 1..p /\ \A x \in p..p : x = p  OBVIOUS
    <3> QED  BY <2>a, <2>1, <3>1
  <2>2. CASE p \notin Starts(ts)
    <3>1. p # 1 /\ IsText(ts[p - 1])  BY <2>a, <2>2 DEF Starts
    <3>2. p - 1 = m /\ p - 1 \in 1..Len(ts)  BY <1>0, <2>a, <3>1
    <3>3. PICK k \in Starts(ts) : k \in 1..(p - 1) /\ \A x \in k..(p - 1) : IsText(ts[x])
      BY <1>2, <3>1, <3>2
    <3>4. k \in 1..p /\ \A x \in k..p : x \in k..(p - 1) \/ x = p  BY <3>3
    <3> QED  BY <2>a, <3>3, <3>4
  <2> QED  BY <2>1, <2>2
<1> HIDE DEF T
<1>3. \A m \in Nat : m \in T  BY <1>1, <1>2, NatInduct
<1>4. n \in T /\ n \in Nat  BY <1>3
<1> QED  BY <1>4 DEF T

(* What a colon pending at the start of a line says: the newest logical line *)
(* ends in one.                                                              *)
LEMMA LastLine ==
    ASSUME LexInv, Balance, Place, TextRule, EdgeRule, AfterRule, StartsRight, ~Surplus, lexed = "no",
           at_line_start, bracket_depth = 0, NEW h, Newest(h)
    PROVE  after_colon <=> Colon(h)
<1>0. source \in Sources /\ tokens \in Seq(Tokens) /\ line \in Nat /\ Len(tokens) \in Nat
  BY DEF LexInv, LexTypeOK, Balance, Balanced
<1>1. StartsAre(tokens, {l \in Logicals : l < line \/ (l = line /\ col > 1)})
  BY DEF StartsRight, Passed
<1>2. h \in Logicals /\ h <= line - 1 /\ (\A j \in Logicals : j <= line - 1 => j <= h) /\ col = 1
  BY DEF Newest, Reached, Place
<1>3. \A l \in Logicals : l \in Nat /\ l > 0  BY <1>0, LogicalFacts
<1>4. PICK k \in Starts(tokens) : tokens[k].line = h
  <2>1. h < line  BY <1>0, <1>2, <1>3
  <2>2. h \in {tokens[k].line : k \in Starts(tokens)}  BY <1>1, <1>2, <2>1 DEF StartsAre
  <2> QED  BY <2>2
<1>5. \A m \in Starts(tokens) : tokens[m].line <= h
  <2> TAKE m \in Starts(tokens)
  <2>1. tokens[m].line \in {l \in Logicals : l < line \/ (l = line /\ col > 1)}
    BY <1>1 DEF StartsAre
  <2>2. tokens[m].line \in Logicals /\ tokens[m].line < line  BY <1>2, <2>1
  <2> QED  BY <1>0, <1>2, <1>3, <2>2
<1>6. \A m \in Starts(tokens) : m <= k
  <2> TAKE m \in Starts(tokens)
  <2>1. k < m => tokens[k].line < tokens[m].line  BY <1>1 DEF StartsAre
  <2>2. tokens[m].line <= h /\ h \in Nat  BY <1>2, <1>3, <1>5
  <2>3. k \in Nat /\ m \in Nat /\ tokens[m].line \in Nat  BY <1>0, TokenFacts DEF Starts
  <2> QED  BY <1>4, <2>1, <2>2, <2>3
<1> DEFINE s == TextOf(h)
           e == Len(s)
<1>7. e \in Nat /\ e >= 1 /\ k \in 1..Len(tokens)  BY <1>0, <1>2, TextFacts DEF Starts
<1>8. RunIs(tokens, k, s) /\ k + e <= Len(tokens) /\ tokens[k + e].kind = "newline"
  <2>1. Finished(tokens, k) \/ Unfinished(tokens, k)  BY DEF TextRule
  <2>2. ~Unfinished(tokens, k)  BY DEF Unfinished
  <2> QED  BY <1>4, <2>1, <2>2 DEF Finished
<1> HIDE DEF e
<1>9. /\ Len(tokens) > 1 /\ tokens[Len(tokens)].kind = "newline"
      /\ after_colon <=> tokens[Len(tokens) - 1].kind = "colon"
  <2>1. Len(tokens) # 0  BY <1>7
  <2> QED  BY <2>1 DEF AfterRule
<1> DEFINE p == Len(tokens) - 1
<1>10. p \in 1..Len(tokens) /\ IsText(tokens[p])
  <2>1. Len(tokens) \in 1..Len(tokens) /\ p \in 1..Len(tokens)  BY <1>0, <1>9
  <2> QED  BY <1>9, <2>1 DEF EdgeRule, EdgeAt
<1>11. PICK m \in Starts(tokens) : m \in 1..p /\ \A x \in m..p : IsText(tokens[x])
  BY <1>0, <1>10, RunStart
<1>12. ~IsText(tokens[k + e])  BY <1>8 DEF IsText, LayoutKinds
<1>13. k \in 1..p /\ k + e \in Nat /\ m <= k  BY <1>0, <1>6, <1>7, <1>8
<1>14. k + e = p + 1
  <2>1. k + e <= p + 1  BY <1>0, <1>8
  <2>2. ASSUME k + e <= p PROVE FALSE
    <3>1. k + e \in m..p  BY <1>7, <1>11, <1>13, <2>2
    <3> QED  BY <1>11, <1>12, <3>1
  <2> QED  BY <1>0, <1>7, <2>1, <2>2
<1>15. tokens[p].kind = s[e]
  <2>1. e \in 1..e /\ k + e - 1 = p  BY <1>0, <1>7, <1>14
  <2>2. \A n \in 1..e : tokens[k + n - 1].kind = s[n]  BY <1>8 DEF RunIs, e
  <2> QED  BY <2>1, <2>2
<1> QED  BY <1>9, <1>15 DEF Colon, e

-------------------------------------------------------------------------------
(* A line at which the lexer stops with an error is not well formed.         *)
LEMMA MixedMeans ==
    ASSUME LexInv, Place, CharRule, lexed = "no", AtLineStart, Mixed
    PROVE  ~OneChar
<1> SUFFICES ASSUME NEW c \in {" ", "tab"}, \A i \in DOMAIN Lines : Range(Lines[i].lead) \subseteq {c}
             PROVE  FALSE
  BY DEF OneChar
<1>0. /\ ~AtEnd /\ source \in Sources /\ line \in 1..Len(Lines) /\ Here = Lines[line]
      /\ DOMAIN Lines = 1..Len(Lines)
  BY StartFacts, LineFacts DEF AtLineStart, LexInv
<1>1. \A i \in 1..Len(Lines) :
        /\ DOMAIN Lines[i].lead = 1..Len(Lines[i].lead)
        /\ Lines[i].lead # <<>> => Lines[i].lead[1] \in Range(Lines[i].lead)
  BY <1>0, LeadFacts
<1>2. \A i \in 1..Len(Lines) : \A n \in DOMAIN Lines[i].lead : Lines[i].lead[n] = c
  <2> TAKE i \in 1..Len(Lines)
  <2> TAKE n \in DOMAIN Lines[i].lead
  <2>1. Lines[i].lead[n] \in Range(Lines[i].lead)  BY DEF Range
  <2> QED  BY <1>0, <2>1
<1>3. \A i \in 1..Len(Lines) : Lines[i].lead # <<>> => Lines[i].lead[1] = c
  BY <1>0, <1>1
<1>4. CASE \E n \in DOMAIN Here.lead : Here.lead[n] # CharHere
  <2>1. PICK n \in DOMAIN Here.lead : Here.lead[n] # CharHere  BY <1>4
  <2>2. Here.lead # <<>>
    <3>1. Here.lead[n] \in Range(Here.lead)  BY <2>1 DEF Range
    <3>2. Here.lead = <<>> => Range(Here.lead) = {}  BY <1>0, LeadFacts
    <3> QED  BY <3>1, <3>2
  <2>3. CharHere = Here.lead[1]  BY <2>2 DEF CharHere
  <2> QED  BY <1>0, <1>2, <1>3, <2>1, <2>2, <2>3
<1>5. CASE CharHere # "none" /\ indent_char # "none" /\ indent_char # CharHere
  <2>1. Here.lead # <<>> /\ CharHere = Here.lead[1]  BY <1>5 DEF CharHere
  <2>2. CharHere = c  BY <1>0, <1>3, <2>1
  <2>3. CharsTo(Reached, indent_char)  BY DEF CharRule
  <2>4. PICK i \in 1..Len(Lines) : Lines[i].lead # <<>> /\ Lines[i].lead[1] = indent_char
    BY <1>5, <2>3 DEF CharsTo
  <2> QED  BY <1>3, <1>5, <2>2, <2>4
<1> QED  BY <1>4, <1>5 DEF Mixed

LEMMA LevelWidths ==
    ASSUME NEW l, Begins(l), NEW h \in Logicals, NestsAt(h),
           NEW p \in 1..(Len(indent_stack) - 1), indent_stack[p] < Width, Width < indent_stack[p + 1]
    PROVE  \E b \in Logicals : WidthOf(b) = indent_stack[p + 1] /\ Up(b) = Up(l)
<1>0. /\ LexInv /\ Balance /\ source \in Sources /\ WidthOf(l) = Width /\ Width \in Nat
      /\ Rising(indent_stack) /\ Len(indent_stack) \in Nat
      /\ \A i \in 1..Len(indent_stack) : indent_stack[i] \in Nat
  BY BeginsFacts DEF Begins, LexInv
<1>1. p \in 1..Len(indent_stack) /\ p + 1 \in 1..Len(indent_stack)  BY <1>0
<1>2. PICK b \in Anc(h) \cup {h} : WidthOf(b) = indent_stack[p + 1]  BY <1>0, <1>1, StackOf
<1>3. Anc(l) = {j \in Anc(h) \cup {h} : WidthOf(j) < WidthOf(l)}  BY Previous
<1>4. b \in Logicals /\ Anc(b) = {j \in Anc(h) \cup {h} : WidthOf(j) < WidthOf(b)}
  BY <1>0, Narrower
<1>5. ASSUME NEW j \in Anc(h) \cup {h} PROVE WidthOf(j) < WidthOf(l) <=> WidthOf(j) < WidthOf(b)
  <2>1. PICK q \in 1..Len(indent_stack) : WidthOf(j) = indent_stack[q]  BY <1>0, <1>5, StackOf
  <2>2. indent_stack[q] \in Nat /\ indent_stack[p] \in Nat /\ indent_stack[p + 1] \in Nat
    BY <1>0, <1>1, <2>1
  <2>3. \A x, y \in 1..Len(indent_stack) : x < y => indent_stack[x] < indent_stack[y]
    <3>1. DOMAIN indent_stack = 1..Len(indent_stack)  BY <1>0 DEF Rising
    <3> QED  BY <1>0, <3>1 DEF Rising
  <2>4. CASE q <= p
    <3>1. indent_stack[q] <= indent_stack[p]
      <4>1. CASE q = p  BY <2>2, <4>1
      <4>2. CASE q < p  BY <1>0, <1>1, <2>1, <2>2, <2>3, <4>2
      <4> QED  BY <2>4, <4>1, <4>2
    <3> QED  BY <1>0, <1>2, <2>1, <2>2, <3>1
  <2>5. CASE p + 1 <= q
    <3>1. indent_stack[p + 1] <= indent_stack[q]
      <4>1. CASE q = p + 1  BY <2>2, <4>1
      <4>2. CASE p + 1 < q  BY <1>0, <1>1, <2>1, <2>2, <2>3, <4>2
      <4> QED  BY <2>5, <4>1, <4>2
    <3> QED  BY <1>0, <1>2, <2>1, <2>2, <3>1
  <2> QED  BY <1>0, <1>1, <2>1, <2>4, <2>5
<1>6. Anc(l) = Anc(b)  BY <1>3, <1>4, <1>5
<1> QED  BY <1>2, <1>4, <1>6 DEF Up

LEMMA ChildDeeper ==
    ASSUME NEW l, Begins(l), NEW h \in Logicals, NestsAt(h), HasChild(h)
    PROVE  WidthOf(h) < WidthOf(l)
<1>0. source \in Sources /\ l \in Logicals  BY BeginsFacts DEF Begins, LexInv
<1>1. \A j \in Logicals : j \in Nat /\ j > 0  BY <1>0, LogicalFacts
<1>2. PICK c \in Logicals : Up(c) = h  BY DEF HasChild
<1>3. h < c  BY <1>0, <1>2, UpFacts
<1>4. h < l /\ \A j \in Logicals : j < l => j <= h  BY Previous
<1>5. l <= c  BY <1>0, <1>1, <1>2, <1>3, <1>4
<1>6. h \in Anc(c)
  <2>1. Anc(c) \in SUBSET Nat  BY <1>1 DEF Anc
  <2>2. \A j \in {0} \cup Anc(c) : j \in Nat /\ j <= c  BY <1>1, <1>2 DEF Anc
  <2>3. {0} \cup Anc(c) \in SUBSET Nat /\ {0} \cup Anc(c) # {} /\ c \in Nat  BY <1>1, <2>2
  <2>4. Max({0} \cup Anc(c)) \in {0} \cup Anc(c)
    <3> DEFINE S == {0} \cup Anc(c)
    <3>1. S \in SUBSET Nat /\ S # {} /\ \A j \in S : j <= c  BY <2>2, <2>3
    <3> HIDE DEF S
    <3>2. Max(S) \in S  BY <2>3, <3>1, Greatest
    <3> QED  BY <3>2 DEF S
  <2>5. h \in {0} \cup Anc(c)  BY <1>2, <2>4 DEF Up
  <2> QED  BY <1>1, <2>5
<1>7. l \in (h + 1)..c  BY <1>0, <1>1, <1>2, <1>4, <1>5
<1> QED  BY <1>0, <1>6, <1>7 DEF Anc

LEMMA ErrorMeans ==
    ASSUME NestInv, LayInv, TextRule, EdgeRule, AfterRule, CharRule, ~Surplus, lexed = "no",
           LexNext, lexed' \notin {"no", "yes"}
    PROVE  ~Good
<1> SUFFICES ASSUME Good PROVE FALSE
  OBVIOUS
<1>0. /\ LexInv /\ Place /\ DepthRight /\ Balance /\ Nests /\ StartsRight /\ source \in Sources
  BY DEF NestInv, LexInv, LayInv
<1>1. MixedLine \/ Deeper \/ Shallower \/ SameLevel
  BY DEF LexNext, BlankLine, Continued, Scan, Newline, EndOfSource
<1>2. ~MixedLine
  <2>1. MixedLine => ~OneChar  BY <1>0, MixedMeans DEF MixedLine
  <2> QED  BY <2>1 DEF Good
<1>3. LogicalStart  BY <1>1, <1>2 DEF Deeper, Shallower, SameLevel
<1>4. /\ Begins(line) /\ at_line_start /\ bracket_depth = 0
  BY <1>0, <1>3 DEF Begins, LogicalStart, AtLineStart
<1>5. /\ line \in Logicals /\ WidthOf(line) = Width /\ Width \in Nat
      /\ Len(indent_stack) \in Nat /\ Len(indent_stack) >= 1
      /\ Last(indent_stack) = indent_stack[Len(indent_stack)]
      /\ \A i \in 1..Len(indent_stack) : indent_stack[i] \in Nat
  BY <1>4, BeginsFacts
<1>6. GoodWidth(line) /\ \A i \in Logicals : GoodLine(i)  BY <1>5 DEF Good
<1>7. CASE Unopened
  <2>1. Up(line) = 0 /\ Last(indent_stack) = 0  BY <1>4, <1>7, FirstLine
  <2>2. WidthOf(line) = 0  BY <1>6, <2>1 DEF GoodWidth
  <2>3. Len(indent_stack) = 1 /\ ~after_colon  BY <1>7 DEF Unopened
  <2>4. ~Shallower  BY <2>3 DEF Shallower
  <2>5. ~Deeper  BY <1>5, <2>1, <2>2 DEF Deeper
  <2>6. ~SameLevel  BY <2>3 DEF SameLevel
  <2> QED  BY <1>1, <1>2, <2>4, <2>5, <2>6
<1>8. ASSUME NEW h \in Logicals, NestsAt(h) PROVE FALSE
  <2>1. Newest(h) /\ WidthOf(h) = Last(indent_stack)  BY <1>8 DEF NestsAt
  <2>2. after_colon <=> Colon(h)  BY <1>0, <1>4, <2>1, LastLine
  <2>3. Colon(h) <=> HasChild(h)  BY <1>6 DEF GoodLine
  <2>4. CASE Deeper
    <3>1. ~after_colon /\ Width > Last(indent_stack)  BY <2>4 DEF Deeper
    <3>2. Up(line) = h  BY <1>4, <1>8, <3>1, Deepest
    <3> QED  BY <1>5, <2>2, <2>3, <3>1, <3>2 DEF HasChild
  <2>5. CASE SameLevel
    <3>1. after_colon /\ Width = Last(indent_stack)  BY <2>5 DEF SameLevel
    <3>2. WidthOf(h) < WidthOf(line)  BY <1>4, <1>8, <2>2, <2>3, <3>1, ChildDeeper
    <3> QED  BY <1>5, <2>1, <3>1, <3>2
  <2>6. CASE Shallower
    <3>1. PICK p \in 1..(Len(indent_stack) - 1) :
            /\ Width < Last(indent_stack) /\ PopsTo(p)
            /\ IF indent_stack[p] = Width THEN UNCHANGED lexed ELSE Fail("InconsistentDedent")
      BY <2>6 DEF Shallower
    <3>2. indent_stack[p] # Width  BY <3>1
    <3>3. p \in 1..Len(indent_stack) /\ p + 1 \in 1..Len(indent_stack)  BY <1>5, <3>1
    <3>4. indent_stack[p] < Width  BY <1>5, <3>1, <3>2, <3>3 DEF PopsTo
    <3>5. Width < indent_stack[p + 1]
      <4>1. CASE p + 1 = Len(indent_stack)  BY <1>5, <3>1, <4>1
      <4>2. CASE p + 1 # Len(indent_stack)
        <5>1. p + 1 \in (p + 1)..(Len(indent_stack) - 1)  BY <1>5, <3>1, <4>2
        <5>2. indent_stack[p + 1] > Width  BY <3>1, <5>1 DEF PopsTo
        <5> QED  BY <1>5, <3>3, <5>2
      <4> QED  BY <4>1, <4>2
    <3>6. PICK b \in Logicals : WidthOf(b) = indent_stack[p + 1] /\ Up(b) = Up(line)
      BY <1>4, <1>8, <3>1, <3>4, <3>5, LevelWidths
    <3>7. indent_stack[p] \in Nat /\ indent_stack[p + 1] \in Nat  BY <1>5, <3>3
    <3>8. CASE Up(line) = 0
      <4>1. WidthOf(line) = 0  BY <1>6, <3>8 DEF GoodWidth
      <4> QED  BY <1>5, <3>4, <3>7, <4>1
    <3>9. CASE Up(line) # 0
      <4>1. WidthOf(b) = WidthOf(line)  BY <1>6, <3>6, <3>9 DEF GoodWidth
      <4> QED  BY <1>5, <3>5, <3>6, <3>7, <4>1
    <3> QED  BY <3>8, <3>9
  <2> QED  BY <1>1, <1>2, <2>4, <2>5, <2>6
<1> QED  BY <1>0, <1>7, <1>8 DEF Nests

-------------------------------------------------------------------------------
(* The lexer reads well-formed lines to their end, with no bracket open.     *)
FairRule == Good => /\ lexed \in {"no", "yes"} /\ ~Surplus
                    /\ lexed = "yes" => bracket_depth = 0

LEMMA LevelInt ==
    ASSUME NEW S, NEW s \in Seq(S), NEW n \in 0..Len(s)
    PROVE  Level(s, n) \in Int
<1>0. n \in Nat  OBVIOUS
<1>1. ASSUME NEW kind PROVE Count(SubSeq(s, 1, n), kind) \in Nat
  <2>1. Count(SubSeq(s, 1, n), kind) = Upto(s, n, kind)  BY CountIsUpto
  <2> QED  BY <1>0, <2>1, UptoFinite
<1>2. Count(SubSeq(s, 1, n), "open") \in Nat /\ Count(SubSeq(s, 1, n), "close") \in Nat  BY <1>1
<1> QED  BY <1>2 DEF Level

LEMMA StepKeepsFair ==
    ASSUME NestInv, LayInv, TextRule, EdgeRule, AfterRule, CharRule, FairRule, lexed = "no", LexNext
    PROVE  FairRule'
<1>0. /\ LexInv /\ Place /\ DepthRight /\ Balance /\ TailRule /\ source \in Sources /\ line \in Nat
      /\ at_line_start \in BOOLEAN
  BY DEF NestInv, LexInv, LexTypeOK, LayInv
<1>1. source' = source  BY <1>0, StepAdds
<1> SUFFICES ASSUME Good
             PROVE  lexed' \in {"no", "yes"} /\ ~Surplus' /\ (lexed' = "yes" => bracket_depth' = 0)
  BY <1>1, GoodPrimed DEF FairRule
<1>2. ~Surplus  BY DEF FairRule
<1>3. lexed' \in {"no", "yes"}  BY <1>2, ErrorMeans
<1>4. line' \in {line, line + 1} /\ (line' = line + 1 => ~AtEnd)
  <2>1. CASE Scan  BY <1>0, <2>1, ScanAdds
  <2>2. CASE ~Scan
    <3>1. line' = line \/ (line' = line + 1 /\ ~AtEnd)  BY <1>0, <2>2, StepPlaces
    <3> QED  BY <1>0, <3>1
  <2> QED  BY <2>1, <2>2
<1>5. ~Surplus'
  <2> SUFFICES ASSUME Surplus' PROVE FALSE
    OBVIOUS
  <2>1. /\ line' = line + 1
        /\ \E n \in DOMAIN Lines[line].text : DepthBefore(line) + Level(Lines[line].text, n) < 0
    BY <1>0, <1>1, <1>2, <1>4, SurplusComes
  <2>2. line \in 1..Len(Lines) /\ Lines[line].text \in Seq(TextKinds) /\ DepthBefore(line) \in Int
    BY <1>0, <1>4, <2>1, StartFacts
  <2>3. PICK n \in DOMAIN Lines[line].text : DepthBefore(line) + Level(Lines[line].text, n) < 0
    BY <2>1
  <2>4. n \in 1..Len(Lines[line].text)  BY <2>2
  <2>5. DepthBefore(line) + Level(Lines[line].text, n) >= 0  BY <1>0, <2>2, <2>4, GoodEven
  <2>6. Level(Lines[line].text, n) \in Int  BY <2>2, <2>4, LevelInt
  <2> QED  BY <2>2, <2>3, <2>5, <2>6
<1>6. ASSUME lexed' = "yes" PROVE bracket_depth' = 0
  <2>1. EndOfSource  BY <1>0, <1>6, StepAdds
  <2>2. bracket_depth' = bracket_depth /\ Exhausted  BY <2>1 DEF EndOfSource
  <2>3. DepthBefore(Len(Lines) + 1) = 0  BY <1>0, GoodEven
  <2>4. CASE at_line_start
    <3>1. line = Len(Lines) + 1
      BY <1>0, <2>2, <2>4, LineFacts DEF Exhausted, AtEnd, Place, Lines
    <3> QED  BY <1>0, <1>2, <2>2, <2>3, <2>4, <3>1 DEF DepthRight
  <2>5. CASE ~at_line_start
    <3>1. line <= Len(Lines) /\ col <= Len(Lines[line].text) + 1  BY <1>0, <2>5 DEF Place
    <3>2. ~AtEnd  BY <1>0, <3>1, LineFacts DEF AtEnd, Lines
    <3>3. col > Len(Here.text) /\ ~LineBreak  BY <2>2, <3>2 DEF Exhausted
    <3>4. line \in 1..Len(Lines) /\ Len(Lines) \in Nat /\ Here = Lines[line] /\ Here.text \in Seq(TextKinds)
          /\ Len(Here.text) \in Nat
      BY <1>0, <3>2, StartFacts
    <3>5. line = Len(Lines)
      <4>1. ~(line < Len(Lines))  BY <3>3 DEF LineBreak, Lines
      <4> QED  BY <3>4, <4>1
    <3>6. col - 1 = Len(Lines[line].text)
      <4>1. col \in Nat  BY <1>0 DEF LexInv, LexTypeOK
      <4> QED  BY <3>1, <3>3, <3>4, <4>1
    <3>7. \A n \in 1..(col - 1) : DepthBefore(line) + Level(Lines[line].text, n) >= 0
      BY <1>0, <3>4, <3>6, GoodEven
    <3>8. bracket_depth = DepthBefore(line) + Level(Lines[line].text, col - 1)
      BY <1>0, <1>2, <2>5, <3>7 DEF DepthRight
    <3>9. DepthBefore(line + 1) = DepthBefore(line) + Level(Lines[line].text, Len(Lines[line].text))
      BY <1>0, <3>4, DepthStep
    <3> QED  BY <2>2, <2>3, <3>5, <3>6, <3>8, <3>9
  <2> QED  BY <2>4, <2>5
<1> QED  BY <1>3, <1>5, <1>6

ReadInv == /\ EdgeRule /\ AfterRule /\ OrderRule /\ TextRule
           /\ WidthRule /\ CharRule /\ EndRule /\ FairRule

LEMMA InitReadInv == LexInit => ReadInv
<1> SUFFICES ASSUME LexInit PROVE ReadInv
  OBVIOUS
<1>1. /\ source \in Sources /\ line = 1 /\ col = 1 /\ tokens = <<>> /\ bracket_depth = 0
      /\ at_line_start = TRUE /\ lexed = "no" /\ after_colon = FALSE /\ indent_char = "none"
  BY DEF LexInit
<1>2. Len(tokens) = 0 /\ (\A k \in 1..Len(tokens) : FALSE)  BY <1>1
<1>3. EdgeRule /\ AfterRule  BY <1>1, <1>2 DEF EdgeRule, AfterRule
<1>4. OrderRule  BY <1>2 DEF OrderRule
<1>5. Starts(tokens) = {}  BY <1>2 DEF Starts
<1>6. TextRule  BY <1>5 DEF TextRule
<1>7. Reached = 0  BY <1>1 DEF Reached
<1>8. \A i \in Logicals : ~(i <= 0)  BY <1>1, LogicalFacts
<1>9. WidthRule  BY <1>7, <1>8 DEF WidthRule, WidthsTo
<1>10. CharRule  BY <1>1, <1>7 DEF CharRule, CharsTo
<1>11. ~Surplus  BY <1>1 DEF Surplus
<1> QED  BY <1>1, <1>3, <1>4, <1>6, <1>9, <1>10, <1>11 DEF ReadInv, EndRule, FairRule

LEMMA StepKeepsReadInv ==
    NestInv /\ NestInv' /\ LayInv /\ LayInv' /\ ReadInv /\ [LexNext]_lexVars => ReadInv'
<1> SUFFICES ASSUME NestInv, NestInv', LayInv, LayInv', ReadInv, [LexNext]_lexVars PROVE ReadInv'
  OBVIOUS
<1>1. CASE LexNext
  <2>1. lexed = "no"
    BY <1>1 DEF LexNext, MixedLine, BlankLine, Continued, Deeper, Shallower, SameLevel,
                LogicalStart, AtLineStart, Scan, Newline, InLine, EndOfSource
  <2>2. /\ LexInv /\ Balance /\ Place /\ TailRule /\ EofLast
        /\ EdgeRule /\ AfterRule /\ OrderRule /\ TextRule /\ WidthRule /\ CharRule /\ EndRule /\ FairRule
    BY <2>1 DEF NestInv, LayInv, ReadInv
  <2>3. EdgeRule'  BY <1>1, <2>1, <2>2, StepKeepsEdge
  <2>4. AfterRule'
    <3>1. lexed' = "no" /\ at_line_start' /\ bracket_depth' = 0 =>
            IF Len(tokens') = 0 THEN ~after_colon'
            ELSE /\ Len(tokens') > 1 /\ tokens'[Len(tokens')].kind = "newline"
                 /\ after_colon' <=> tokens'[Len(tokens') - 1].kind = "colon"
      BY <1>1, <2>1, <2>2, StepKeepsAfter
    <3> QED  BY <3>1 DEF AfterRule
  <2>5. OrderRule'
    <3>1. lexed' \in {"no", "yes"} => OrderRule'  BY <1>1, <2>1, <2>2, StepKeepsOrder
    <3> QED  BY <3>1 DEF OrderRule
  <2>6. TextRule'  BY <1>1, <2>1, <2>2, StepKeepsText
  <2>7. WidthRule'
    <3>1. lexed' \in {"no", "yes"} /\ ~Surplus' => WidthsTo(Reached')
      BY <1>1, <2>1, <2>2, StepKeepsWidths
    <3>2. source' = source  BY <1>1, <2>1, <2>2, StepAdds
    <3>3. Logicals' = Logicals /\ \A i : WidthOf(i)' = WidthOf(i) /\ Anc(i)' = Anc(i)
      BY <3>2, LinesStay
    <3>4. \A i : Up(i)' = Up(i)  BY <3>3 DEF Up
    <3> QED  BY <3>1, <3>3, <3>4 DEF WidthRule, WidthsTo
  <2>8. CharRule'
    <3>1. lexed' \in {"no", "yes"} => CharRule'  BY <1>1, <2>1, <2>2, StepKeepsChars
    <3> QED  BY <3>1 DEF CharRule
  <2>9. EndRule'
    <3>1. lexed' \in {"no", "yes"} => EndRule'  BY <1>1, <2>1, <2>2, StepKeepsEnd
    <3> QED  BY <3>1 DEF EndRule
  <2>10. FairRule'  BY <1>1, <2>1, <2>2, StepKeepsFair
  <2> QED  BY <2>3, <2>4, <2>5, <2>6, <2>7, <2>8, <2>9, <2>10 DEF ReadInv
<1>2. CASE UNCHANGED lexVars
  <2>0. UNCHANGED <<source, line, col, tokens, indent_stack, bracket_depth, at_line_start,
                    after_colon, indent_char, lexed>>
    BY <1>2 DEF lexVars
  <2>1. /\ Lines' = Lines /\ Logicals' = Logicals
        /\ \A i : DepthBefore(i)' = DepthBefore(i) /\ WidthOf(i)' = WidthOf(i) /\ Anc(i)' = Anc(i)
        /\ \A i : TextOf(i)' = TextOf(i)
        /\ \A i, j : TextFrom(i, j)' = TextFrom(i, j)
    BY <2>0, LinesStay, TextStays
  <2>2. Surplus' = Surplus  BY <2>0, <2>1 DEF Surplus
  <2>3. \A i : Up(i)' = Up(i)  BY <2>1 DEF Up
  <2>4. Reached' = Reached  BY <2>0 DEF Reached
  <2>5. EdgeRule' /\ AfterRule' /\ OrderRule'
    BY <2>0 DEF ReadInv, EdgeRule, AfterRule, OrderRule
  <2>6. TextRule'
    <3>1. TextRule' <=>
            (lexed' \in {"no", "yes"} /\ (lexed' = "yes" => bracket_depth' = 0) /\ ~Surplus' =>
              \A k \in Starts(tokens') :
                \/ Finished(tokens', k)
                \/ /\ lexed' = "no" /\ LastUpTo(tokens'[k].line, Reached') /\ (at_line_start' => bracket_depth' > 0)
                   /\ AtTail(tokens', k, ReadAt(tokens'[k].line, line', col', at_line_start')))
      BY <2>0, TextPrimed
    <3> QED  BY <2>0, <2>2, <2>4, <3>1 DEF ReadInv, TextRule, Unfinished, Newest, LastUpTo
  <2>7. WidthRule'  BY <2>0, <2>1, <2>2, <2>3, <2>4 DEF ReadInv, WidthRule, WidthsTo
  <2>8. CharRule' /\ EndRule'  BY <2>0, <2>1, <2>4 DEF ReadInv, CharRule, CharsTo, EndRule
  <2>9. FairRule'  BY <2>0, <2>2, GoodPrimed DEF ReadInv, FairRule
  <2> QED  BY <2>5, <2>6, <2>7, <2>8, <2>9 DEF ReadInv
<1> QED  BY <1>1, <1>2

LEMMA ReadInvHolds == LexSpec => [](NestInv /\ LayInv /\ ReadInv)
<1>1. LexInit => NestInv /\ LayInv /\ ReadInv  BY InitNests, InitLayInv, InitReadInv
<1>2. (NestInv /\ LayInv /\ ReadInv) /\ [LexNext]_lexVars => (NestInv /\ LayInv /\ ReadInv)'
  BY StepKeepsNestInv, StepKeepsLayInv, StepKeepsReadInv
<1> QED  BY <1>1, <1>2, PTL DEF LexSpec

-------------------------------------------------------------------------------
(* The tokens of whole lines: each logical line's text, a NEWLINE behind it. *)
Written ==
    /\ Laid /\ EdgeRule
    /\ \A k \in Starts(tokens) : Finished(tokens, k)
    /\ \A j, k \in 1..Len(tokens) : j < k =>
         /\ tokens[j].line <= tokens[k].line
         /\ k \in Starts(tokens) /\ IsText(tokens[j]) => tokens[j].line < tokens[k].line
Stop(k) == k + Len(TextOf(tokens[k].line))

LEMMA LineIs ==
    ASSUME Written, NEW k \in Starts(tokens), NEW s, s = TextOf(tokens[k].line)
    PROVE  /\ Laid /\ Ended /\ source \in Sources /\ tokens \in Seq(Tokens) /\ Len(tokens) \in Nat
           /\ k \in Nat /\ k \in 1..Len(tokens) /\ tokens[k].line \in Logicals
           /\ s \in Seq(TextKinds) /\ Len(s) \in Nat /\ Len(s) >= 1 /\ Stop(k) = k + Len(s)
           /\ Stop(k) \in Nat /\ k < Stop(k) /\ Stop(k) < Len(tokens)
           /\ \A x \in k..(Stop(k) - 1) : IsText(tokens[x]) /\ tokens[x].kind = s[x - k + 1]
           /\ tokens[k].kind = s[1]
           /\ tokens[Stop(k)].kind = "newline" /\ ~IsText(tokens[Stop(k)])
           /\ IsLine(k, Stop(k))
<1>1. Laid /\ Finished(tokens, k)  BY DEF Written
<1>2. Ended /\ source \in Sources /\ tokens \in Seq(Tokens)  BY <1>1 DEF Laid, Ended
<1>3. Len(tokens) \in Nat /\ tokens[Len(tokens)].kind = "eof"  BY <1>2, EndedFacts
<1>4. k \in Nat /\ k \in 1..Len(tokens) /\ tokens[k].line \in Logicals  BY <1>1, StartLine
<1>5. s \in Seq(TextKinds) /\ Len(s) \in Nat /\ Len(s) >= 1 /\ Stop(k) = k + Len(s)
      /\ \A n \in 1..Len(s) : s[n] \in TextKinds
  BY <1>2, <1>4, TextFacts DEF Stop
<1>6. /\ \A n \in 1..Len(s) : tokens[k + n - 1].kind = s[n]
      /\ Stop(k) <= Len(tokens) /\ tokens[Stop(k)].kind = "newline"
  BY <1>1, <1>5 DEF Finished, RunIs
<1>7. Stop(k) \in Nat /\ k < Stop(k) /\ Stop(k) < Len(tokens)
  <2>1. Stop(k) # Len(tokens)  BY <1>3, <1>6
  <2> QED  BY <1>3, <1>4, <1>5, <1>6, <2>1
<1>8. \A x \in k..(Stop(k) - 1) : IsText(tokens[x]) /\ tokens[x].kind = s[x - k + 1]
  <2> TAKE x \in k..(Stop(k) - 1)
  <2>1. x - k + 1 \in 1..Len(s) /\ k + (x - k + 1) - 1 = x  BY <1>4, <1>5
  <2>2. tokens[x].kind = s[x - k + 1] /\ s[x - k + 1] \in TextKinds  BY <1>5, <1>6, <2>1
  <2> QED  BY <2>2 DEF IsText, TextKinds
<1>9. tokens[k].kind = s[1]
  <2>1. 1 \in 1..Len(s) /\ k + 1 - 1 = k  BY <1>4, <1>5
  <2> QED  BY <1>6, <2>1
<1>10. ~IsText(tokens[Stop(k)])  BY <1>6 DEF IsText, LayoutKinds
<1>11. IsLine(k, Stop(k))  BY <1>7, <1>8 DEF IsLine
<1> QED  BY <1>1, <1>2, <1>3, <1>4, <1>5, <1>6, <1>7, <1>8, <1>9, <1>10, <1>11

LEMMA StopIs ==
    ASSUME Written, NEW k \in Starts(tokens), NEW q \in Nat, k <= q, q <= Len(tokens),
           \A x \in k..(q - 1) : IsText(tokens[x])
    PROVE  q <= Stop(k) /\ (~IsText(tokens[q]) => q = Stop(k))
<1>1. /\ k \in Nat /\ Stop(k) \in Nat /\ k < Stop(k) /\ ~IsText(tokens[Stop(k)])
      /\ \A x \in k..(Stop(k) - 1) : IsText(tokens[x])
  BY LineIs
<1>2. q <= Stop(k)
  <2> SUFFICES ASSUME Stop(k) < q PROVE FALSE
    BY <1>1
  <2>1. Stop(k) \in k..(q - 1)  BY <1>1
  <2> QED  BY <1>1, <2>1
<1>3. ASSUME ~IsText(tokens[q]) PROVE q = Stop(k)
  <2> SUFFICES ASSUME q < Stop(k) PROVE FALSE
    BY <1>1, <1>2
  <2>1. q \in k..(Stop(k) - 1)  BY <1>1
  <2> QED  BY <1>1, <1>3, <2>1
<1> QED  BY <1>2, <1>3

LEMMA SliceIs ==
    ASSUME Written, NEW k \in Starts(tokens), NEW p \in k..Stop(k), NEW q \in p..Stop(k)
    PROVE  KindsOf(SubSeq(tokens, p, q - 1)) = SubSeq(TextOf(tokens[k].line), p - k + 1, q - k)
<1> DEFINE s == TextOf(tokens[k].line)
           r == SubSeq(tokens, p, q - 1)
           n == q - p
           t == SubSeq(s, p - k + 1, q - k)
<1>1. /\ tokens \in Seq(Tokens) /\ Len(tokens) \in Nat /\ k \in Nat /\ k \in 1..Len(tokens)
      /\ s \in Seq(TextKinds) /\ Len(s) \in Nat /\ Stop(k) = k + Len(s)
      /\ Stop(k) \in Nat /\ Stop(k) < Len(tokens)
      /\ \A x \in k..(Stop(k) - 1) : tokens[x].kind = s[x - k + 1]
  BY LineIs
<1> HIDE DEF s
<1>2. p \in Nat /\ q \in Nat /\ n \in Nat /\ k <= p /\ p <= q /\ q <= Stop(k) /\ p \in 1..Len(tokens)
  BY <1>1
<1>3. DOMAIN r = 1..n /\ \A i \in 1..n : r[i] = tokens[p + i - 1]
  BY <1>1, <1>2
<1>4. DOMAIN t = 1..n /\ \A i \in 1..n : t[i] = s[(p - k + 1) + i - 1]
  <2>1. p - k + 1 \in 1..(Len(s) + 1) /\ q - k \in 0..Len(s) /\ (q - k) - (p - k + 1) + 1 = n
        /\ p - k + 1 \in Nat /\ q - k \in Nat
    BY <1>1, <1>2
  <2> QED  BY <1>1, <1>2, <2>1
<1>a. t \in Seq(TextKinds) /\ Len(t) = n
  <2>1. p - k + 1 \in 1..(Len(s) + 1) /\ q - k \in 0..Len(s) /\ (q - k) - (p - k + 1) + 1 = n
        /\ p - k + 1 \in Nat /\ q - k \in Nat
    BY <1>1, <1>2
  <2> QED  BY <1>1, <1>2, <2>1
<1>5. \A i \in 1..n : tokens[p + i - 1].kind = s[(p - k + 1) + i - 1]
  <2> TAKE i \in 1..n
  <2>1. p + i - 1 \in k..(Stop(k) - 1) /\ (p + i - 1) - k + 1 = (p - k + 1) + i - 1  BY <1>1, <1>2
  <2> QED  BY <1>1, <2>1
<1>6. KindsOf(r) = [i \in 1..n |-> r[i].kind]  BY <1>3 DEF KindsOf
<1>7. t = [i \in 1..n |-> t[i]]
  <2> HIDE DEF t, n
  <2>1. t \in [1..n -> TextKinds]  BY <1>a, <1>2
  <2> QED  BY <2>1
<1>8. \A i \in 1..n : r[i].kind = t[i]  BY <1>3, <1>4, <1>5
<1> HIDE DEF r, t, n
<1>9. KindsOf(r) = t  BY <1>6, <1>7, <1>8
<1> QED  BY <1>9 DEF r, t, s

-------------------------------------------------------------------------------
(* Expressions of a line and of its tokens.                                  *)
ExprKinds == {"word", "open", "close"}

LEMMA SliceKinds ==
    ASSUME NEW s \in Seq(TextKinds), NEW a \in Nat, a >= 1, NEW b \in Nat, a <= b, b <= Len(s),
           IsExpr(SubSeq(s, a, b))
    PROVE  s[a] \in {"word", "open"} /\ \A n \in a..b : s[n] \in ExprKinds
<1> DEFINE t == SubSeq(s, a, b)
           m == b - a + 1
<1>1. m \in Nat /\ m >= 1 /\ Len(t) = m /\ \A n \in 1..m : t[n] = s[a + n - 1]
  OBVIOUS
<1>2. t[1] \in {"word", "open"} /\ \A n \in 2..m : Follows(t, n)
  <2>1. IsExpr(t)  OBVIOUS
  <2> HIDE DEF t
  <2> QED  BY <1>1, <2>1 DEF IsExpr
<1> HIDE DEF t, m
<1>3. \A n \in 1..m : t[n] \in ExprKinds
  <2> TAKE n \in 1..m
  <2>1. CASE n = 1  BY <1>2, <2>1 DEF ExprKinds
  <2>2. CASE n # 1
    <3>1. n \in 2..m  BY <1>1, <2>2
    <3> QED  BY <1>2, <3>1 DEF Follows, ExprKinds
  <2> QED  BY <2>1, <2>2
<1>4. s[a] = t[1]
  <2>1. 1 \in 1..m /\ a + 1 - 1 = a  BY <1>1
  <2> QED  BY <1>1, <2>1
<1>5. \A n \in a..b : s[n] \in ExprKinds
  <2> TAKE n \in a..b
  <2>1. n - a + 1 \in 1..m /\ a + (n - a + 1) - 1 = n  BY DEF m
  <2>2. s[n] = t[n - a + 1]  BY <1>1, <2>1
  <2> QED  BY <1>3, <2>1, <2>2
<1> QED  BY <1>2, <1>4, <1>5

LEMMA ExprFound ==
    ASSUME Written, NEW k \in Starts(tokens), NEW p \in k..Stop(k), Clear(p), AfterExpr(p) > p
    PROVE  /\ AfterExpr(p) \in Nat /\ AfterExpr(p) <= Stop(k)
           /\ IsExpr(SubSeq(TextOf(tokens[k].line), p - k + 1, AfterExpr(p) - k))
           /\ \A x \in k..(AfterExpr(p) - 1) : IsText(tokens[x])
<1> DEFINE q == AfterExpr(p)
<1>1. /\ Ended /\ Len(tokens) \in Nat /\ k \in Nat /\ k \in 1..Len(tokens)
      /\ Stop(k) \in Nat /\ Stop(k) < Len(tokens)
      /\ \A x \in k..(Stop(k) - 1) : IsText(tokens[x])
  BY LineIs
<1>2. p \in 1..Len(tokens) /\ p \in Nat /\ k <= p /\ p <= Stop(k)  BY <1>1
<1>3. /\ q \in Nat /\ q <= Len(tokens) /\ \A x \in p..(q - 1) : IsText(tokens[x])
  BY <1>1, <1>2, ExprRead
<1>4. IsExpr(KindsOf(SubSeq(tokens, p, q - 1)))  BY <1>1, <1>2, AfterIs
<1>5. p < q  OBVIOUS
<1> HIDE DEF q
<1>6. \A x \in k..(q - 1) : IsText(tokens[x])
  <2>1. \A x \in k..(q - 1) : x \in k..(Stop(k) - 1) \/ x \in p..(q - 1)  BY <1>1, <1>2, <1>3
  <2> QED  BY <1>1, <1>3, <2>1
<1>7. q <= Stop(k)
  <2>1. k <= q  BY <1>2, <1>3, <1>5, <1>1
  <2> QED  BY <1>3, <1>6, <2>1, StopIs
<1>8. q \in p..Stop(k)  BY <1>1, <1>2, <1>3, <1>5, <1>7
<1>9. KindsOf(SubSeq(tokens, p, q - 1)) = SubSeq(TextOf(tokens[k].line), p - k + 1, q - k)
  BY <1>8, SliceIs
<1> QED  BY <1>3, <1>4, <1>6, <1>7, <1>9 DEF q

LEMMA ExprStops ==
    ASSUME Written, NEW k \in Starts(tokens), NEW s, s = TextOf(tokens[k].line),
           NEW a \in Nat, a >= 1, NEW b \in Nat, a <= b, b <= Len(s), IsExpr(SubSeq(s, a, b)),
           b = Len(s) \/ s[b + 1] \notin ExprKinds,
           NEW p, p = k + a - 1
    PROVE  AfterExpr(p) = k + b /\ p < k + b
<1> DEFINE q == k + b
           E == {x \in p..Len(tokens) : At(x).kind \notin {"word", "open", "close"}}
           X == {x \in p..ExprEnds(p) : IsExpr(KindsOf(SubSeq(tokens, p, x - 1)))}
           S == {p} \cup X
<1>1. /\ Ended /\ Len(tokens) \in Nat /\ k \in Nat /\ k >= 1
      /\ s \in Seq(TextKinds) /\ Len(s) \in Nat /\ Stop(k) = k + Len(s)
      /\ Stop(k) \in Nat /\ Stop(k) < Len(tokens)
      /\ \A x \in k..(Stop(k) - 1) : tokens[x].kind = s[x - k + 1]
      /\ tokens[Stop(k)].kind = "newline"
  BY SMTT(30), LineIs
<1>2. p \in Nat /\ q \in Nat /\ p \in k..Stop(k) /\ q \in p..Stop(k) /\ p >= 1 /\ p < q /\ q < Len(tokens)
      /\ q - k = b /\ p - k + 1 = a
  BY <1>1
<1>3. \A n \in a..b : s[n] \in ExprKinds  BY <1>1, SliceKinds
<1>4. q \in E
  <2>1. At(q) = tokens[q]  BY <1>1, <1>2, AtIs
  <2>2. tokens[q].kind \notin ExprKinds
    <3>1. CASE b = Len(s)
      <4>1. q = Stop(k)  BY <1>1, <3>1
      <4> QED  BY <1>1, <4>1 DEF ExprKinds
    <3>2. CASE b # Len(s)
      <4>1. q \in k..(Stop(k) - 1) /\ q - k + 1 = b + 1  BY <1>1, <1>2, <3>2
      <4>2. tokens[q].kind = s[b + 1]  BY <1>1, <4>1
      <4> QED  BY <3>2, <4>2
    <3> QED  BY <3>1, <3>2
  <2>3. q \in p..Len(tokens)  BY <1>1, <1>2
  <2> QED  BY <2>1, <2>2, <2>3 DEF ExprKinds
<1>5. \A x \in E : x \in Nat /\ q <= x
  <2> SUFFICES ASSUME NEW x \in p..Len(tokens), At(x).kind \notin {"word", "open", "close"}
               PROVE  x \in Nat /\ q <= x
    OBVIOUS
  <2>1. x \in Nat /\ p <= x /\ x <= Len(tokens) /\ x > 0  BY <1>1, <1>2
  <2>2. At(x) = tokens[x]  BY <1>1, <2>1, AtIs
  <2>3. ASSUME x < q PROVE FALSE
    <3>1. x \in k..(Stop(k) - 1) /\ x - k + 1 \in a..b  BY <1>1, <1>2, <2>1, <2>3
    <3>2. tokens[x].kind \in ExprKinds  BY <1>1, <1>3, <3>1
    <3> QED  BY <2>2, <3>2 DEF ExprKinds
  <2> QED  BY <1>2, <2>1, <2>3
<1>6. ExprEnds(p) = Min(E)  BY DEF ExprEnds
<1>7. AfterExpr(p) = Max(S)  BY DEF AfterExpr
<1>8. ExprEnds(p) = q
  <2> HIDE DEF E, q
  <2>1. E \in SUBSET Nat /\ E # {}  BY <1>4, <1>5
  <2>2. Min(E) \in E /\ Min(E) <= q  BY <1>4, <2>1, MinIs
  <2> QED  BY <1>2, <1>5, <1>6, <2>2
<1>9. IsExpr(KindsOf(SubSeq(tokens, p, q - 1)))
  <2>1. KindsOf(SubSeq(tokens, p, q - 1)) = SubSeq(s, p - k + 1, q - k)  BY <1>2, SliceIs
  <2> QED  BY <1>2, <2>1
<1>10. S \in SUBSET Nat /\ q \in S /\ \A x \in S : x <= q
  <2> HIDE DEF q
  <2>1. \A x \in p..q : x \in Nat /\ x <= q  BY <1>2
  <2>2. q \in p..q /\ p \in p..q  BY <1>2
  <2> QED  BY <1>8, <1>9, <2>1, <2>2
<1>11. Max(S) = q
  <2> HIDE DEF S, q
  <2> QED  BY <1>10, MaxIs
<1> QED  BY <1>2, <1>7, <1>11

-------------------------------------------------------------------------------
(* What follows a line: its first child behind an INDENT, or the next line.  *)
LEMMA NoStart ==
    ASSUME Written, NEW k \in Starts(tokens), NEW x \in Starts(tokens)
    PROVE  x <= k \/ x > Stop(k)
<1>1. /\ Laid /\ k \in Nat /\ Stop(k) \in Nat /\ ~IsText(tokens[Stop(k)])
      /\ \A y \in k..(Stop(k) - 1) : IsText(tokens[y])
  BY LineIs
<1>2. x \in Nat /\ IsText(tokens[x]) /\ (x = 1 \/ ~IsText(tokens[x - 1])) /\ k >= 1
  BY <1>1, StartLine DEF Starts
<1> SUFFICES ASSUME k < x, x <= Stop(k) PROVE FALSE
  BY <1>1, <1>2
<1>3. x # Stop(k)  BY <1>1, <1>2
<1>4. x - 1 \in k..(Stop(k) - 1) /\ x # 1  BY <1>1, <1>2, <1>3
<1> QED  BY <1>1, <1>2, <1>4

LEMMA NextIn ==
    ASSUME Written, NEW k \in Starts(tokens), tokens[Stop(k) + 1].kind = "indent",
           NEW c, c = tokens[Stop(k) + 2].line
    PROVE  /\ Stop(k) + 1 \in 1..Len(tokens) /\ Stop(k) + 2 \in Starts(tokens)
           /\ c \in Logicals /\ Up(c) = tokens[k].line /\ Earlier(c) = 0
<1> DEFINE l == tokens[k].line
           r == Stop(k) + 1
<1>1. /\ Laid /\ source \in Sources /\ k \in Nat /\ l \in Logicals /\ Stop(k) \in Nat /\ k < Stop(k)
      /\ Stop(k) < Len(tokens) /\ Len(tokens) \in Nat
  BY LineIs
<1>2. r \in 1..Len(tokens) /\ k < r /\ r \in Nat /\ r + 1 = Stop(k) + 2  BY <1>1
<1>3. ASSUME NEW x \in Starts(tokens) PROVE x <= k \/ x > r
  <2>1. x <= k \/ x > Stop(k)  BY NoStart
  <2>2. x # r  BY DEF Starts, IsText, LayoutKinds
  <2>3. x \in Nat  BY <1>1, StartLine
  <2> QED  BY <1>1, <2>1, <2>2, <2>3
<1>4. Ahead(tokens[r].line) = l  BY <1>1, <1>2, <1>3, AheadIs
<1>5. /\ r + 1 \in Starts(tokens) /\ tokens[r].line = tokens[r + 1].line /\ tokens[r].line \in Logicals
      /\ l \in Anc(tokens[r].line)
      /\ \A j \in Logicals : j < tokens[r].line => j <= l
      /\ Anc(tokens[r].line) = Anc(l) \cup {l}
  BY <1>1, <1>2, <1>4, AheadFacts
<1>6. c = tokens[r].line /\ c \in Logicals  BY <1>2, <1>5
<1> HIDE DEF r, l
<1>7. Up(c) = l
  <2>0. \A j \in Logicals : j \in Nat /\ j > 0  BY <1>1, LogicalFacts
  <2>1. \A j \in Anc(l) : j \in Logicals /\ j < l  BY <1>1, AncChain
  <2>2. {0} \cup Anc(c) \in SUBSET Nat /\ l \in {0} \cup Anc(c) /\ \A j \in {0} \cup Anc(c) : j <= l
    BY <1>1, <1>5, <1>6, <2>0, <2>1
  <2> QED  BY <2>2, MaxIs DEF Up
<1>8. Earlier(c) = 0
  <2> SUFFICES ASSUME Earlier(c) # 0 PROVE FALSE
    OBVIOUS
  <2>1. Earlier(c) \in Logicals /\ Earlier(c) < c /\ Up(Earlier(c)) = l
    BY <1>1, <1>6, <1>7, EarlierIs
  <2>2. Earlier(c) <= l  BY <1>5, <1>6, <2>1
  <2>3. l < Earlier(c)  BY <1>1, <2>1, UpFacts
  <2> QED  BY <1>1, <2>1, <2>2, <2>3, LogicalFacts
<1> QED  BY <1>2, <1>5, <1>6, <1>7, <1>8 DEF l, r

LEMMA NextOn ==
    ASSUME Written, NEW k \in Starts(tokens), IsText(tokens[Stop(k) + 1]),
           NEW c, c = tokens[Stop(k) + 1].line
    PROVE  /\ Stop(k) + 1 \in Starts(tokens) /\ c \in Logicals /\ Earlier(c) = tokens[k].line
<1> DEFINE l == tokens[k].line
           m == Stop(k) + 1
<1>1. /\ Laid /\ source \in Sources /\ k \in Nat /\ k \in 1..Len(tokens) /\ l \in Logicals
      /\ Stop(k) \in Nat /\ k < Stop(k) /\ tokens \in Seq(Tokens)
      /\ Stop(k) < Len(tokens) /\ Len(tokens) \in Nat /\ ~IsText(tokens[Stop(k)])
      /\ tokens[Stop(k)].kind = "newline"
      /\ \A x \in k..(Stop(k) - 1) : IsText(tokens[x])
  BY LineIs
<1>2. m \in 1..Len(tokens) /\ m \in Nat /\ m - 1 = Stop(k) /\ k < m  BY <1>1
<1>3. m \in Starts(tokens)  BY <1>1, <1>2 DEF Starts
<1>4. c \in Logicals /\ l < c /\ Headers(tokens, m - 1) = Anc(c) /\ Headers(tokens, k - 1) = Anc(l)
  BY <1>1, <1>2, <1>3, StartLine
<1>5. Opened(tokens, m - 1) = Opened(tokens, k - 1)
  <2>1. \A x \in ((k - 1) + 1)..(m - 1) : tokens[x].kind \notin {"indent", "dedent"}
    <3> TAKE x \in ((k - 1) + 1)..(m - 1)
    <3>1. x = Stop(k) \/ x \in k..(Stop(k) - 1)  BY <1>1
    <3> QED  BY <1>1, <3>1 DEF IsText, LayoutKinds
  <2>2. k - 1 \in Nat /\ m - 1 \in Nat /\ k - 1 <= m - 1 /\ m - 1 <= Len(tokens)  BY <1>1
  <2> QED  BY <1>1, <2>1, <2>2, PlainRun
<1>6. Up(c) = Up(l)
  <2>1. Anc(c) = Anc(l)  BY <1>4, <1>5 DEF Headers
  <2> QED  BY <2>1 DEF Up
<1>7. l <= Earlier(c) /\ Earlier(c) \in Nat /\ Earlier(c) < c
      /\ (Earlier(c) # 0 => Earlier(c) \in Logicals)
  BY <1>1, <1>4, <1>6, EarlierIs
<1>8. l \in Nat /\ l > 0  BY <1>1, LogicalFacts
<1>9. ASSUME l < Earlier(c) PROVE FALSE
  <2>1. Earlier(c) \in Logicals  BY <1>7, <1>8, <1>9
  <2>2. PICK x \in Starts(tokens) : tokens[x].line = Earlier(c)  BY <1>1, <2>1, StartLine
  <2>3. k < x /\ x < m /\ x \in Nat  BY <1>1, <1>3, <1>7, <1>9, <2>2, StartLine
  <2>4. x <= k \/ x > Stop(k)  BY NoStart
  <2> QED  BY <1>1, <1>2, <2>3, <2>4
<1> QED  BY <1>3, <1>4, <1>7, <1>8, <1>9

LEMMA ChildIs ==
    ASSUME Written, NEW k \in Starts(tokens)
    PROVE  /\ HasChild(tokens[k].line) <=> tokens[Stop(k) + 1].kind = "indent"
           /\ HasChild(tokens[k].line) => Colon(tokens[k].line)
<1> DEFINE l == tokens[k].line
           e == Stop(k)
<1>1. /\ Laid /\ Ended /\ source \in Sources /\ k \in Nat /\ k \in 1..Len(tokens) /\ l \in Logicals
      /\ e \in Nat /\ k < e /\ tokens \in Seq(Tokens) /\ e = k + Len(TextOf(l)) /\ Len(TextOf(l)) \in Nat
      /\ e < Len(tokens) /\ Len(tokens) \in Nat /\ ~IsText(tokens[e])
      /\ \A x \in k..(e - 1) : IsText(tokens[x]) /\ tokens[x].kind = TextOf(l)[x - k + 1]
  BY LineIs
<1> HIDE DEF e
<1>2. ASSUME tokens[e + 1].kind = "indent" PROVE HasChild(l)
  <2>1. tokens[e + 2].line \in Logicals /\ Up(tokens[e + 2].line) = l  BY <1>2, NextIn DEF e
  <2> QED  BY <2>1 DEF HasChild
<1>3. ASSUME HasChild(l) PROVE tokens[e + 1].kind = "indent" /\ Colon(l)
  <2>1. PICK c \in Logicals : Up(c) = l  BY <1>3 DEF HasChild
  <2>2. l \in Anc(c)
    <3>1. \A j \in Logicals : j \in Nat /\ j > 0  BY <1>1, LogicalFacts
    <3>2. Max({0} \cup Anc(c)) \in {0} \cup Anc(c)
      <4> DEFINE S == {0} \cup Anc(c)
      <4>1. S \in SUBSET Nat /\ S # {} /\ \A j \in S : j <= c  BY <3>1 DEF Anc
      <4>2. c \in Nat  BY <3>1
      <4> HIDE DEF S
      <4>3. Max(S) \in S  BY <4>1, <4>2, Greatest
      <4> QED  BY <4>3 DEF S
    <3> QED  BY <1>1, <2>1, <3>1, <3>2 DEF Up
  <2>3. PICK x \in Starts(tokens) : tokens[x].line = c  BY <1>1, StartLine
  <2>4. Headers(tokens, x - 1) = Anc(c) /\ x \in Nat /\ x \in 1..Len(tokens)
    BY <1>1, <2>3, StartLine
  <2>5. PICK j \in Opened(tokens, x - 1) : Ahead(tokens[j].line) = l  BY <2>2, <2>4 DEF Headers
  <2>6. j \in 1..Len(tokens) /\ tokens[j].kind = "indent" /\ j \in Nat
    BY <1>1, <2>4, <2>5 DEF Opened
  <2>7. j > 2 /\ tokens[j - 1].kind = "newline" /\ tokens[j - 2].kind = "colon"
    BY <2>6 DEF Written, EdgeRule, EdgeAt
  <2>8. j - 2 \in 1..Len(tokens) /\ IsText(tokens[j - 2])
    BY <1>1, <2>6, <2>7 DEF IsText, LayoutKinds
  <2>9. PICK m \in Starts(tokens) : m \in 1..(j - 2) /\ \A y \in m..(j - 2) : IsText(tokens[y])
    BY <1>1, <2>8, RunStart
  <2>10. m \in Nat /\ m < j /\ m <= j - 1 /\ j - 1 \in Nat /\ j - 1 <= Len(tokens)
    BY <1>1, <2>6, <2>7, <2>9
  <2>11. ~IsText(tokens[j - 1])  BY <2>7 DEF IsText, LayoutKinds
  <2>12. \A y \in m..((j - 1) - 1) : IsText(tokens[y])
    <3>1. (j - 1) - 1 = j - 2  BY <2>6
    <3> QED  BY <2>9, <3>1
  <2>13. j - 1 = Stop(m)  BY <2>10, <2>11, <2>12, StopIs
  <2>14. ASSUME NEW y \in Starts(tokens) PROVE y <= m \/ y > j
    <3>1. y <= m \/ y > Stop(m)  BY NoStart
    <3>2. y # j  BY <2>6 DEF Starts, IsText, LayoutKinds
    <3>3. y \in Nat  BY <1>1, StartLine
    <3> QED  BY <2>6, <2>10, <2>13, <3>1, <3>2, <3>3
  <2>15. Ahead(tokens[j].line) = tokens[m].line  BY <1>1, <2>6, <2>10, <2>14, AheadIs
  <2>16. m = k
    <3>1. ~(m < k) /\ ~(k < m)
      <4>1. l \in Nat  BY <1>1, LogicalFacts
      <4>2. m < k => tokens[m].line < l  BY <1>1, StartLine
      <4>3. k < m => l < tokens[m].line  BY <1>1, StartLine
      <4> QED  BY <2>5, <2>15, <4>1, <4>2, <4>3
    <3> QED  BY <1>1, <2>10, <3>1
  <2>17. e + 1 = j /\ j - 2 = e - 1 /\ e - 1 \in k..(e - 1)
    <3>1. Stop(k) = j - 1  BY <2>13, <2>16
    <3>2. e = j - 1 /\ e \in Nat /\ k \in Nat /\ k < e  BY <1>1, <3>1 DEF e
    <3> QED  BY <2>6, <3>2
  <2>18. (e - 1) - k + 1 = Len(TextOf(l))  BY <1>1
  <2>19. tokens[e - 1].kind = TextOf(l)[Len(TextOf(l))]  BY <1>1, <2>17, <2>18
  <2> QED  BY <2>6, <2>7, <2>17, <2>19 DEF Colon
<1> QED  BY <1>2, <1>3 DEF e

-------------------------------------------------------------------------------
(* What the parser has accepted so far fits, and where it looks next.        *)
Kinded(bs) ==
    \A i \in 2..Len(bs) :
      /\ bs[i].line \in Logicals /\ bs[i].kind # "program" /\ GoodLine(bs[i].line)
      /\ ListOf(bs[i].kind) = KindUnder(bs[i].line)
      /\ bs[i].kind = "then" <=> TextOf(bs[i].line)[1] = "if"
Filled(bs, n) == \A i \in 1..n : bs[i].count > 0
Noticed(pa, pr) == \A l \in DOMAIN pa \cup DOMAIN pr : GoodLine(l)
Fitted(p, bs, pa, pr) ==
    /\ tokens[p].kind \notin {"newline", "indent"}
    /\ Good => tokens[p].kind # "else"
    /\ Kinded(bs) /\ Filled(bs, Len(bs) - 1) /\ Noticed(pa, pr)
    /\ bs[Len(bs)].count = 0 /\ Len(bs) > 1 => p > 1 /\ tokens[p - 1].kind = "indent"

LEMMA Facing ==
    ASSUME Written, Whole, Placed(pos, blocks, parent, partner), Fitted(pos, blocks, parent, partner)
    PROVE  /\ Start = pos /\ pos \in Nat /\ pos \in 1..Len(tokens) /\ At(pos) = tokens[pos]
           /\ Typed(blocks) /\ Clear(pos) /\ Ended /\ Laid /\ source \in Sources
           /\ Built(pos, LinesOf(blocks), parent, partner)
           /\ Len(blocks) \in Nat /\ Len(blocks) >= 1 /\ Block = blocks[Len(blocks)]
           /\ Block.kind = "program" <=> Len(blocks) = 1
           /\ ~(Block.kind = "program" /\ tokens[pos].kind = "dedent")
           /\ tokens[pos].kind \notin {"dedent", "eof"} =>
                /\ pos \in Starts(tokens) /\ tokens[pos].line \in Logicals
                /\ Block.line = Up(tokens[pos].line)
                /\ ListOf(Block.kind) = KindUnder(Up(tokens[pos].line))
<1>1. /\ Typed(blocks) /\ Fine(pos) /\ Laid /\ Ended /\ source \in Sources /\ tokens \in Seq(Tokens)
      /\ Built(pos, LinesOf(blocks), parent, partner)
  BY DEF Placed, Written, Laid, Ended
<1>2. Clear(pos) /\ pos \in 1..Len(tokens) /\ pos \in Nat /\ Len(tokens) \in Nat
  BY <1>1, EndedFacts DEF Fine
<1>3. Start = pos
  <2>1. /\ SkipNewlines(pos) \in pos..Len(tokens)
        /\ \A x \in pos..(SkipNewlines(pos) - 1) : tokens[x].kind = "newline"
    BY <1>1, <1>2, SkipIs
  <2>2. tokens[pos].kind # "newline"  BY DEF Fitted
  <2>3. ASSUME SkipNewlines(pos) # pos PROVE FALSE
    <3>1. pos \in pos..(SkipNewlines(pos) - 1)  BY <1>2, <2>1, <2>3
    <3> QED  BY <2>1, <2>2, <3>1
  <2> QED  BY <2>3 DEF Start
<1>4. At(pos) = tokens[pos]  BY <1>1, <1>2, AtIs
<1>5. /\ Len(blocks) \in Nat /\ Len(blocks) >= 1 /\ Block = blocks[Len(blocks)]
      /\ Block.line = LinesOf(blocks)[Len(LinesOf(blocks))] /\ Len(LinesOf(blocks)) = Len(blocks)
  BY <1>1, TypedFacts DEF Block, Typed, Last
<1>6. Block.kind = "program" <=> Len(blocks) = 1
  <2>1. CASE Len(blocks) = 1  BY <1>1, <1>5, <2>1 DEF Typed
  <2>2. CASE Len(blocks) # 1
    <3>1. Len(blocks) \in 2..Len(blocks)  BY <1>5, <2>2
    <3> QED  BY <1>5, <2>2, <3>1 DEF Fitted, Kinded
  <2> QED  BY <2>1, <2>2
<1>7. ~(Block.kind = "program" /\ tokens[pos].kind = "dedent")
  <2> SUFFICES ASSUME Block.kind = "program", tokens[pos].kind = "dedent" PROVE FALSE
    OBVIOUS
  <2>1. Height(tokens, pos - 1) = 0
    <3>1. Height(tokens, pos - 1) = Len(LinesOf(blocks)) - 1  BY <1>1 DEF Built, Stacked
    <3> QED  BY <1>5, <1>6, <3>1
  <2>2. pos - 1 \in Nat /\ pos - 1 < Len(tokens) /\ (pos - 1) + 1 = pos  BY <1>2
  <2>3. Height(tokens, pos) = Height(tokens, pos - 1) - 1
    <3>1. Height(tokens, (pos - 1) + 1) = CASE tokens[(pos - 1) + 1].kind = "indent" -> Height(tokens, pos - 1) + 1
                                 [] tokens[(pos - 1) + 1].kind = "dedent" -> Height(tokens, pos - 1) - 1
                                 [] OTHER                     -> Height(tokens, pos - 1)
      BY <1>1, <2>2, HeightStep
    <3> QED  BY <2>2, <3>1
  <2>4. Height(tokens, pos) >= 0  BY <1>1, <1>2 DEF Laid
  <2> QED  BY <2>1, <2>3, <2>4
<1>8. ASSUME tokens[pos].kind \notin {"dedent", "eof"}
      PROVE  /\ pos \in Starts(tokens) /\ tokens[pos].line \in Logicals
             /\ Block.line = Up(tokens[pos].line)
             /\ ListOf(Block.kind) = KindUnder(Up(tokens[pos].line))
  <2>1. IsText(tokens[pos])  BY <1>8 DEF IsText, LayoutKinds, Fitted
  <2>2. pos \in Starts(tokens)  BY <1>1, <2>1 DEF Fine
  <2>3. tokens[pos].line \in Logicals  BY <1>1, <2>2, StartLine
  <2>4. Block.line = Up(tokens[pos].line)
    <3>1. Stacked(LinesOf(blocks), pos - 1)  BY <1>1 DEF Built
    <3> QED  BY <1>1, <1>5, <2>2, <3>1, HeadLine
  <2>5. ListOf(Block.kind) = KindUnder(Block.line)
    <3>1. CASE Len(blocks) = 1
      <4>1. Block.line = 0 /\ Block.kind = "program"  BY <1>1, <1>5, <3>1 DEF Typed
      <4> QED  BY <4>1, UnderKinds DEF ListOf
    <3>2. CASE Len(blocks) # 1
      <4>1. Len(blocks) \in 2..Len(blocks)  BY <1>5, <3>2
      <4> QED  BY <1>5, <4>1 DEF Fitted, Kinded
    <3> QED  BY <3>1, <3>2
  <2> QED  BY <2>2, <2>3, <2>4, <2>5
<1> QED  BY <1>1, <1>2, <1>3, <1>4, <1>5, <1>6, <1>7, <1>8

(* An else of well-formed lines stands behind an if of its own block.        *)
LEMMA ElseNeeds ==
    ASSUME Good, NEW c \in Logicals, TextOf(c)[1] = "else"
    PROVE  /\ KindUnder(Up(c)) = "body" /\ ShapedLine(c)
           /\ Earlier(c) # 0 /\ TextOf(Earlier(c))[1] = "if"
<1> DEFINE s == TextOf(c)
           u == KindUnder(Up(c))
<1>1. FitsLine(c)  BY DEF Good, GoodLine
<1>2. ~IsExpr(s)  BY DEF IsExpr
<1>3. u \in {"program", "struct", "trait", "impl", "match", "body"}  BY UnderKinds
<1>4. u = "body"
  <2>1. s[1] = "else"  OBVIOUS
  <2>2. u # "program" /\ u # "struct" /\ u # "trait" /\ u # "impl" /\ u # "match"
    <3> HIDE DEF s, u
    <3>1. /\ u = "program" => s[1] \in {"fn", "struct", "trait", "impl"} \/ s = <<"import", "word">>
          /\ u = "struct" => s = <<"word", "colon", "word">>
          /\ u = "trait" => s[1] = "fn"
          /\ u = "impl" => s[1] = "fn"
          /\ u = "match" => s[1] = "word"
      BY <1>1 DEF FitsLine, s, u
    <3> QED  BY <2>1, <3>1
  <2> QED  BY <1>3, <2>2
<1>5. \/ s[1] \in {"if", "while", "match"}
      \/ ShapedLine(c) /\ Earlier(c) # 0 /\ TextOf(Earlier(c))[1] = "if"
      \/ IsExpr(s)
  BY <1>1, <1>4 DEF FitsLine
<1> QED  BY <1>2, <1>4, <1>5

(* Nothing is empty or bare behind a token that is no text.                  *)
LEMMA BehindLayout ==
    ASSUME Written, NEW p \in 1..Len(tokens), p > 1, ~IsText(tokens[p - 1])
    PROVE  tokens[p].kind # "newline"
BY DEF Written, EdgeRule, EdgeAt

LEMMA TextAt ==
    ASSUME Written, NEW k \in Starts(tokens)
    PROVE  tokens[k].line \in Logicals /\ tokens[k].kind = TextOf(tokens[k].line)[1]
BY LineIs

LEMMA FreshFitted ==
    ASSUME Written, Fresh
    PROVE  Fitted(pos, blocks, parent, partner)
<1>1. /\ pos = 1 /\ blocks = <<[kind |-> "program", line |-> 0, count |-> 0]>>
      /\ parent = <<>> /\ partner = <<>>
  BY DEF Fresh
<1>2. Laid /\ Len(tokens) \in Nat /\ 1 \in 1..Len(tokens) /\ source \in Sources
  BY EndedFacts DEF Written, Laid, Ended
<1>3. tokens[1].kind \notin {"newline", "indent"}  BY <1>2 DEF Written, EdgeRule, EdgeAt
<1>4. Len(blocks) = 1  BY <1>1
<1>5. ASSUME Good, tokens[1].kind = "else" PROVE FALSE
  <2>1. 1 \in Starts(tokens)  BY <1>2, <1>5 DEF Starts, IsText, LayoutKinds
  <2> DEFINE c == tokens[1].line
  <2>2. c \in Logicals /\ TextOf(c)[1] = "else"  BY <1>5, <2>1, TextAt
  <2>3. Earlier(c) # 0  BY <1>5, <2>2, ElseNeeds
  <2>4. Earlier(c) \in Logicals /\ Earlier(c) < c  BY <1>2, <2>2, <2>3, EarlierIs
  <2>5. PICK x \in Starts(tokens) : tokens[x].line = Earlier(c)  BY <1>2, <2>4, StartLine
  <2>6. x < 1 /\ x \in 1..Len(tokens)  BY <1>2, <2>1, <2>4, <2>5, StartLine
  <2> QED  BY <1>2, <2>6
<1>6. DOMAIN parent = {} /\ DOMAIN partner = {}  BY <1>1
<1>7. Kinded(blocks) /\ Filled(blocks, Len(blocks) - 1) /\ Noticed(parent, partner)
  BY <1>4, <1>6 DEF Kinded, Filled, Noticed
<1> QED  BY <1>1, <1>3, <1>4, <1>5, <1>7 DEF Fitted

LEMMA InFitted ==
    ASSUME Written, NEW k \in Starts(tokens), tokens[Stop(k) + 1].kind = "indent",
           NEW bs, Typed(bs), Kinded(bs), Filled(bs, Len(bs)), GoodLine(tokens[k].line),
           NEW b \in OpenBlocks, b.line = tokens[k].line, b.kind # "program",
           ListOf(b.kind) = KindUnder(tokens[k].line),
           b.kind = "then" <=> TextOf(tokens[k].line)[1] = "if",
           NEW pa, NEW pr, Noticed(pa, pr)
    PROVE  Fitted(Stop(k) + 2, Append(bs, b), pa, pr)
<1> DEFINE p == Stop(k) + 2
           c == tokens[p].line
           cs == Append(bs, b)
<1>1. /\ Stop(k) + 1 \in 1..Len(tokens) /\ p \in Starts(tokens) /\ Earlier(c) = 0
  BY NextIn
<1>2. Stop(k) \in Nat /\ tokens[k].line \in Logicals  BY LineIs
<1>3. tokens[p].kind \notin {"newline", "indent"} /\ p > 1 /\ tokens[p - 1].kind = "indent"
  <2>1. p - 1 = Stop(k) + 1 /\ p > 1  BY <1>2
  <2> QED  BY <1>1, <2>1 DEF Starts, IsText, LayoutKinds
<1>4. Good => tokens[p].kind # "else"
  <2>1. c \in Logicals /\ tokens[p].kind = TextOf(c)[1]  BY <1>1, TextAt
  <2> QED  BY <1>1, <2>1, ElseNeeds
<1>5. /\ Len(cs) = Len(bs) + 1 /\ cs[Len(bs) + 1] = b /\ Len(bs) \in Nat
      /\ \A i \in 1..Len(bs) : cs[i] = bs[i]
  BY DEF Typed
<1> HIDE DEF cs, p
<1>6. Kinded(cs)
  <2> SUFFICES ASSUME NEW i \in 2..Len(cs)
               PROVE  /\ cs[i].line \in Logicals /\ cs[i].kind # "program" /\ GoodLine(cs[i].line)
                      /\ ListOf(cs[i].kind) = KindUnder(cs[i].line)
                      /\ cs[i].kind = "then" <=> TextOf(cs[i].line)[1] = "if"
    BY DEF Kinded
  <2>1. CASE i = Len(bs) + 1  BY <1>2, <1>5, <2>1
  <2>2. CASE i # Len(bs) + 1
    <3>1. i \in 2..Len(bs) /\ i \in 1..Len(bs)  BY <1>5, <2>2
    <3> QED  BY <1>5, <3>1 DEF Kinded
  <2> QED  BY <2>1, <2>2
<1>7. Filled(cs, Len(cs) - 1)  BY <1>5 DEF Filled
<1> QED  BY <1>3, <1>4, <1>6, <1>7 DEF Fitted, cs, p

LEMMA OnFitted ==
    ASSUME Written, NEW k \in Starts(tokens), GoodLine(tokens[k].line), ~HasChild(tokens[k].line),
           TextOf(tokens[k].line)[1] # "if",
           NEW bs, Typed(bs), Kinded(bs), Filled(bs, Len(bs)),
           NEW pa, NEW pr, Noticed(pa, pr)
    PROVE  Fitted(Stop(k) + 1, bs, pa, pr)
<1> DEFINE p == Stop(k) + 1
           c == tokens[p].line
<1>1. /\ Stop(k) \in Nat /\ Stop(k) < Len(tokens) /\ Len(tokens) \in Nat /\ ~IsText(tokens[Stop(k)])
      /\ tokens \in Seq(Tokens)
  BY LineIs
<1>2. p \in 1..Len(tokens) /\ p > 1 /\ p - 1 = Stop(k)
  <2>1. Stop(k) > 0  BY LineIs
  <2> QED  BY <1>1, <2>1
<1>3. tokens[p].kind # "indent"  BY ChildIs
<1>4. tokens[p].kind # "newline"
  <2>1. ~IsText(tokens[p - 1])  BY <1>1, <1>2
  <2> HIDE DEF p
  <2> QED  BY <1>2, <2>1, BehindLayout
<1>5. ASSUME Good, tokens[p].kind = "else" PROVE FALSE
  <2>1. IsText(tokens[p])  BY <1>5 DEF IsText, LayoutKinds
  <2>2. p \in Starts(tokens) /\ c \in Logicals /\ Earlier(c) = tokens[k].line  BY <2>1, NextOn
  <2>3. TextOf(c)[1] = "else"  BY <1>5, <2>2, TextAt
  <2> QED  BY <1>5, <2>2, <2>3, ElseNeeds
<1>6. Len(bs) \in Nat /\ Len(bs) >= 1  BY DEF Typed
<1>7. Filled(bs, Len(bs) - 1) /\ bs[Len(bs)].count # 0
  <2>1. Len(bs) \in 1..Len(bs) /\ \A i \in 1..(Len(bs) - 1) : i \in 1..Len(bs)  BY <1>6
  <2>2. bs[Len(bs)].count > 0  BY <2>1 DEF Filled
  <2>3. bs[Len(bs)].count # 0  BY <2>2
  <2> QED  BY <2>1, <2>3 DEF Filled
<1> QED  BY <1>3, <1>4, <1>5, <1>7 DEF Fitted

LEMMA OutFitted ==
    ASSUME Written, NEW r \in 1..Len(tokens), tokens[r].kind = "dedent", r + 1 \in 1..Len(tokens),
           Fine(r + 1),
           NEW bs, Typed(bs), Kinded(bs), Filled(bs, Len(bs)), Len(bs) > 1,
           Stacked(LinesOf(bs), r - 1),
           ~(bs[Len(bs)].kind = "then" /\ tokens[r + 1].kind = "else"),
           NEW pa, NEW pr, Noticed(pa, pr)
    PROVE  Fitted(r + 1, Front(bs), pa, pr)
<1> DEFINE p == r + 1
           c == tokens[p].line
           cs == Front(bs)
<1>1. Laid /\ p > 1 /\ p - 1 = r /\ ~IsText(tokens[r])  BY DEF Written, IsText, LayoutKinds
<1>2. tokens[p].kind # "newline"
  <2>1. ~IsText(tokens[p - 1])  BY <1>1
  <2> HIDE DEF p
  <2> QED  BY <1>1, <2>1, BehindLayout DEF p
<1>3. tokens[p].kind # "indent"
  <2>1. EdgeAt(tokens, p)  BY DEF Written, EdgeRule
  <2> QED  BY <1>1, <2>1 DEF EdgeAt
<1>4. /\ Len(bs) \in Nat /\ Len(LinesOf(bs)) = Len(bs) /\ Len(bs) \in 2..Len(bs)
      /\ LinesOf(bs)[Len(bs)] = bs[Len(bs)].line
  <2>1. Len(bs) \in Nat /\ Len(LinesOf(bs)) = Len(bs)  BY TypedFacts
  <2>2. Len(bs) \in 1..Len(bs)  BY <2>1
  <2> QED  BY <2>1, <2>2, TypedFacts
<1>5. ASSUME Good, tokens[p].kind = "else" PROVE FALSE
  <2>1. p \in Starts(tokens)  BY <1>5 DEF Fine, IsText, LayoutKinds
  <2>2. c \in Logicals /\ TextOf(c)[1] = "else"  BY <1>5, <2>1, TextAt
  <2>3. Earlier(c) = bs[Len(bs)].line  BY <1>1, <1>4, <2>1, ElsePartner
  <2>4. TextOf(bs[Len(bs)].line)[1] = "if"  BY <1>5, <2>2, <2>3, ElseNeeds
  <2>5. bs[Len(bs)].kind = "then"  BY <1>4, <2>4 DEF Kinded
  <2> QED  BY <1>5, <2>5
<1>6. /\ Len(cs) = Len(bs) - 1 /\ \A i \in 1..Len(cs) : cs[i] = bs[i]
  BY <1>4 DEF Typed, Front
<1> HIDE DEF cs
<1>7. Kinded(cs)  BY <1>4, <1>6 DEF Kinded
<1>8. Filled(cs, Len(cs) - 1) /\ cs[Len(cs)].count # 0
  <2>1. Len(cs) \in 1..Len(bs) /\ Len(cs) \in 1..Len(cs) /\ \A i \in 1..(Len(cs) - 1) : i \in 1..Len(bs) /\ i \in 1..Len(cs)
    BY <1>4, <1>6
  <2>2. cs[Len(cs)].count > 0  BY <1>6, <2>1 DEF Filled
  <2>3. cs[Len(cs)].count # 0  BY <2>2
  <2>4. \A i \in 1..(Len(cs) - 1) : cs[i].count > 0  BY <1>6, <2>1 DEF Filled
  <2> QED  BY <2>3, <2>4 DEF Filled
<1> QED  BY <1>2, <1>3, <1>5, <1>7, <1>8 DEF Fitted, cs

LEMMA CountedFitted ==
    ASSUME Typed(blocks), Fitted(pos, blocks, parent, partner)
    PROVE  /\ Typed(Counted) /\ Len(Counted) = Len(blocks) /\ Kinded(Counted) /\ Filled(Counted, Len(Counted))
<1>1. Typed(Counted)  BY CountedIs
<1>2. Len(blocks) \in Nat /\ Len(blocks) >= 1 /\ \A i \in 1..Len(blocks) : blocks[i] \in OpenBlocks
  BY DEF Typed
<1>3. /\ Len(Counted) = Len(blocks)
      /\ \A i \in 1..Len(blocks) : /\ Counted[i].kind = blocks[i].kind /\ Counted[i].line = blocks[i].line
                                   /\ i < Len(blocks) => Counted[i].count = blocks[i].count
      /\ Counted[Len(blocks)].count = blocks[Len(blocks)].count + 1
  BY <1>2 DEF Counted, OpenBlocks, Typed
<1>4. Kinded(Counted)  BY <1>2, <1>3 DEF Fitted, Kinded
<1>5. Filled(Counted, Len(Counted))
  <2> SUFFICES ASSUME NEW i \in 1..Len(blocks) PROVE Counted[i].count > 0
    BY <1>3 DEF Filled
  <2>1. CASE i = Len(blocks)
    <3>1. blocks[i].count \in Nat  BY <1>2 DEF OpenBlocks
    <3> QED  BY <1>3, <2>1, <3>1
  <2>2. CASE i # Len(blocks)
    <3>1. i \in 1..(Len(blocks) - 1) /\ i < Len(blocks)  BY <1>2, <2>2
    <3> QED  BY <1>3, <3>1 DEF Fitted, Filled
  <2> QED  BY <2>1, <2>2
<1> QED  BY <1>1, <1>3, <1>4, <1>5

-------------------------------------------------------------------------------
(* The parser's steps once more: one that moves on leaves what fits, one     *)
(* that refuses does so to a line that does not.                             *)
Kept == Fitted(pos', blocks', parent', partner') /\ parsed' = parsed
Held == Kept \/ (Refused /\ ~Good)

LEMMA PairIs ==
    ASSUME NEW S, NEW s \in Seq(S), Len(s) = 2, NEW a, NEW b, s[1] = a, s[2] = b
    PROVE  s = <<a, b>>
<1>1. \A i \in 1..2 : s[i] = <<a, b>>[i]
  <2> TAKE i \in 1..2
  <2>1. i = 1 \/ i = 2  OBVIOUS
  <2> QED  BY <2>1
<1>2. DOMAIN s = 1..2 /\ DOMAIN <<a, b>> = 1..2  OBVIOUS
<1>3. s = [i \in 1..2 |-> s[i]] /\ <<a, b>> = [i \in 1..2 |-> <<a, b>>[i]]
  BY <1>2
<1> QED  BY <1>1, <1>3

LEMMA TripleIs ==
    ASSUME NEW S, NEW s \in Seq(S), Len(s) = 3, NEW a, NEW b, NEW c, s[1] = a, s[2] = b, s[3] = c
    PROVE  s = <<a, b, c>>
<1>1. \A i \in 1..3 : s[i] = <<a, b, c>>[i]
  <2> TAKE i \in 1..3
  <2>1. i = 1 \/ i = 2 \/ i = 3  OBVIOUS
  <2> QED  BY <2>1
<1>2. DOMAIN s = 1..3 /\ DOMAIN <<a, b, c>> = 1..3  OBVIOUS
<1>3. s = [i \in 1..3 |-> s[i]] /\ <<a, b, c>> = [i \in 1..3 |-> <<a, b, c>>[i]]
  BY <1>2
<1> QED  BY <1>1, <1>3

LEMMA AllOfIt ==
    ASSUME NEW S, NEW s \in Seq(S)
    PROVE  SubSeq(s, 1, Len(s)) = s /\ (s # <<>> => Tail(s) = SubSeq(s, 2, Len(s)))
<1>1. SubSeq(s, 1, Len(s)) = s  OBVIOUS
<1>2. s # <<>> => Tail(s) = SubSeq(s, 2, Len(s))  OBVIOUS
<1> QED  BY <1>1, <1>2

LEMMA AtLine ==
    ASSUME Written, NEW k \in Starts(tokens), NEW x \in k..(Stop(k) + 1)
    PROVE  At(x) = tokens[x] /\ x \in Nat
<1>1. /\ Ended /\ k \in Nat /\ k \in 1..Len(tokens) /\ Stop(k) \in Nat /\ Stop(k) < Len(tokens)
      /\ Len(tokens) \in Nat
  BY LineIs
<1>2. x \in Nat /\ x > 0 /\ x <= Len(tokens)  BY <1>1
<1> QED  BY <1>1, <1>2, AtIs

(* A line that ends in an expression opens no block.                         *)
LEMMA ExprLine ==
    ASSUME Written, NEW k \in Starts(tokens), NEW s, s = TextOf(tokens[k].line),
           NEW a \in Nat, a >= 1, IsExpr(SubSeq(s, a, Len(s)))
    PROVE  ~Colon(tokens[k].line) /\ ~HasChild(tokens[k].line) /\ a <= Len(s)
<1>1. s \in Seq(TextKinds) /\ Len(s) \in Nat /\ Len(s) >= 1  BY LineIs
<1>2. Len(s) \in Int /\ Len(s) <= Len(s)  BY <1>1
<1>3. a <= Len(s)  BY <1>1, <1>2, ExprSlice
<1>4. \A n \in a..Len(s) : s[n] \in ExprKinds  BY <1>1, <1>2, <1>3, SliceKinds
<1>5. Len(s) \in a..Len(s)  BY <1>1, <1>3
<1>6. s[Len(s)] # "colon"  BY <1>4, <1>5 DEF ExprKinds
<1>7. ~Colon(tokens[k].line)  BY <1>6 DEF Colon
<1> QED  BY <1>3, <1>7, ChildIs

(* The expression that ends a line is read to the line's end.                *)
LEMMA ExprToEnd ==
    ASSUME Written, NEW k \in Starts(tokens), NEW s, s = TextOf(tokens[k].line),
           NEW a \in Nat, a >= 1, IsExpr(SubSeq(s, a, Len(s))), NEW p, p = k + a - 1
    PROVE  AfterExpr(p) = Stop(k) /\ p < Stop(k)
<1>1. s \in Seq(TextKinds) /\ Len(s) \in Nat /\ Len(s) >= 1 /\ Stop(k) = k + Len(s)  BY LineIs
<1>2. a <= Len(s)  BY ExprLine
<1>3. Len(s) <= Len(s)  BY <1>1
<1>4. AfterExpr(p) = k + Len(s) /\ p < k + Len(s)  BY <1>1, <1>2, <1>3, ExprStops
<1> QED  BY <1>1, <1>4

LEMMA NotedMore ==
    ASSUME NEW f, NEW g, Noticed(f, g), NEW l, GoodLine(l), NEW v
    PROVE  Noticed(Noted(f, l, v), g) /\ Noticed(f, Noted(g, l, v))
<1>1. DOMAIN Noted(f, l, v) = DOMAIN f \cup {l} /\ DOMAIN Noted(g, l, v) = DOMAIN g \cup {l}
  BY DEF Noted
<1> QED  BY <1>1 DEF Noticed

LEMMA ReadingText ==
    ASSUME Written, Whole, Placed(pos, blocks, parent, partner), Fitted(pos, blocks, parent, partner),
           Reading
    PROVE  tokens[pos].kind \notin {"dedent", "eof"}
<1>1. /\ Start = pos /\ At(pos) = tokens[pos]
      /\ ~(Block.kind = "program" /\ tokens[pos].kind = "dedent")
  BY Facing
<1>2. /\ ~(Block.kind = "program" /\ tokens[pos].kind = "eof")
      /\ ~(Block.kind # "program" /\ tokens[pos].kind \in {"dedent", "eof"})
  BY <1>1 DEF Reading, AtBlockEnd, Is
<1> QED  BY <1>1, <1>2

LEMMA LeafHeld ==
    ASSUME Written, Whole, Placed(pos, blocks, parent, partner), Fitted(pos, blocks, parent, partner),
           tokens[pos].kind \notin {"dedent", "eof"},
           NEW q \in Nat, pos < q, q <= Len(tokens), \A x \in pos..(q - 1) : IsText(tokens[x]), Leaf(q),
           q = Stop(pos) => /\ GoodLine(tokens[pos].line) /\ ~HasChild(tokens[pos].line)
                            /\ tokens[pos].kind # "if",
           Good => q = Stop(pos)
    PROVE  Held
<1> DEFINE l == tokens[pos].line
<1>1. /\ Start = pos /\ pos \in Nat /\ At(pos) = tokens[pos] /\ Typed(blocks) /\ Ended
      /\ pos \in Starts(tokens)
  BY Facing
<1>2. At(q) = tokens[q]  BY <1>1, AtIs
<1>3. q <= Stop(pos) /\ (~IsText(tokens[q]) => q = Stop(pos))  BY <1>1, StopIs
<1>4. tokens[Stop(pos)].kind = "newline"  BY <1>1, LineIs
<1>5. CASE EndsStatement(q)
  <2>1. ~IsText(tokens[q])  BY <1>2, <1>5 DEF EndsStatement, IsText, LayoutKinds
  <2>2. q = Stop(pos)  BY <1>3, <2>1
  <2>3. GoodLine(l) /\ ~HasChild(l) /\ TextOf(l)[1] # "if"
    BY <1>1, <2>2, TextAt
  <2>4. AfterStatement(q) = q + 1  BY <1>2, <1>4, <2>2 DEF AfterStatement, Is
  <2>5. /\ pos' = Stop(pos) + 1 /\ blocks' = Counted /\ parent' = Noted(parent, l, Block.line)
        /\ partner' = partner /\ parsed' = parsed
    BY <1>1, <1>5, <2>2, <2>4 DEF Leaf, Adopt
  <2>6. Typed(Counted) /\ Kinded(Counted) /\ Filled(Counted, Len(Counted))  BY <1>1, CountedFitted
  <2>7. Noticed(parent', partner)  BY <2>3, <2>5, NotedMore DEF Fitted
  <2>8. Fitted(Stop(pos) + 1, Counted, parent', partner)
    BY <1>1, <2>3, <2>6, <2>7, OnFitted
  <2> QED  BY <2>5, <2>8 DEF Held, Kept
<1>6. CASE ~EndsStatement(q)
  <2>1. Refused  BY <1>6, Rejects DEF Leaf
  <2>2. ~Good  BY <1>2, <1>4, <1>6 DEF EndsStatement
  <2> QED  BY <2>1, <2>2 DEF Held
<1> QED  BY <1>5, <1>6

LEMMA HeldStatement ==
    ASSUME Written, Whole, Placed(pos, blocks, parent, partner), Fitted(pos, blocks, parent, partner),
           Statement
    PROVE  Held
<1> DEFINE k == pos
           l == tokens[pos].line
           s == TextOf(l)
           q == AfterExpr(pos)
<1>1. tokens[k].kind \notin {"dedent", "eof"}  BY ReadingText DEF Statement
<1>2. /\ Start = k /\ k \in Nat /\ At(k) = tokens[k] /\ Clear(k) /\ k \in Starts(tokens) /\ l \in Logicals
      /\ ListOf(Block.kind) = KindUnder(Up(l))
  BY <1>1, Facing
<1>3. /\ KindUnder(Up(l)) = "body" /\ tokens[k].kind \notin {"if", "while", "match"}
      /\ IF q > k THEN Leaf(q) ELSE Reject("expected expression")
  BY <1>2 DEF Statement, Heads
<1>4. /\ s \in Seq(TextKinds) /\ Len(s) \in Nat /\ Len(s) >= 1 /\ Stop(k) = k + Len(s) /\ tokens[k].kind = s[1]
      /\ Stop(k) \in Nat /\ k < Stop(k) /\ Stop(k) < Len(tokens) /\ Len(tokens) \in Nat
  BY <1>2, LineIs
<1>5. SubSeq(s, 1, Len(s)) = s  BY <1>4, AllOfIt
<1>0. s = TextOf(tokens[k].line)  OBVIOUS
<1> HIDE DEF s, q
<1>6. ASSUME Good PROVE q = Stop(k)
  <2>1. FitsLine(l)  BY <1>2, <1>6 DEF Good, GoodLine
  <2>2. s[1] \notin {"if", "while", "match", "else"}  BY <1>3, <1>4, <1>6 DEF Fitted
  <2>3. IsExpr(s)  BY <1>3, <2>1, <2>2 DEF FitsLine, s
  <2>4. k = k + 1 - 1 /\ 1 \in Nat /\ 1 >= 1  BY <1>2
  <2>5. IsExpr(SubSeq(s, 1, Len(s)))  BY <1>5, <2>3
  <2>6. AfterExpr(k) = Stop(k)  BY <1>0, <1>2, <2>4, <2>5, ExprToEnd
  <2> QED  BY <2>6 DEF q
<1>7. CASE q > k
  <2>0. k \in k..Stop(k)  BY <1>2, <1>4
  <2>1. /\ q \in Nat /\ q <= Stop(k) /\ IsExpr(SubSeq(s, k - k + 1, q - k))
        /\ \A x \in k..(q - 1) : IsText(tokens[x])
    BY <1>2, <1>7, <2>0, ExprFound DEF q, s
  <2>2. q = Stop(k) => /\ GoodLine(l) /\ ~HasChild(l) /\ tokens[k].kind # "if"
    <3> SUFFICES ASSUME q = Stop(k) PROVE GoodLine(l) /\ ~HasChild(l)
      BY <1>3
    <3>1. k - k + 1 = 1 /\ q - k = Len(s)  BY <1>2, <1>4
    <3>2. IsExpr(s)  BY <1>5, <2>1, <3>1
    <3>5. IsExpr(SubSeq(s, 1, Len(s)))  BY <1>5, <3>2
    <3>6. 1 \in Nat /\ 1 >= 1  OBVIOUS
    <3>3. ~Colon(l) /\ ~HasChild(l)  BY <1>0, <1>2, <3>5, <3>6, ExprLine
    <3>4. FitsLine(l)  BY <1>3, <3>2 DEF FitsLine, s
    <3> QED  BY <3>3, <3>4 DEF GoodLine
  <2>3. k < q /\ q <= Len(tokens) /\ Leaf(q)  BY <1>2, <1>3, <1>4, <1>7, <2>1
  <2> QED  BY <1>1, <1>6, <2>1, <2>2, <2>3, LeafHeld
<1>8. CASE ~(q > k)
  <2>1. Refused  BY <1>3, <1>8, Rejects
  <2>2. ~Good  BY <1>4, <1>6, <1>8
  <2> QED  BY <2>1, <2>2 DEF Held
<1> QED  BY <1>7, <1>8

-------------------------------------------------------------------------------
(* A block opens exactly behind a line that ends in a colon and has lines    *)
(* under it.                                                                 *)
LEMMA BlockIs ==
    ASSUME Written, NEW k \in Starts(tokens)
    PROVE  /\ \A q \in Nat : k <= q /\ q <= Len(tokens) /\ (\A x \in k..(q - 1) : IsText(tokens[x])) /\ BlockAt(q) =>
                /\ q + 1 = Stop(k) /\ Colon(tokens[k].line) /\ HasChild(tokens[k].line)
           /\ Colon(tokens[k].line) /\ HasChild(tokens[k].line) => BlockAt(Stop(k) - 1)
<1> DEFINE s == TextOf(tokens[k].line)
<1>1. /\ Ended /\ k \in Nat /\ k \in 1..Len(tokens) /\ Stop(k) \in Nat /\ Stop(k) < Len(tokens)
      /\ Len(tokens) \in Nat /\ Len(s) \in Nat /\ Len(s) >= 1 /\ Stop(k) = k + Len(s)
      /\ \A x \in k..(Stop(k) - 1) : IsText(tokens[x]) /\ tokens[x].kind = s[x - k + 1]
      /\ tokens[Stop(k)].kind = "newline" /\ ~IsText(tokens[Stop(k)])
  BY LineIs
<1>2. tokens[Stop(k) - 1].kind = s[Len(s)]
  <2>1. Stop(k) - 1 \in k..(Stop(k) - 1) /\ (Stop(k) - 1) - k + 1 = Len(s)  BY <1>1
  <2> QED  BY <1>1, <2>1
<1>3. Colon(tokens[k].line) <=> tokens[Stop(k) - 1].kind = "colon"  BY <1>2 DEF Colon
<1>4. HasChild(tokens[k].line) <=> tokens[Stop(k) + 1].kind = "indent"  BY ChildIs
<1> HIDE DEF s
<1>5. ASSUME NEW q \in Nat, k <= q, q <= Len(tokens), \A x \in k..(q - 1) : IsText(tokens[x]), BlockAt(q)
      PROVE  q + 1 = Stop(k) /\ Colon(tokens[k].line) /\ HasChild(tokens[k].line)
  <2>1. At(q).kind = "colon" /\ At(q + 1).kind = "newline" /\ At(q + 2).kind = "indent"
    BY <1>5 DEF BlockAt, Is
  <2>2. q > 0 /\ q + 1 \in Nat /\ q + 1 > 0 /\ q + 2 \in Nat /\ q + 2 > 0  BY <1>1, <1>5
  <2>3. At(q) = tokens[q]  BY <1>1, <1>5, <2>2, AtIs
  <2>4. At(q + 1) = tokens[q + 1] /\ q + 1 < Len(tokens)  BY <1>1, <2>1, <2>2, AtIs
  <2>5. At(q + 2) = tokens[q + 2]  BY <1>1, <2>1, <2>2, AtIs
  <2>6. IsText(tokens[q]) /\ ~IsText(tokens[q + 1])  BY <2>1, <2>3, <2>4 DEF IsText, LayoutKinds
  <2>7. \A x \in k..((q + 1) - 1) : IsText(tokens[x])
    <3> SUFFICES ASSUME NEW x \in k..((q + 1) - 1) PROVE IsText(tokens[x])
      OBVIOUS
    <3>1. x = q \/ x \in k..(q - 1)  BY <1>1, <1>5
    <3> QED  BY <1>5, <2>6, <3>1
  <2>8. k <= q + 1 /\ q + 1 <= Len(tokens)  BY <1>1, <1>5, <2>4
  <2>9. q + 1 = Stop(k)  BY <2>2, <2>6, <2>7, <2>8, StopIs
  <2>10. q = Stop(k) - 1 /\ q + 2 = Stop(k) + 1  BY <1>1, <1>5, <2>9
  <2> QED  BY <1>3, <1>4, <2>1, <2>3, <2>5, <2>9, <2>10
<1>6. ASSUME Colon(tokens[k].line), HasChild(tokens[k].line) PROVE BlockAt(Stop(k) - 1)
  <2>1. /\ Stop(k) - 1 \in k..(Stop(k) + 1) /\ Stop(k) \in k..(Stop(k) + 1)
        /\ Stop(k) + 1 \in k..(Stop(k) + 1)
        /\ (Stop(k) - 1) + 1 = Stop(k) /\ (Stop(k) - 1) + 2 = Stop(k) + 1
    BY <1>1
  <2>2. /\ At(Stop(k) - 1) = tokens[Stop(k) - 1] /\ At(Stop(k)) = tokens[Stop(k)]
        /\ At(Stop(k) + 1) = tokens[Stop(k) + 1]
    BY <2>1, AtLine
  <2>3. At(Stop(k) - 1).kind = "colon" /\ At(Stop(k)).kind = "newline" /\ At(Stop(k) + 1).kind = "indent"
    BY <1>1, <1>3, <1>4, <1>6, <2>2
  <2> QED  BY <2>1, <2>3 DEF BlockAt, Is
<1> QED  BY <1>5, <1>6

(* A header, read from the place a of its line on.                           *)
LEMMA HeadShape ==
    ASSUME source \in Sources, NEW l \in Logicals, NEW u, u = KindUnder(Up(l)), NEW s, s = TextOf(l),
           s[1] \in HeadsIn(u), NEW a, u = "match" => a = 1, u # "match" => a = 2
    PROVE  /\ FitsLine(l) <=> ShapedLine(l)
           /\ ShapedLine(l) <=> /\ Colon(l) /\ IsExpr(SubSeq(s, a, Len(s) - 1))
                                /\ Named(s[1]) => s[a] = "word"
           /\ u = "match" => s[1] = "word"
           /\ u # "match" => s[1] \in Keyword
<1>1. /\ u \in {"program", "impl", "match", "body"}
      /\ u = "program" => s[1] \in {"fn", "struct", "trait", "impl"}
      /\ u = "impl" => s[1] = "fn"
      /\ u = "match" => s[1] = "word"
      /\ u = "body" => s[1] \in {"if", "while", "match"}
  BY DEF HeadsIn, Heads
<1>2. u # "match" => s[1] \in Keyword  BY <1>1 DEF Keyword
<1>3. s[1] # "else" /\ s[1] # "import"  BY <1>1
<1>4. FitsLine(l) <=>
        /\ u = "program" => \/ s[1] \in {"fn", "struct", "trait", "impl"} /\ ShapedLine(l)
                            \/ s = <<"import", "word">> /\ FirstImports(l)
        /\ u = "struct" => s = <<"word", "colon", "word">>
        /\ u = "trait" => s[1] = "fn" /\ IsExpr(Tail(s))
        /\ u = "impl" => s[1] = "fn" /\ ShapedLine(l)
        /\ u = "match" => s[1] = "word" /\ ShapedLine(l)
        /\ u = "body" => \/ s[1] \in {"if", "while", "match"} /\ ShapedLine(l)
                         \/ /\ s[1] = "else" /\ ShapedLine(l)
                            /\ Earlier(l) # 0 /\ TextOf(Earlier(l))[1] = "if"
                         \/ IsExpr(s)
  BY DEF FitsLine
<1>5. s = <<"import", "word">> => s[1] = "import"  OBVIOUS
<1>6. u = "body" => ~IsExpr(s)  BY <1>1 DEF IsExpr
<1>7. FitsLine(l) <=> ShapedLine(l)
  <2>1. CASE u = "program"  BY <1>1, <1>3, <1>4, <1>5, <2>1
  <2>2. CASE u = "impl"  BY <1>1, <1>4, <2>2
  <2>3. CASE u = "match"  BY <1>1, <1>4, <2>3
  <2>4. CASE u = "body"  BY <1>1, <1>3, <1>4, <1>6, <2>4
  <2> QED  BY <1>1, <2>1, <2>2, <2>3, <2>4
<1>8. ShapedLine(l) <=>
        /\ Colon(l)
        /\ s[1] = "else" => Len(s) = 2
        /\ s[1] \in Keyword => /\ IsExpr(SubSeq(s, 2, Len(s) - 1))
                               /\ Named(s[1]) => s[2] = "word"
        /\ s[1] \notin Keyword \cup {"else"} =>
             IsExpr(SubSeq(s, 1, Len(s) - 1)) /\ s[1] = "word"
  BY DEF ShapedLine
<1>9. u = "match" => s[1] \notin Keyword \cup {"else"} /\ ~Named(s[1])
  BY <1>1 DEF Keyword, Named, Heads
<1>10. ShapedLine(l) <=> /\ Colon(l) /\ IsExpr(SubSeq(s, a, Len(s) - 1))
                         /\ Named(s[1]) => s[a] = "word"
  <2>1. CASE u = "match"
    <3>1. a = 1 /\ s[1] = "word"  BY <1>1, <2>1
    <3> QED  BY <1>3, <1>8, <1>9, <2>1, <3>1
  <2>2. CASE u # "match"
    <3>1. a = 2  BY <2>2
    <3> QED  BY <1>2, <1>3, <1>8, <2>2, <3>1
  <2> QED  BY <2>1, <2>2
<1> QED  BY <1>1, <1>2, <1>7, <1>10

(* The block a header opens is of the kind its line calls for.               *)
LEMMA OpensIs ==
    ASSUME source \in Sources, NEW l \in Logicals, NEW u, NEW h, h = TextOf(l)[1], h \in HeadsIn(u),
           NEW kind, kind = (IF u = "match" THEN "body" ELSE Opens[h])
    PROVE  /\ kind # "program" /\ kind \in BlockKinds /\ ListOf(kind) = KindUnder(l)
           /\ kind = "then" <=> h = "if"
<1>1. l # 0
  <2>1. l > 0 /\ l \in Nat  BY LogicalFacts
  <2> QED  BY <2>1
<1>2. KindUnder(l) = IF h \in {"struct", "trait", "impl", "match"} THEN h ELSE "body"
  BY <1>1 DEF KindUnder
<1>3. /\ u = "match" => h = "word"
      /\ u # "match" => h \in {"fn", "struct", "trait", "impl", "if", "while", "match"}
  BY HeadFacts
<1>4. CASE u = "match"
  <2>1. kind = "body" /\ h = "word"  BY <1>3, <1>4
  <2> QED  BY <1>2, <2>1 DEF ListOf, BlockKinds
<1>5. CASE u # "match"
  <2>0. kind = Opens[h]  BY <1>5
  <2>1. \/ h \in {"fn", "while"} /\ kind = "body"
        \/ h = "if" /\ kind = "then"
        \/ h \in {"match", "struct", "trait", "impl"} /\ kind = h
    BY <1>3, <1>5, <2>0 DEF Opens
  <2>2. CASE h \in {"fn", "while"} /\ kind = "body"  BY <1>2, <2>2 DEF ListOf, BlockKinds
  <2>3. CASE h = "if" /\ kind = "then"  BY <1>2, <2>3 DEF ListOf, BlockKinds
  <2>4. CASE h \in {"match", "struct", "trait", "impl"} /\ kind = h
    BY <1>2, <2>4 DEF ListOf, BlockKinds
  <2> QED  BY <2>1, <2>2, <2>3, <2>4
<1> QED  BY <1>4, <1>5

-------------------------------------------------------------------------------
LEMMA HeldHeader ==
    ASSUME Written, Whole, Placed(pos, blocks, parent, partner), Fitted(pos, blocks, parent, partner),
           Header
    PROVE  Held
<1> DEFINE k == pos
           l == tokens[k].line
           u == ListOf(Block.kind)
           s == TextOf(l)
           h == tokens[k].kind
           a == IF u = "match" THEN 1 ELSE 2
           p == IF u = "match" THEN k ELSE k + 1
           q == AfterExpr(p)
           kind == IF u = "match" THEN "body" ELSE Opens[h]
           block == [kind |-> kind, line |-> l, count |-> 0]
<1>1. tokens[k].kind \notin {"dedent", "eof"}  BY ReadingText DEF Header
<1>2. /\ Start = k /\ k \in Nat /\ k \in 1..Len(tokens) /\ At(k) = tokens[k] /\ Clear(k) /\ Typed(blocks)
      /\ k \in Starts(tokens) /\ l \in Logicals /\ source \in Sources /\ Ended
      /\ u = KindUnder(Up(l))
  BY <1>1, Facing
<1>3. /\ h \in HeadsIn(u)
      /\ IF q > p /\ (Named(h) => Is(p, "word")) /\ BlockAt(q)
         THEN /\ pos' = q + 3
              /\ blocks' = Append(Counted, block)
              /\ Adopt(l)
              /\ UNCHANGED <<partner, parsed>>
         ELSE Reject("header")
  BY <1>2 DEF Header
<1>4. /\ s \in Seq(TextKinds) /\ Len(s) \in Nat /\ Len(s) >= 1 /\ Stop(k) = k + Len(s) /\ h = s[1]
      /\ Stop(k) \in Nat /\ k < Stop(k) /\ Stop(k) < Len(tokens) /\ Len(tokens) \in Nat
      /\ \A x \in k..(Stop(k) - 1) : tokens[x].kind = s[x - k + 1]
  BY <1>2, LineIs
<1>5. s = TextOf(l) /\ s = TextOf(tokens[k].line)  OBVIOUS
<1>6. a \in Nat /\ a >= 1 /\ p = k + a - 1 /\ p \in Nat  BY <1>2
<1>7. (u = "match" => a = 1) /\ (u # "match" => a = 2)
  <2> HIDE DEF u
  <2> QED  BY DEF a
<1>8. kind = IF u = "match" THEN "body" ELSE Opens[h]  OBVIOUS
<1>9. p = k \/ (p = k + 1 /\ u # "match")
  <2> HIDE DEF u
  <2> QED  BY DEF p
<1>10. q = AfterExpr(p)  OBVIOUS
<1> HIDE DEF s, a, p, q, kind, h
<1>11. s[1] \in HeadsIn(u)  BY <1>3, <1>4
<1>12. /\ FitsLine(l) <=> ShapedLine(l)
       /\ ShapedLine(l) <=> /\ Colon(l) /\ IsExpr(SubSeq(s, a, Len(s) - 1))
                            /\ Named(s[1]) => s[a] = "word"
       /\ u # "match" => s[1] \in Keyword
  <2>1. l \in Logicals /\ source \in Sources  BY <1>2
  <2>2. u = KindUnder(Up(l)) /\ s = TextOf(l)  BY <1>2, <1>5
  <2> HIDE DEF u, l, k
  <2>3. /\ FitsLine(l) <=> ShapedLine(l)
        /\ ShapedLine(l) <=> /\ Colon(l) /\ IsExpr(SubSeq(s, a, Len(s) - 1))
                             /\ Named(s[1]) => s[a] = "word"
        /\ u = "match" => s[1] = "word"
        /\ u # "match" => s[1] \in Keyword
    BY <1>7, <1>11, <2>1, <2>2, HeadShape
  <2> QED  BY <2>3
<1>13. /\ kind # "program" /\ kind \in BlockKinds /\ ListOf(kind) = KindUnder(l)
       /\ kind = "then" <=> s[1] = "if"
  <2>1. h = TextOf(l)[1] /\ h \in HeadsIn(u)  BY <1>3, <1>4, <1>5
  <2> HIDE DEF u, l
  <2> QED  BY <1>2, <1>4, <1>8, <2>1, OpensIs
<1>14. p \in k..Stop(k) /\ Clear(p)
  <2>1. CASE p = k  BY <1>2, <1>4, <2>1
  <2>2. CASE p = k + 1 /\ u # "match"
    <3>1. tokens[k].kind \notin {"open", "close"}  BY <1>4, <1>12, <2>2 DEF Keyword, h
    <3>2. Clear(k + 1)  BY <1>2, <3>1, ClearPlain
    <3>3. k + 1 \in k..Stop(k)  BY <1>2, <1>4
    <3> QED  BY <2>2, <3>2, <3>3
  <2> QED  BY <1>9, <2>1, <2>2
<1>15. CASE q > p /\ (Named(h) => Is(p, "word")) /\ BlockAt(q)
  <2>1. /\ q \in Nat /\ q <= Stop(k) /\ IsExpr(SubSeq(s, p - k + 1, q - k))
        /\ \A x \in k..(q - 1) : IsText(tokens[x])
    BY <1>2, <1>5, <1>10, <1>14, <1>15, ExprFound
  <2>2. k <= q /\ q <= Len(tokens)  BY <1>2, <1>4, <1>6, <1>15, <2>1, <1>9
  <2>3. q + 1 = Stop(k) /\ Colon(l) /\ HasChild(l)  BY <1>2, <1>15, <2>1, <2>2, BlockIs
  <2>4. p - k + 1 = a /\ q - k = Len(s) - 1
    <3>1. k \in Nat /\ a \in Nat /\ p = k + a - 1  BY <1>2, <1>6
    <3>2. q \in Nat /\ q + 1 = k + Len(s) /\ Len(s) \in Nat  BY <1>4, <2>1, <2>3
    <3> HIDE DEF k
    <3>3. p - k + 1 = a  BY <3>1
    <3>4. q - k = Len(s) - 1  BY <3>1, <3>2
    <3> QED  BY <3>3, <3>4
  <2>5. Named(s[1]) => s[a] = "word"
    <3>1. SUFFICES ASSUME Named(s[1]) PROVE s[a] = "word"
      OBVIOUS
    <3>2. Is(p, "word")  BY <1>4, <1>15, <3>1
    <3>3. p \in k..(Stop(k) + 1) /\ p \in k..(Stop(k) - 1)
      BY <1>2, <1>4, <1>14, <1>15, <2>1, <2>3, <1>6
    <3>4. At(p) = tokens[p]  BY <1>2, <3>3, AtLine
    <3>5. tokens[p].kind = s[p - k + 1]  BY <1>4, <3>3
    <3> QED  BY <2>4, <3>2, <3>4, <3>5 DEF Is
  <2>6. IsExpr(SubSeq(s, a, Len(s) - 1))  BY <2>1, <2>4
  <2>7. GoodLine(l)  BY <1>12, <2>3, <2>5, <2>6 DEF GoodLine
  <2>8. /\ pos' = Stop(k) + 2 /\ blocks' = Append(Counted, block) /\ partner' = partner /\ parsed' = parsed
        /\ parent' = Noted(parent, l, Block.line)
    <3>1. pos' = q + 3 /\ blocks' = Append(Counted, block) /\ Adopt(l) /\ UNCHANGED <<partner, parsed>>
      BY <1>3, <1>15
    <3>2. q + 3 = Stop(k) + 2  BY <2>1, <2>3
    <3> QED  BY <3>1, <3>2 DEF Adopt
  <2>9. Typed(Counted) /\ Kinded(Counted) /\ Filled(Counted, Len(Counted))  BY <1>2, CountedFitted
  <2>10. Noticed(parent', partner)  BY <2>7, <2>8, NotedMore DEF Fitted
  <2>11. tokens[Stop(k) + 1].kind = "indent"  BY <1>2, <2>3, ChildIs
  <2>12. /\ block \in OpenBlocks /\ block.line = l /\ block.kind = kind
    <3>1. l \in Nat  BY <1>2, LogicalFacts
    <3> HIDE DEF l
    <3> QED  BY <1>13, <3>1 DEF OpenBlocks
  <2>13. /\ block.line = tokens[k].line /\ block.kind # "program" /\ ListOf(block.kind) = KindUnder(tokens[k].line)
         /\ block.kind = "then" <=> TextOf(tokens[k].line)[1] = "if"
    BY <1>5, <1>13, <2>12
  <2>14. GoodLine(tokens[k].line) /\ k \in Starts(tokens)  BY <1>2, <2>7
  <2> HIDE DEF block
  <2>15. Fitted(Stop(k) + 2, Append(Counted, block), parent', partner)
    BY <2>9, <2>10, <2>11, <2>12, <2>13, <2>14, InFitted
  <2> QED  BY <2>8, <2>15 DEF Held, Kept
<1>16. CASE ~(q > p /\ (Named(h) => Is(p, "word")) /\ BlockAt(q))
  <2>1. Refused  BY <1>3, <1>16, Rejects
  <2>2. ASSUME Good PROVE FALSE
    <3>1. GoodLine(l)  BY <1>2, <2>2 DEF Good
    <3>2. ShapedLine(l) /\ Colon(l) /\ HasChild(l)  BY <1>12, <3>1 DEF GoodLine
    <3>3. IsExpr(SubSeq(s, a, Len(s) - 1)) /\ (Named(s[1]) => s[a] = "word")  BY <1>12, <3>2
    <3>4. Len(s) - 1 \in Int /\ Len(s) - 1 <= Len(s)  BY <1>4
    <3>5. Len(s) - 1 \in Nat /\ a <= Len(s) - 1  BY <1>4, <1>6, <3>3, <3>4, ExprSlice
    <3>6. s[(Len(s) - 1) + 1] \notin ExprKinds
      <4>1. (Len(s) - 1) + 1 = Len(s)  BY <1>4
      <4>2. s[Len(s)] = "colon"  BY <1>5, <3>2 DEF Colon
      <4> QED  BY <4>1, <4>2 DEF ExprKinds
    <3>7. q = k + (Len(s) - 1) /\ p < k + (Len(s) - 1)
      BY <1>2, <1>5, <1>6, <1>10, <3>3, <3>4, <3>5, <3>6, ExprStops
    <3>8. q = Stop(k) - 1 /\ q > p  BY <1>2, <1>4, <1>6, <3>7
    <3>9. BlockAt(q)  BY <1>2, <3>2, <3>8, BlockIs
    <3>10. Named(h) => Is(p, "word")
      <4>1. SUFFICES ASSUME Named(s[1]) PROVE Is(p, "word")
        BY <1>4
      <4>0. k \in Nat /\ a \in Nat /\ p = k + a - 1 /\ Stop(k) \in Nat /\ p < q /\ q = Stop(k) - 1 /\ p \in k..Stop(k)
        BY <1>2, <1>4, <1>6, <1>14, <3>8
      <4>2. p \in k..(Stop(k) + 1) /\ p \in k..(Stop(k) - 1) /\ p - k + 1 = a
        <5> HIDE DEF k
        <5> QED  BY <4>0
      <4>3. At(p) = tokens[p]  BY <1>2, <4>2, AtLine
      <4>4. tokens[p].kind = s[p - k + 1]  BY <1>4, <4>2
      <4> QED  BY <3>3, <4>1, <4>2, <4>3, <4>4 DEF Is
    <3> QED  BY <1>16, <3>8, <3>9, <3>10
  <2> QED  BY <2>1, <2>2 DEF Held
<1> QED  BY <1>15, <1>16

LEMMA HeldField ==
    ASSUME Written, Whole, Placed(pos, blocks, parent, partner), Fitted(pos, blocks, parent, partner),
           Field
    PROVE  Held
<1> DEFINE k == pos
           l == tokens[k].line
           s == TextOf(l)
<1>1. tokens[k].kind \notin {"dedent", "eof"}  BY ReadingText DEF Field
<1>2. /\ Start = k /\ k \in Nat /\ At(k) = tokens[k] /\ k \in Starts(tokens) /\ l \in Logicals
      /\ ListOf(Block.kind) = KindUnder(Up(l)) /\ Ended
  BY <1>1, Facing
<1>3. /\ KindUnder(Up(l)) = "struct"
      /\ IF Is(k, "word") /\ Is(k + 1, "colon") /\ Is(k + 2, "word")
         THEN Leaf(k + 3) ELSE Reject("field")
  BY <1>2 DEF Field, ListOf
<1>4. /\ s \in Seq(TextKinds) /\ Len(s) \in Nat /\ Len(s) >= 1 /\ Stop(k) = k + Len(s) /\ tokens[k].kind = s[1]
      /\ Stop(k) \in Nat /\ k < Stop(k) /\ Stop(k) < Len(tokens) /\ Len(tokens) \in Nat
      /\ \A x \in k..(Stop(k) - 1) : IsText(tokens[x]) /\ tokens[x].kind = s[x - k + 1]
  BY <1>2, LineIs
<1>0. s = TextOf(tokens[k].line)  OBVIOUS
<1> HIDE DEF s
<1>5. GoodLine(l) => s = <<"word", "colon", "word">>
  BY <1>0, <1>3 DEF GoodLine, FitsLine
<1>6. CASE Is(k, "word") /\ Is(k + 1, "colon") /\ Is(k + 2, "word")
  <2>1. tokens[k].kind = "word" /\ tokens[k + 1].kind = "colon" /\ tokens[k + 2].kind = "word"
        /\ k + 2 < Len(tokens)
    <3>1. k + 1 \in Nat /\ k + 1 > 0 /\ k + 2 \in Nat /\ k + 2 > 0  BY <1>2
    <3>2. At(k).kind = "word" /\ At(k + 1).kind = "colon" /\ At(k + 2).kind = "word"  BY <1>6 DEF Is
    <3>3. At(k + 1) = tokens[k + 1]  BY <1>2, <3>1, <3>2, AtIs
    <3>4. At(k + 2) = tokens[k + 2] /\ k + 2 < Len(tokens)  BY <1>2, <3>1, <3>2, AtIs
    <3> QED  BY <1>2, <3>2, <3>3, <3>4
  <2>2. \A x \in k..((k + 3) - 1) : IsText(tokens[x])
    <3>1. IsText(tokens[k]) /\ IsText(tokens[k + 1]) /\ IsText(tokens[k + 2])
      BY <2>1 DEF IsText, LayoutKinds
    <3>2. \A x \in k..((k + 3) - 1) : x = k \/ x = k + 1 \/ x = k + 2  BY <1>2
    <3> QED  BY <3>1, <3>2
  <2>3. k + 3 \in Nat /\ k < k + 3 /\ k + 3 <= Len(tokens) /\ k <= k + 3  BY <1>2, <1>4, <2>1
  <2>4. ASSUME k + 3 = Stop(k) PROVE GoodLine(l) /\ ~HasChild(l) /\ tokens[k].kind # "if"
    <3>1. Len(s) = 3
      <4>1. k \in Nat /\ Len(s) \in Nat /\ k + 3 = k + Len(s)  BY <1>2, <1>4, <2>4
      <4>2. \A n \in Nat : k + 3 = k + n => n = 3  BY <4>1
      <4> QED  BY <4>1, <4>2
    <3>2. k + 1 \in k..(Stop(k) - 1) /\ (k + 1) - k + 1 = 2 /\ k + 2 \in k..(Stop(k) - 1) /\ (k + 2) - k + 1 = 3
      BY <1>2, <2>4
    <3>3. s[1] = "word" /\ s[2] = "colon" /\ s[3] = "word"
      <4>1. tokens[k + 1].kind = s[(k + 1) - k + 1] /\ tokens[k + 2].kind = s[(k + 2) - k + 1]
        BY <1>4, <3>2
      <4> QED  BY <1>4, <2>1, <3>2, <4>1
    <3>4. s = <<"word", "colon", "word">>  BY <1>4, <3>1, <3>3, TripleIs
    <3>5. FitsLine(l)  BY <1>0, <1>3, <3>4 DEF FitsLine
    <3>6. ~Colon(l)  BY <1>0, <3>1, <3>3 DEF Colon
    <3>7. ~HasChild(l)  BY <1>2, <3>6, ChildIs
    <3> QED  BY <2>1, <3>5, <3>6, <3>7 DEF GoodLine
  <2>5. ASSUME Good PROVE k + 3 = Stop(k)
    <3>1. GoodLine(l)  BY <1>2, <2>5 DEF Good
    <3>2. Len(s) = 3  BY <1>5, <3>1
    <3> QED  BY <1>2, <1>4, <3>2
  <2>6. Leaf(k + 3)  BY <1>3, <1>6
  <2> QED  BY <1>1, <2>2, <2>3, <2>4, <2>5, <2>6, LeafHeld
<1>7. CASE ~(Is(k, "word") /\ Is(k + 1, "colon") /\ Is(k + 2, "word"))
  <2>1. Refused  BY <1>3, <1>7, Rejects
  <2>2. ASSUME Good PROVE FALSE
    <3>1. GoodLine(l)  BY <1>2, <2>2 DEF Good
    <3>2. Len(s) = 3 /\ s[1] = "word" /\ s[2] = "colon" /\ s[3] = "word"  BY <1>5, <3>1
    <3>3. /\ k \in k..(Stop(k) - 1) /\ k + 1 \in k..(Stop(k) - 1) /\ k + 2 \in k..(Stop(k) - 1)
          /\ k \in k..(Stop(k) + 1) /\ k + 1 \in k..(Stop(k) + 1) /\ k + 2 \in k..(Stop(k) + 1)
          /\ k - k + 1 = 1 /\ (k + 1) - k + 1 = 2 /\ (k + 2) - k + 1 = 3
      BY <1>2, <1>4, <3>2
    <3>4. tokens[k].kind = s[k - k + 1] /\ tokens[k + 1].kind = s[(k + 1) - k + 1] /\ tokens[k + 2].kind = s[(k + 2) - k + 1]
      BY <1>4, <3>3
    <3>5. At(k) = tokens[k] /\ At(k + 1) = tokens[k + 1] /\ At(k + 2) = tokens[k + 2]
      BY <1>2, <3>3, AtLine
    <3> QED  BY <1>7, <3>2, <3>3, <3>4, <3>5 DEF Is
  <2> QED  BY <2>1, <2>2 DEF Held
<1> QED  BY <1>6, <1>7

LEMMA HeldSignature ==
    ASSUME Written, Whole, Placed(pos, blocks, parent, partner), Fitted(pos, blocks, parent, partner),
           Signature
    PROVE  Held
<1> DEFINE k == pos
           l == tokens[k].line
           s == TextOf(l)
           q == AfterExpr(k + 1)
<1>1. tokens[k].kind \notin {"dedent", "eof"}  BY ReadingText DEF Signature
<1>2. /\ Start = k /\ k \in Nat /\ k \in 1..Len(tokens) /\ At(k) = tokens[k] /\ k \in Starts(tokens)
      /\ l \in Logicals /\ ListOf(Block.kind) = KindUnder(Up(l)) /\ Ended /\ Clear(k)
  BY <1>1, Facing
<1>3. /\ KindUnder(Up(l)) = "trait"
      /\ IF Is(k, "fn") /\ q > k + 1 THEN Leaf(q) ELSE Reject("signature")
  BY <1>2 DEF Signature, ListOf
<1>4. /\ s \in Seq(TextKinds) /\ Len(s) \in Nat /\ Len(s) >= 1 /\ Stop(k) = k + Len(s) /\ tokens[k].kind = s[1]
      /\ Stop(k) \in Nat /\ k < Stop(k) /\ Stop(k) < Len(tokens) /\ Len(tokens) \in Nat
  BY <1>2, LineIs
<1>0. s = TextOf(tokens[k].line) /\ q = AfterExpr(k + 1)  OBVIOUS
<1>5. Tail(s) = SubSeq(s, 2, Len(s))
  <2>1. s # <<>>  BY <1>4
  <2> QED  BY <1>4, <2>1, AllOfIt
<1> HIDE DEF s, q
<1>6. FitsLine(l) <=> s[1] = "fn" /\ IsExpr(SubSeq(s, 2, Len(s)))
  BY <1>0, <1>3, <1>5 DEF FitsLine
<1>7. 2 \in Nat /\ 2 >= 1  OBVIOUS
<1>8. Is(k, "fn") <=> s[1] = "fn"  BY <1>2, <1>4 DEF Is
<1>9. CASE Is(k, "fn") /\ q > k + 1
  <2>1. tokens[k].kind \notin {"open", "close"} /\ tokens[k].kind # "if"  BY <1>4, <1>8, <1>9
  <2>2. Clear(k + 1)  BY <1>2, <2>1, ClearPlain
  <2>3. k + 1 \in k..Stop(k)  BY <1>2, <1>4
  <2>4. /\ q \in Nat /\ q <= Stop(k) /\ IsExpr(SubSeq(s, (k + 1) - k + 1, q - k))
        /\ \A x \in k..(q - 1) : IsText(tokens[x])
    BY <1>0, <1>2, <1>9, <2>2, <2>3, ExprFound
  <2>5. ASSUME q = Stop(k) PROVE GoodLine(l) /\ ~HasChild(l) /\ tokens[k].kind # "if"
    <3>1. (k + 1) - k + 1 = 2 /\ q - k = Len(s)  BY <1>2, <1>4, <2>5
    <3>2. IsExpr(SubSeq(s, 2, Len(s)))  BY <2>4, <3>1
    <3>3. ~Colon(l) /\ ~HasChild(l)  BY <1>0, <1>2, <1>7, <3>2, ExprLine
    <3>4. FitsLine(l)  BY <1>6, <1>8, <1>9, <3>2
    <3> QED  BY <2>1, <3>3, <3>4 DEF GoodLine
  <2>6. ASSUME Good PROVE q = Stop(k)
    <3>1. FitsLine(l)  BY <1>2, <2>6 DEF Good, GoodLine
    <3>2. IsExpr(SubSeq(s, 2, Len(s)))  BY <1>6, <3>1
    <3>3. k + 1 = k + 2 - 1  BY <1>2
    <3>4. AfterExpr(k + 1) = Stop(k)  BY <1>0, <1>2, <1>7, <3>2, <3>3, ExprToEnd
    <3> QED  BY <1>0, <3>4
  <2>7. k < q /\ q <= Len(tokens) /\ Leaf(q)  BY <1>2, <1>3, <1>4, <1>9, <2>4
  <2> QED  BY <1>1, <2>4, <2>5, <2>6, <2>7, LeafHeld
<1>10. CASE ~(Is(k, "fn") /\ q > k + 1)
  <2>1. Refused  BY <1>3, <1>10, Rejects
  <2>2. ASSUME Good PROVE FALSE
    <3>1. FitsLine(l)  BY <1>2, <2>2 DEF Good, GoodLine
    <3>2. IsExpr(SubSeq(s, 2, Len(s))) /\ s[1] = "fn"  BY <1>6, <3>1
    <3>3. k + 1 = k + 2 - 1  BY <1>2
    <3>4. AfterExpr(k + 1) = Stop(k) /\ k + 1 < Stop(k)  BY <1>0, <1>2, <1>7, <3>2, <3>3, ExprToEnd
    <3>5. q > k + 1  BY <1>0, <1>2, <1>4, <3>4
    <3> QED  BY <1>8, <1>10, <3>2, <3>5
  <2> QED  BY <2>1, <2>2 DEF Held
<1> QED  BY <1>9, <1>10

-------------------------------------------------------------------------------
LEMMA HeldMisplaced ==
    ASSUME Written, Whole, Placed(pos, blocks, parent, partner), Fitted(pos, blocks, parent, partner),
           Misplaced
    PROVE  Held
<1> DEFINE k == pos
           l == tokens[k].line
           s == TextOf(l)
<1>1. tokens[k].kind \notin {"dedent", "eof"}  BY ReadingText DEF Misplaced
<1>2. /\ Start = k /\ At(k) = tokens[k] /\ k \in Starts(tokens) /\ l \in Logicals
      /\ ListOf(Block.kind) = KindUnder(Up(l))
  BY <1>1, Facing
<1>3. tokens[k].kind = s[1]  BY <1>2, TextAt
<1>4. Refused  BY Rejects DEF Misplaced
<1>5. ASSUME Good PROVE FALSE
  <2>1. FitsLine(l)  BY <1>2, <1>5 DEF Good, GoodLine
  <2>2. \/ KindUnder(Up(l)) = "program" /\ s[1] \notin Heads.program \cup {"import"}
        \/ KindUnder(Up(l)) = "impl" /\ s[1] # "fn"
        \/ KindUnder(Up(l)) = "match" /\ s[1] \notin Heads.match
    <3>1. \/ Block.kind = "program" /\ s[1] \notin Heads.program \cup {"import"}
          \/ Block.kind = "impl" /\ s[1] # "fn"
          \/ Block.kind = "match" /\ s[1] \notin Heads.match
      BY <1>2, <1>3 DEF Misplaced, Is
    <3>2. Block.kind \in {"program", "impl", "match"} => ListOf(Block.kind) = Block.kind
      BY DEF ListOf
    <3> HIDE DEF l, s
    <3> QED  BY <1>2, <3>1, <3>2
  <2>3. s = <<"import", "word">> => s[1] = "import"  OBVIOUS
  <2>4. /\ KindUnder(Up(l)) = "program" => s[1] \in {"fn", "struct", "trait", "impl"} \/ s = <<"import", "word">>
        /\ KindUnder(Up(l)) = "impl" => s[1] = "fn"
        /\ KindUnder(Up(l)) = "match" => s[1] = "word"
    BY <2>1 DEF FitsLine
  <2> HIDE DEF s, l
  <2> QED  BY <2>2, <2>3, <2>4 DEF Heads
<1> QED  BY <1>4, <1>5 DEF Held

(* A line of the program's own block that has an import among its tokens     *)
(* starts with it.                                                           *)
LEMMA ImportHead ==
    ASSUME Written, NEW x \in Starts(tokens), NEW j, j = tokens[x].line, Up(j) = 0, GoodLine(j),
           NEW y \in 1..Len(tokens), tokens[y].line = j, tokens[y].kind = "import"
    PROVE  TextOf(j)[1] = "import"
<1> DEFINE s == TextOf(tokens[x].line)
<1>1. /\ Laid /\ Ended /\ tokens \in Seq(Tokens) /\ Len(tokens) \in Nat
      /\ x \in Nat /\ x \in 1..Len(tokens) /\ tokens[x].line \in Logicals
      /\ s \in Seq(TextKinds) /\ Len(s) \in Nat /\ Len(s) >= 1 /\ Stop(x) = x + Len(s)
      /\ Stop(x) \in Nat /\ x < Stop(x) /\ Stop(x) < Len(tokens)
      /\ \A n \in x..(Stop(x) - 1) : tokens[n].kind = s[n - x + 1]
      /\ ~IsText(tokens[Stop(x)])
  BY LineIs
<1>2. IsText(tokens[y])  BY DEF IsText, LayoutKinds
<1>3. PICK k \in Starts(tokens) : k \in 1..y /\ \A n \in k..y : IsText(tokens[n])
  BY <1>1, <1>2, RunStart
<1>4. k \in 1..Len(tokens) /\ k \in Nat /\ y \in Nat /\ k <= y /\ y <= Len(tokens)
  BY <1>1, <1>3, StartLine
<1>5. ~(x < k)
  <2> SUFFICES ASSUME x < k PROVE FALSE
    OBVIOUS
  <2>1. tokens[x].line < tokens[k].line  BY <1>1, <1>3, StartLine
  <2>2. k < y => tokens[k].line <= tokens[y].line  BY <1>4 DEF Written
  <2>3. k = y => tokens[k].line = tokens[y].line  OBVIOUS
  <2>4. tokens[k].line \in Nat /\ tokens[x].line \in Nat
    <3>1. tokens[k].line \in Logicals /\ tokens[x].line \in Logicals /\ source \in Sources
      BY <1>1, <1>3, StartLine DEF Laid
    <3> QED  BY <3>1, LogicalFacts
  <2>5. k < y \/ k = y  BY <1>4
  <2> QED  BY <2>1, <2>2, <2>3, <2>4, <2>5
<1>6. ~(k < x)
  <2> SUFFICES ASSUME k < x PROVE FALSE
    OBVIOUS
  <2>1. CASE x <= y
    <3>1. x - 1 \in k..y  BY <1>1, <1>4, <2>1
    <3>2. IsText(tokens[x - 1]) /\ x # 1  BY <1>1, <1>3, <1>4, <3>1
    <3> QED  BY <3>2 DEF Starts
  <2>2. CASE y < x
    <3>1. tokens[y].line < tokens[x].line  BY <1>1, <1>2, <2>2 DEF Written
    <3>2. tokens[x].line \in Nat
      <4>1. tokens[x].line \in Logicals /\ source \in Sources  BY <1>1 DEF Laid
      <4> QED  BY <4>1, LogicalFacts
    <3> QED  BY <3>1, <3>2
  <2> QED  BY <1>1, <1>4, <2>1, <2>2
<1>7. k = x  BY <1>1, <1>4, <1>5, <1>6
<1>8. y \in x..(Stop(x) - 1)
  <2>1. \A n \in x..(y - 1) : IsText(tokens[n])
    <3>1. \A n \in x..(y - 1) : n \in k..y  BY <1>4, <1>7
    <3> QED  BY <1>3, <3>1
  <2>2. x <= y  BY <1>4, <1>7
  <2>3. y <= Stop(x)  BY <1>4, <2>1, <2>2, StopIs
  <2>4. y # Stop(x)  BY <1>1, <1>2
  <2> QED  BY <1>1, <1>4, <2>2, <2>3, <2>4
<1>9. s[y - x + 1] = "import" /\ y - x + 1 \in 1..Len(s)
  <2>1. y - x + 1 \in 1..Len(s)  BY <1>1, <1>4, <1>8
  <2>2. tokens[y].kind = s[y - x + 1]  BY <1>1, <1>8
  <2> QED  BY <2>1, <2>2
<1>10. \/ s[1] \in {"fn", "struct", "trait", "impl"} /\ ShapedLine(j)
       \/ s = <<"import", "word">>
  <2>1. KindUnder(Up(j)) = "program"  BY UnderKinds
  <2> QED  BY <2>1 DEF GoodLine, FitsLine
<1>11. ASSUME s[1] \in {"fn", "struct", "trait", "impl"}, ShapedLine(j) PROVE FALSE
  <2>1. IsExpr(SubSeq(s, 2, Len(s) - 1)) /\ s[Len(s)] = "colon"
    BY <1>11 DEF ShapedLine, Keyword, Colon
  <2> DEFINE n == y - x + 1
  <2> HIDE DEF s, n
  <2>2. Len(s) - 1 \in Int /\ Len(s) - 1 <= Len(s) /\ 2 \in Nat /\ 2 >= 1  BY <1>1
  <2>3. Len(s) - 1 \in Nat /\ 2 <= Len(s) - 1  BY <1>1, <2>1, <2>2, ExprSlice
  <2>4. \A m \in 2..(Len(s) - 1) : s[m] \in ExprKinds  BY <1>1, <2>1, <2>2, <2>3, SliceKinds
  <2>5. s[n] = "import" /\ n \in 1..Len(s)  BY <1>9 DEF n
  <2>6. n = 1 \/ n = Len(s) \/ n \in 2..(Len(s) - 1)  BY <1>1, <2>5
  <2>7. n # 1  BY <1>11, <2>5
  <2>8. n # Len(s)  BY <2>1, <2>5
  <2>9. s[n] \in ExprKinds  BY <2>4, <2>6, <2>7, <2>8
  <2> QED  BY <2>5, <2>9 DEF ExprKinds
<1>12. s = <<"import", "word">>  BY <1>10, <1>11
<1> QED  BY <1>12

LEMMA HeldImport ==
    ASSUME Written, Whole, Placed(pos, blocks, parent, partner), Fitted(pos, blocks, parent, partner),
           Import
    PROVE  Held
<1> DEFINE k == pos
           l == tokens[k].line
           s == TextOf(l)
<1>1. tokens[k].kind \notin {"dedent", "eof"}  BY ReadingText DEF Import
<1>2. /\ Start = k /\ k \in Nat /\ At(k) = tokens[k] /\ k \in Starts(tokens) /\ l \in Logicals
      /\ ListOf(Block.kind) = KindUnder(Up(l)) /\ Ended /\ Laid /\ source \in Sources
      /\ Built(pos, LinesOf(blocks), parent, partner)
  BY <1>1, Facing
<1>3. /\ KindUnder(Up(l)) = "program" /\ tokens[k].kind = "import"
      /\ IF NoItems /\ Is(k + 1, "word") THEN Leaf(k + 2) ELSE Reject("import")
  BY <1>2 DEF Import, ListOf, Is
<1>4. /\ s \in Seq(TextKinds) /\ Len(s) \in Nat /\ Len(s) >= 1 /\ Stop(k) = k + Len(s) /\ tokens[k].kind = s[1]
      /\ Stop(k) \in Nat /\ k < Stop(k) /\ Stop(k) < Len(tokens) /\ Len(tokens) \in Nat
      /\ \A x \in k..(Stop(k) - 1) : IsText(tokens[x]) /\ tokens[x].kind = s[x - k + 1]
  BY <1>2, LineIs
<1>0. s = TextOf(tokens[k].line)  OBVIOUS
<1>5. /\ DOMAIN parent = StartsTo(k, FALSE) /\ \A j \in DOMAIN parent : parent[j] = Up(j)
      /\ DOMAIN partner = StartsTo(k, TRUE)
  BY <1>2 DEF Built, Recorded
<1> HIDE DEF s
<1>6. FitsLine(l) <=> s = <<"import", "word">> /\ FirstImports(l)
  <2>1. s[1] \notin {"fn", "struct", "trait", "impl"}  BY <1>3, <1>4
  <2>2. FitsLine(l) <=> \/ s[1] \in {"fn", "struct", "trait", "impl"} /\ ShapedLine(l)
                        \/ s = <<"import", "word">> /\ FirstImports(l)
    BY <1>0, <1>3 DEF FitsLine
  <2> QED  BY <2>1, <2>2
<1>7. CASE NoItems /\ Is(k + 1, "word")
  <2>1. tokens[k + 1].kind = "word" /\ k + 1 < Len(tokens)
    <3>1. k + 1 \in Nat /\ k + 1 > 0  BY <1>2
    <3>2. At(k + 1).kind = "word"  BY <1>7 DEF Is
    <3> QED  BY <1>2, <3>1, <3>2, AtIs
  <2>2. \A x \in k..((k + 2) - 1) : IsText(tokens[x])
    <3>1. IsText(tokens[k]) /\ IsText(tokens[k + 1])
      BY <1>3, <2>1 DEF IsText, LayoutKinds
    <3>2. \A x \in k..((k + 2) - 1) : x = k \/ x = k + 1  BY <1>2
    <3> QED  BY <3>1, <3>2
  <2>3. k + 2 \in Nat /\ k < k + 2 /\ k + 2 <= Len(tokens) /\ k <= k + 2  BY <1>2, <1>4, <2>1
  <2>4. FirstImports(l)
    <3> SUFFICES ASSUME NEW j \in Logicals, Up(j) = 0, j < l PROVE TextOf(j)[1] = "import"
      BY DEF FirstImports
    <3>1. PICK x \in Starts(tokens) : tokens[x].line = j  BY <1>2, StartLine
    <3>2. x < k
      <4>1. tokens[x].line < tokens[k].line  BY <3>1
      <4> QED  BY <1>2, <3>1, <4>1, StartLine
    <3>3. tokens[x].kind # "else"
      <4> SUFFICES ASSUME tokens[x].kind = "else" PROVE FALSE
        OBVIOUS
      <4>1. j \in StartsTo(k, TRUE)  BY <3>1, <3>2 DEF StartsTo
      <4>2. GoodLine(j)  BY <1>5, <4>1 DEF Fitted, Noticed
      <4>3. TextOf(j)[1] = "else"  BY <3>1, TextAt
      <4>4. KindUnder(Up(j)) = "program"  BY UnderKinds
      <4>5. TextOf(j)[1] \in {"fn", "struct", "trait", "impl"} \/ TextOf(j) = <<"import", "word">>
        BY <4>2, <4>4 DEF GoodLine, FitsLine
      <4>6. TextOf(j) = <<"import", "word">> => TextOf(j)[1] = "import"  OBVIOUS
      <4> QED  BY <4>3, <4>5, <4>6
    <3>4. j \in StartsTo(k, FALSE)  BY <3>1, <3>2, <3>3 DEF StartsTo
    <3>5. GoodLine(j) /\ parent[j] = 0  BY <1>5, <3>4 DEF Fitted, Noticed
    <3>6. PICK y \in DOMAIN tokens : tokens[y].line = j /\ tokens[y].kind = "import"
      BY <1>5, <1>7, <3>4, <3>5 DEF NoItems
    <3>7. y \in 1..Len(tokens)
      <4>1. tokens \in Seq(Tokens)  BY <1>2 DEF Ended
      <4> QED  BY <3>6, <4>1
    <3> QED  BY <3>1, <3>5, <3>6, <3>7, ImportHead
  <2>5. ASSUME k + 2 = Stop(k) PROVE GoodLine(l) /\ ~HasChild(l) /\ tokens[k].kind # "if"
    <3>1. Len(s) = 2
      <4>1. k \in Nat /\ Len(s) \in Nat /\ k + 2 = k + Len(s)  BY <1>2, <1>4, <2>5
      <4>2. \A n \in Nat : k + 2 = k + n => n = 2  BY <4>1
      <4> QED  BY <4>1, <4>2
    <3>2. k + 1 \in k..(Stop(k) - 1) /\ (k + 1) - k + 1 = 2  BY <1>2, <2>5
    <3>3. s[1] = "import" /\ s[2] = "word"
      <4>1. tokens[k + 1].kind = s[(k + 1) - k + 1]  BY <1>4, <3>2
      <4> QED  BY <1>3, <1>4, <2>1, <3>2, <4>1
    <3>4. s = <<"import", "word">>  BY <1>4, <3>1, <3>3, PairIs
    <3>5. FitsLine(l)  BY <1>6, <2>4, <3>4
    <3>6. ~Colon(l)  BY <1>0, <3>1, <3>3 DEF Colon
    <3>7. ~HasChild(l)  BY <1>2, <3>6, ChildIs
    <3> QED  BY <1>3, <3>5, <3>6, <3>7 DEF GoodLine
  <2>6. ASSUME Good PROVE k + 2 = Stop(k)
    <3>1. FitsLine(l)  BY <1>2, <2>6 DEF Good, GoodLine
    <3>2. Len(s) = 2  BY <1>6, <3>1
    <3> QED  BY <1>2, <1>4, <3>2
  <2>7. Leaf(k + 2)  BY <1>3, <1>7
  <2> QED  BY <1>1, <2>2, <2>3, <2>5, <2>6, <2>7, LeafHeld
<1>8. CASE ~(NoItems /\ Is(k + 1, "word"))
  <2>1. Refused  BY <1>3, <1>8, Rejects
  <2>2. ASSUME Good PROVE FALSE
    <3>1. s = <<"import", "word">> /\ FirstImports(l)  BY <1>2, <1>6, <2>2 DEF Good, GoodLine
    <3>2. Len(s) = 2 /\ s[2] = "word"  BY <3>1
    <3>3. k + 1 \in k..(Stop(k) - 1) /\ k + 1 \in k..(Stop(k) + 1) /\ (k + 1) - k + 1 = 2
      BY <1>2, <1>4, <3>2
    <3>4. tokens[k + 1].kind = s[(k + 1) - k + 1]  BY <1>4, <3>3
    <3>5. At(k + 1) = tokens[k + 1]  BY <1>2, <3>3, AtLine
    <3>6. Is(k + 1, "word")  BY <3>2, <3>3, <3>4, <3>5 DEF Is
    <3>7. NoItems
      <4> SUFFICES ASSUME NEW j \in DOMAIN parent, parent[j] = 0
                   PROVE  \E y \in DOMAIN tokens : tokens[y].line = j /\ tokens[y].kind = "import"
        BY DEF NoItems
      <4>1. j \in StartsTo(k, FALSE) /\ Up(j) = 0  BY <1>5
      <4>2. PICK x \in Starts(tokens) : x < k /\ tokens[x].line = j  BY <4>1 DEF StartsTo
      <4>3. j \in Logicals /\ j < l /\ x \in 1..Len(tokens)  BY <1>2, <4>2, StartLine
      <4>4. TextOf(j)[1] = "import"  BY <3>1, <4>1, <4>3 DEF FirstImports
      <4>5. tokens[x].kind = "import"  BY <4>2, <4>4, TextAt
      <4>6. x \in DOMAIN tokens
        <5>1. tokens \in Seq(Tokens)  BY <1>2 DEF Ended
        <5> QED  BY <4>3, <5>1
      <4> QED  BY <4>2, <4>5, <4>6
    <3> QED  BY <1>8, <3>6, <3>7
  <2> QED  BY <2>1, <2>2 DEF Held
<1> QED  BY <1>7, <1>8

-------------------------------------------------------------------------------
(* Where a block can end, it ends with a DEDENT, and holds something.        *)
LEMMA FacingEnd ==
    ASSUME Written, Whole, Placed(pos, blocks, parent, partner), Fitted(pos, blocks, parent, partner),
           Block.kind # "program", AtBlockEnd
    PROVE  /\ tokens[pos].kind = "dedent" /\ pos + 1 \in 1..Len(tokens) /\ Fine(pos + 1)
           /\ At(pos + 1) = tokens[pos + 1] /\ Len(blocks) > 1 /\ Block.count # 0
           /\ Filled(blocks, Len(blocks)) /\ Stacked(LinesOf(blocks), pos - 1)
<1>1. /\ Start = pos /\ pos \in Nat /\ pos \in 1..Len(tokens) /\ At(pos) = tokens[pos]
      /\ Typed(blocks) /\ Ended /\ Laid
      /\ Len(blocks) \in Nat /\ Len(blocks) >= 1 /\ Block = blocks[Len(blocks)]
      /\ Block.kind = "program" <=> Len(blocks) = 1
  BY Facing
<1>2. Stacked(LinesOf(blocks), pos - 1)
  <2>1. Built(pos, LinesOf(blocks), parent, partner)  BY Facing
  <2> QED  BY <2>1 DEF Built
<1>3. Len(blocks) > 1
  <2>1. Len(blocks) \in Nat /\ Len(blocks) >= 1 /\ Len(blocks) # 1  BY <1>1
  <2>2. \A n \in Nat : n >= 1 /\ n # 1 => n > 1  OBVIOUS
  <2> QED  BY <2>1, <2>2
<1>4. tokens[pos].kind \in {"dedent", "eof"}  BY <1>1 DEF AtBlockEnd
<1>5. Block.count # 0
  <2> SUFFICES ASSUME Block.count = 0 PROVE FALSE
    OBVIOUS
  <2>1. pos > 1 /\ tokens[pos - 1].kind = "indent"  BY <1>1, <1>3 DEF Fitted
  <2>2. pos - 1 \in 1..Len(tokens) /\ (pos - 1) + 1 = pos  BY <1>1, <2>1
  <2>3. (pos - 1) + 1 \in Starts(tokens)  BY <1>1, <2>1, <2>2 DEF Laid
  <2>4. IsText(tokens[pos])  BY <2>2, <2>3 DEF Starts
  <2> QED  BY <1>4, <2>4 DEF IsText, LayoutKinds
<1>6. Filled(blocks, Len(blocks))
  <2> SUFFICES ASSUME NEW i \in 1..Len(blocks) PROVE blocks[i].count > 0
    BY DEF Filled
  <2>1. CASE i = Len(blocks)
    <3>0. blocks[i] \in OpenBlocks  BY <1>1, TypedFacts
    <3>1. blocks[i].count \in Nat  BY <3>0 DEF OpenBlocks
    <3>2. blocks[i].count # 0  BY <1>1, <1>5, <2>1
    <3> QED  BY <3>1, <3>2
  <2>2. CASE i # Len(blocks)
    <3>1. i \in 1..(Len(blocks) - 1)  BY <1>1, <2>2
    <3> QED  BY <3>1 DEF Fitted, Filled
  <2> QED  BY <2>1, <2>2
<1>7. tokens[pos].kind # "eof"
  <2> SUFFICES ASSUME tokens[pos].kind = "eof" PROVE FALSE
    OBVIOUS
  <2>0. tokens \in Seq(Tokens) /\ Len(tokens) \in Nat /\ pos = Len(tokens)
    BY <1>1, EndedFacts DEF Ended
  <2>1. Height(tokens, pos - 1) = Len(LinesOf(blocks)) - 1  BY <1>2 DEF Stacked
  <2>2. Len(LinesOf(blocks)) = Len(blocks)  BY <1>1, TypedFacts
  <2>3. pos - 1 \in Nat /\ pos - 1 < Len(tokens) /\ (pos - 1) + 1 = pos  BY <1>1, <2>0
  <2>4. Height(tokens, (pos - 1) + 1) = CASE tokens[(pos - 1) + 1].kind = "indent" -> Height(tokens, pos - 1) + 1
                               [] tokens[(pos - 1) + 1].kind = "dedent" -> Height(tokens, pos - 1) - 1
                               [] OTHER                     -> Height(tokens, pos - 1)
    BY <2>0, <2>3, HeightStep
  <2>5. Height(tokens, pos) = Height(tokens, pos - 1)  BY <2>3, <2>4
  <2>6. Height(tokens, pos) = 0  BY <1>1, <2>0 DEF Laid
  <2> QED  BY <1>1, <1>3, <2>1, <2>2, <2>5, <2>6
<1>8. tokens[pos].kind = "dedent"  BY <1>4, <1>7
<1>9. pos + 1 \in 1..Len(tokens) /\ pos + 1 \in Nat /\ pos + 1 > 0 /\ pos + 1 <= Len(tokens)
  <2>1. pos < Len(tokens) /\ Len(tokens) \in Nat  BY <1>1, <1>7, EndedFacts
  <2> QED  BY <1>1, <2>1
<1>10. Fine(pos + 1)
  <2>1. Fine(pos)  BY DEF Placed
  <2> QED  BY <1>1, <1>8, <2>1, PassDedent
<1>11. At(pos + 1) = tokens[pos + 1]  BY <1>1, <1>9, AtIs
<1> QED  BY <1>2, <1>3, <1>5, <1>6, <1>8, <1>9, <1>10, <1>11

(* All blocks but the last.                                                  *)
LEMMA FrontFitted ==
    ASSUME NEW bs, Typed(bs), Len(bs) > 1, Kinded(bs), Filled(bs, Len(bs))
    PROVE  /\ Typed(Front(bs)) /\ Kinded(Front(bs)) /\ Filled(Front(bs), Len(Front(bs)))
<1>1. Typed(Front(bs))  BY Popped
<1>2. Len(bs) \in Nat /\ Len(Front(bs)) = Len(bs) - 1 /\ \A i \in 1..Len(Front(bs)) : Front(bs)[i] = bs[i]
  BY DEF Typed, Front
<1>3. \A i \in 1..Len(Front(bs)) : i \in 1..Len(bs)  BY <1>2
<1>4. \A i \in 2..Len(Front(bs)) : i \in 2..Len(bs) /\ i \in 1..Len(Front(bs))  BY <1>2
<1> QED  BY <1>1, <1>2, <1>3, <1>4 DEF Kinded, Filled

(* An else behind the block of an if: the if of its own block.               *)
LEMMA ElseIs ==
    ASSUME Written, NEW r \in 1..Len(tokens), tokens[r].kind = "dedent", r + 1 \in Starts(tokens),
           tokens[r + 1].kind = "else", NEW bs, Typed(bs), Kinded(bs), Len(bs) > 1,
           Stacked(LinesOf(bs), r - 1), bs[Len(bs)].kind = "then",
           NEW l, l = tokens[r + 1].line
    PROVE  /\ l \in Logicals /\ TextOf(l)[1] = "else" /\ Earlier(l) = bs[Len(bs)].line
           /\ FitsLine(l) <=> ShapedLine(l)
           /\ ShapedLine(l) <=> Colon(l) /\ Len(TextOf(l)) = 2
           /\ KindUnder(l) = "body"
<1> DEFINE i == bs[Len(bs)].line
<1>1. /\ Laid /\ source \in Sources  BY DEF Written, Laid
<1>2. l \in Logicals /\ TextOf(l)[1] = "else"  BY TextAt
<1>3. /\ Len(bs) \in Nat /\ Len(LinesOf(bs)) = Len(bs) /\ Len(bs) \in 2..Len(bs)
      /\ LinesOf(bs)[Len(bs)] = bs[Len(bs)].line
  <2>1. Len(bs) \in Nat /\ Len(LinesOf(bs)) = Len(bs)  BY TypedFacts
  <2>2. Len(bs) \in 1..Len(bs)  BY <2>1
  <2> QED  BY <2>1, <2>2, TypedFacts
<1>4. Earlier(l) = i  BY <1>1, <1>3, ElsePartner
<1>5. i \in Logicals /\ GoodLine(i) /\ TextOf(i)[1] = "if"  BY <1>3 DEF Kinded
<1>6. i # 0 /\ l # 0
  <2>1. i > 0 /\ i \in Nat /\ l > 0 /\ l \in Nat
    <3> HIDE DEF i
    <3> QED  BY <1>1, <1>2, <1>5, LogicalFacts
  <2> QED  BY <2>1
<1>7. Up(l) = Up(i)  BY <1>1, <1>2, <1>4, <1>6, EarlierIs
<1>8. KindUnder(Up(i)) = "body"
  <2> DEFINE s == TextOf(i)
             u == KindUnder(Up(i))
  <2>1. s[1] = "if"  BY <1>5
  <2>2. u \in {"program", "struct", "trait", "impl", "match", "body"}  BY UnderKinds
  <2>3. FitsLine(i)  BY <1>5 DEF GoodLine
  <2> HIDE DEF i
  <2>4. /\ u = "program" => s[1] \in {"fn", "struct", "trait", "impl"} \/ s = <<"import", "word">>
        /\ u = "struct" => s = <<"word", "colon", "word">>
        /\ u = "trait" => s[1] = "fn"
        /\ u = "impl" => s[1] = "fn"
        /\ u = "match" => s[1] = "word"
    BY <2>3 DEF FitsLine
  <2>5. s = <<"import", "word">> => s[1] = "import"  OBVIOUS
  <2>6. s = <<"word", "colon", "word">> => s[1] = "word"  OBVIOUS
  <2> HIDE DEF s, u
  <2>7. u = "body"  BY <2>1, <2>2, <2>4, <2>5, <2>6
  <2> QED  BY <2>7 DEF u
<1>9. FitsLine(l) <=> ShapedLine(l)
  <2>1. FitsLine(l) <=>
          \/ TextOf(l)[1] \in {"if", "while", "match"} /\ ShapedLine(l)
          \/ /\ TextOf(l)[1] = "else" /\ ShapedLine(l)
             /\ Earlier(l) # 0 /\ TextOf(Earlier(l))[1] = "if"
          \/ IsExpr(TextOf(l))
    BY <1>7, <1>8 DEF FitsLine
  <2>2. ~IsExpr(TextOf(l))  BY <1>2 DEF IsExpr
  <2>3. Earlier(l) # 0 /\ TextOf(Earlier(l))[1] = "if"  BY <1>4, <1>5, <1>6
  <2> QED  BY <1>2, <2>1, <2>2, <2>3
<1>10. ShapedLine(l) <=> Colon(l) /\ Len(TextOf(l)) = 2
  <2>1. TextOf(l)[1] \notin Keyword  BY <1>2 DEF Keyword
  <2> QED  BY <1>2, <2>1 DEF ShapedLine
<1>11. KindUnder(l) = "body"  BY <1>2, <1>6 DEF KindUnder
<1> QED  BY <1>2, <1>4, <1>9, <1>10, <1>11

LEMMA HeldEndBlock ==
    ASSUME Written, Whole, Placed(pos, blocks, parent, partner), Fitted(pos, blocks, parent, partner),
           EndBlock
    PROVE  Held
<1> DEFINE k == pos
           m == k + 1
           l == tokens[m].line
           block == [kind |-> "else", line |-> l, count |-> 0]
<1>1. /\ Start = k /\ k \in Nat /\ k \in 1..Len(tokens) /\ At(k) = tokens[k] /\ Typed(blocks)
      /\ Block = blocks[Len(blocks)] /\ source \in Sources
  BY Facing
<1>2. /\ tokens[k].kind = "dedent" /\ m \in 1..Len(tokens) /\ Fine(m)
      /\ At(m) = tokens[m] /\ Len(blocks) > 1 /\ Block.count # 0
      /\ Filled(blocks, Len(blocks)) /\ Stacked(LinesOf(blocks), k - 1)
  BY FacingEnd DEF EndBlock
<1>3. Is(Start, "dedent")  BY <1>1, <1>2 DEF Is
<1>4. IF Block.kind = "then" /\ Is(m, "else")
      THEN IF BlockAt(m + 1)
           THEN /\ pos' = m + 4
                /\ blocks' = Append(Front(blocks), [kind |-> "else", line |-> At(m).line, count |-> 0])
                /\ partner' = Noted(partner, At(m).line, Block.line)
                /\ UNCHANGED <<parent, parsed>>
           ELSE Reject("else")
      ELSE /\ pos' = m
           /\ blocks' = Front(blocks)
           /\ UNCHANGED <<parent, partner, parsed>>
  BY <1>1, <1>2, <1>3 DEF EndBlock
<1>5. Kinded(blocks) /\ Noticed(parent, partner)  BY DEF Fitted
<1>6. Is(m, "else") <=> tokens[m].kind = "else"  BY <1>2 DEF Is
<1>7. CASE ~(Block.kind = "then" /\ Is(m, "else"))
  <2>1. /\ pos' = m /\ blocks' = Front(blocks) /\ parent' = parent /\ partner' = partner /\ parsed' = parsed
    BY <1>4, <1>7
  <2>2. ~(blocks[Len(blocks)].kind = "then" /\ tokens[k + 1].kind = "else")  BY <1>1, <1>6, <1>7
  <2>3. k + 1 \in 1..Len(tokens) /\ Fine(k + 1)  BY <1>2
  <2>4. Fitted(k + 1, Front(blocks), parent, partner)
    <3> HIDE DEF k
    <3> QED  BY <1>1, <1>2, <1>5, <2>2, <2>3, OutFitted
  <2> QED  BY <2>1, <2>4 DEF Held, Kept
<1>8. CASE Block.kind = "then" /\ Is(m, "else")
  <2>1. tokens[m].kind = "else"  BY <1>6, <1>8
  <2>2. m \in Starts(tokens)  BY <1>2, <2>1 DEF Fine, IsText, LayoutKinds
  <2>3. blocks[Len(blocks)].kind = "then"  BY <1>1, <1>8
  <2>4. /\ l \in Logicals /\ TextOf(l)[1] = "else"
        /\ FitsLine(l) <=> ShapedLine(l)
        /\ ShapedLine(l) <=> Colon(l) /\ Len(TextOf(l)) = 2
        /\ KindUnder(l) = "body"
    <3>1. l = tokens[k + 1].line /\ k + 1 \in Starts(tokens) /\ tokens[k + 1].kind = "else"
      BY <2>1, <2>2
    <3> HIDE DEF k, l
    <3> QED  BY <1>1, <1>2, <1>5, <2>3, <3>1, ElseIs
  <2>5. /\ m \in Nat /\ Len(TextOf(l)) \in Nat /\ Stop(m) = m + Len(TextOf(l)) /\ Stop(m) \in Nat
        /\ Len(tokens) \in Nat /\ m < Stop(m) /\ Stop(m) < Len(tokens)
    BY <2>2, LineIs
  <2>6. CASE BlockAt(m + 1)
    <3>1. /\ pos' = m + 4 /\ blocks' = Append(Front(blocks), block)
          /\ partner' = Noted(partner, l, Block.line) /\ parent' = parent /\ parsed' = parsed
      BY <1>2, <1>4, <1>8, <2>6
    <3>2. m + 1 \in Nat /\ m <= m + 1 /\ m + 1 <= Len(tokens)  BY <2>5
    <3>3. \A x \in m..((m + 1) - 1) : IsText(tokens[x])
      <4>1. \A x \in m..((m + 1) - 1) : x = m  BY <2>5
      <4> QED  BY <2>2, <4>1 DEF Starts
    <3>4. (m + 1) + 1 = Stop(m) /\ Colon(l) /\ HasChild(l)
      <4> HIDE DEF m
      <4> QED  BY <2>2, <2>6, <3>2, <3>3, BlockIs
    <3>5. Len(TextOf(l)) = 2
      <4>1. \A n \in Nat : m + n = (m + 1) + 1 => n = 2  BY <2>5
      <4> QED  BY <2>5, <3>4, <4>1
    <3>6. GoodLine(l)  BY <2>4, <3>4, <3>5 DEF GoodLine
    <3>7. Noticed(parent, partner')  BY <1>5, <3>1, <3>6, NotedMore
    <3>8. tokens[Stop(m) + 1].kind = "indent"  BY <2>2, <3>4, ChildIs
    <3>9. Typed(Front(blocks)) /\ Kinded(Front(blocks)) /\ Filled(Front(blocks), Len(Front(blocks)))
      BY <1>1, <1>2, <1>5, FrontFitted
    <3>10. block \in OpenBlocks
      <4>1. l \in Nat  BY <1>1, <2>4, LogicalFacts
      <4> HIDE DEF l
      <4> QED  BY <4>1 DEF OpenBlocks, BlockKinds
    <3>11. /\ block.line = tokens[m].line /\ block.kind # "program"
           /\ ListOf(block.kind) = KindUnder(tokens[m].line)
           /\ block.kind = "then" <=> TextOf(tokens[m].line)[1] = "if"
      <4>1. block.kind = "else" /\ block.line = l  OBVIOUS
      <4> HIDE DEF block
      <4>2. ListOf(block.kind) = "body"  BY <4>1 DEF ListOf
      <4> QED  BY <2>4, <4>1, <4>2
    <3>12. GoodLine(tokens[m].line)  BY <3>6
    <3> HIDE DEF m, block
    <3>13. Fitted(Stop(m) + 2, Append(Front(blocks), block), parent, partner')
      BY <2>2, <3>7, <3>8, <3>9, <3>10, <3>11, <3>12, InFitted
    <3>14. m + 4 = Stop(m) + 2  BY <2>5, <3>4
    <3> QED  BY <3>1, <3>13, <3>14 DEF Held, Kept
  <2>7. CASE ~BlockAt(m + 1)
    <3>1. Refused  BY <1>4, <1>8, <2>7, Rejects
    <3>2. ASSUME Good PROVE FALSE
      <4>1. GoodLine(l)  BY <2>4, <3>2 DEF Good
      <4>2. Colon(l) /\ HasChild(l) /\ Len(TextOf(l)) = 2  BY <2>4, <4>1 DEF GoodLine
      <4>3. BlockAt(Stop(m) - 1)  BY <2>2, <4>2, BlockIs
      <4>4. Stop(m) - 1 = m + 1
        <5>1. Stop(m) = m + 2  BY <2>5, <4>2
        <5> QED  BY <2>5, <5>1
      <4> QED  BY <2>7, <4>3, <4>4
    <3> QED  BY <3>1, <3>2 DEF Held
  <2> QED  BY <2>6, <2>7
<1> QED  BY <1>7, <1>8

-------------------------------------------------------------------------------
(* What the lexer leaves of a source that closes its brackets.               *)
LEMMA WrittenLeft ==
    ASSUME NestInv, LayInv, AtBottom, ReadInv, lexed = "yes", Whole
    PROVE  Written
<1>1. Laid  BY LexerLeft
<1>2. EdgeRule  BY DEF ReadInv
<1>3. \A k \in Starts(tokens) : Finished(tokens, k)
  <2>1. \A k \in Starts(tokens) : Finished(tokens, k) \/ Unfinished(tokens, k)
    BY DEF ReadInv, TextRule, Whole
  <2> QED  BY <2>1 DEF Unfinished
<1>4. \A j, k \in 1..Len(tokens) : j < k =>
        /\ tokens[j].line <= tokens[k].line
        /\ k \in Starts(tokens) /\ IsText(tokens[j]) => tokens[j].line < tokens[k].line
  BY DEF ReadInv, OrderRule
<1> QED  BY <1>1, <1>2, <1>3, <1>4 DEF Written

(***************************************************************************)
(* The verdict.  Of a well-formed source nothing is refused; of any other,  *)
(* what has been accepted so far fits.                                      *)
(***************************************************************************)
VerInv ==
    /\ lexed = "yes" /\ Whole /\ parsed = "no" => Fresh \/ Fitted(pos, blocks, parent, partner)
    /\ parsed = "program" /\ Whole => Fitted(pos, blocks, parent, partner)
    /\ Good => parsed \in {"no", "program"}

LEMMA FittedPrimed ==
    ASSUME UNCHANGED lexVars
    PROVE  Fitted(pos, blocks, parent, partner)' <=> Fitted(pos', blocks', parent', partner')
<1>1. tokens' = tokens /\ source' = source  BY DEF lexVars
<1>2. /\ Logicals' = Logicals /\ \A i : TextOf(i)' = TextOf(i)
      /\ \A i : KindUnder(i)' = KindUnder(i)
      /\ \A i : GoodLine(i)' <=> GoodLine(i)
      /\ Good' <=> Good
  BY <1>1, GoodStays
<1>3. Kinded(blocks)' <=> Kinded(blocks')  BY <1>2 DEF Kinded, ListOf
<1>4. Filled(blocks, Len(blocks) - 1)' <=> Filled(blocks', Len(blocks') - 1)  BY DEF Filled
<1>5. Noticed(parent, partner)' <=> Noticed(parent', partner')  BY <1>2 DEF Noticed
<1> QED  BY <1>1, <1>2, <1>3, <1>4, <1>5 DEF Fitted

LEMMA StepHeld ==
    ASSUME Written, Whole, Placed(pos, blocks, parent, partner), Fitted(pos, blocks, parent, partner),
           Header \/ Statement \/ Field \/ Signature \/ Import \/ Misplaced \/ EndBlock
    PROVE  Held
BY HeldHeader, HeldStatement, HeldField, HeldSignature, HeldImport, HeldMisplaced, HeldEndBlock

LEMMA StepKeepsVerInv ==
    ASSUME NestInv, LayInv, AtBottom, ReadInv, ParInv, ParInv', VerInv, [Next]_vars
    PROVE  VerInv'
<1>1. CASE Lex
  <2>1. lexed = "no" /\ LexNext
    BY <1>1 DEF Lex, LexNext, MixedLine, BlankLine, Continued, Deeper, Shallower, SameLevel,
                LogicalStart, AtLineStart, Scan, Newline, InLine, EndOfSource
  <2>2. Fresh /\ parsed # "program"  BY <2>1 DEF ParInv
  <2>3. Fresh' /\ parsed' = parsed  BY <1>1, <2>2 DEF Lex, parVars, Fresh
  <2>4. source' = source  BY <2>1, StepAdds DEF NestInv
  <2>5. Good' <=> Good  BY <2>4, GoodPrimed
  <2> QED  BY <2>2, <2>3, <2>5 DEF VerInv
<1>2. CASE LexError
  <2>1. /\ lexed \notin {"no", "yes"} /\ parsed' = lexed /\ lexed' = lexed /\ source' = source
    BY <1>2 DEF LexError, Reject, lexVars
  <2>2. lexed # "program"  BY <2>1 DEF NestInv, LexInv, LexTypeOK, Errors
  <2>3. ~Good  BY <2>1 DEF ReadInv, FairRule
  <2>4. ~Good'  BY <2>1, <2>3, GoodPrimed
  <2> QED  BY <2>1, <2>2, <2>4 DEF VerInv
<1>3. ASSUME Ready, UNCHANGED lexVars
      PROVE  /\ lexed = "yes" /\ parsed = "no" /\ lexed' = "yes" /\ Whole' = Whole /\ (Good' <=> Good)
             /\ Whole => /\ Written /\ Placed(pos, blocks, parent, partner)
                         /\ Fitted(pos, blocks, parent, partner)
             /\ Good => Whole
  <2>1. lexed = "yes" /\ parsed = "no" /\ lexed' = "yes" /\ source' = source
    BY <1>3 DEF Ready, lexVars
  <2>2. Ended /\ (Whole => Laid)  BY <2>1, LexerLeft
  <2>3. Fresh \/ Placed(pos, blocks, parent, partner)  BY <2>1 DEF ParInv
  <2>4. Placed(pos, blocks, parent, partner)  BY <2>2, <2>3, FreshPlaced
  <2>5. Whole => Written  BY <2>1, WrittenLeft
  <2>6. Whole => Fitted(pos, blocks, parent, partner)  BY <2>1, <2>5, FreshFitted DEF VerInv
  <2>7. Good => Whole  BY <2>1 DEF ReadInv, FairRule, Whole
  <2>8. Whole' = Whole /\ (Good' <=> Good)  BY <1>3, <2>1, LinesPrimed, GoodPrimed
  <2> QED  BY <2>1, <2>4, <2>5, <2>6, <2>7, <2>8
<1>4. CASE Finish
  <2>1. /\ Ready /\ UNCHANGED lexVars /\ parsed' = "program"
        /\ pos' = pos /\ blocks' = blocks /\ parent' = parent /\ partner' = partner
    BY <1>4 DEF Finish
  <2>2. Whole' => Fitted(pos, blocks, parent, partner)'  BY <1>3, <2>1, FittedPrimed
  <2> QED  BY <2>1, <2>2 DEF VerInv
<1>5. ASSUME Header \/ Statement \/ Field \/ Signature \/ Import \/ Misplaced \/ EndBlock
      PROVE  VerInv'
  <2>1. Ready /\ UNCHANGED lexVars
    BY <1>5 DEF Header, Statement, Field, Signature, Import, Misplaced, EndBlock, Reading
  <2>2. /\ lexed = "yes" /\ parsed = "no" /\ lexed' = "yes" /\ Whole' = Whole /\ (Good' <=> Good)
        /\ Whole => /\ Written /\ Placed(pos, blocks, parent, partner)
                    /\ Fitted(pos, blocks, parent, partner)
        /\ Good => Whole
    BY <1>3, <2>1
  <2>3. parsed' # "program"
    <3>1. ASSUME Whole PROVE parsed' # "program"
      <4>1. Held  BY <1>5, <2>2, <3>1, StepHeld
      <4> QED  BY <2>2, <4>1 DEF Held, Kept, Refused
    <3>2. Ended /\ (Whole => Laid)  BY <2>2, LexerLeft
    <3>3. Placed(pos, blocks, parent, partner)
      <4>1. Fresh \/ Placed(pos, blocks, parent, partner)  BY <2>2 DEF ParInv
      <4> QED  BY <3>2, <4>1, FreshPlaced
    <3>4. ASSUME Misplaced PROVE Refused
      <4>1. Reject("unexpected token")  BY <3>4 DEF Misplaced
      <4> QED  BY <4>1, Rejects
    <3>5. Moved \/ Refused
      BY <1>5, <3>2, <3>3, <3>4, StepHeader, StepStatement, StepField, StepSignature, StepImport,
         StepEndBlock
    <3> QED  BY <2>2, <3>5 DEF Moved, Refused
  <2>4. CASE Whole
    <3>1. Held  BY <1>5, <2>2, <2>4, StepHeld
    <3>2. CASE Kept
      <4>1. Fitted(pos, blocks, parent, partner)' /\ parsed' = "no"
        BY <2>1, <2>2, <3>2, FittedPrimed DEF Kept
      <4> QED  BY <4>1 DEF VerInv
    <3>3. CASE Refused /\ ~Good  BY <2>2, <3>3 DEF VerInv, Refused
    <3> QED  BY <3>1, <3>2, <3>3 DEF Held
  <2>5. CASE ~Whole  BY <2>2, <2>3, <2>5 DEF VerInv
  <2> QED  BY <2>4, <2>5
<1>6. CASE Done \/ UNCHANGED vars
  <2>1. /\ UNCHANGED lexVars /\ parsed' = parsed /\ lexed' = lexed /\ source' = source
        /\ pos' = pos /\ blocks' = blocks /\ parent' = parent /\ partner' = partner
    BY <1>6 DEF Done, vars, lexVars
  <2>2. Fresh' <=> Fresh  BY <2>1 DEF Fresh
  <2>3. Fitted(pos, blocks, parent, partner)' <=> Fitted(pos, blocks, parent, partner)
    BY <2>1, FittedPrimed
  <2>4. Whole' = Whole /\ (Good' <=> Good)  BY <2>1, LinesPrimed, GoodPrimed
  <2> QED  BY <2>1, <2>2, <2>3, <2>4 DEF VerInv
<1> QED  BY <1>1, <1>2, <1>4, <1>5, <1>6 DEF Next, Parse

LEMMA VerInvHolds == Spec => [](NestInv /\ LayInv /\ AtBottom /\ ReadInv /\ ParInv /\ VerInv)
<1>1. Init => VerInv  BY DEF Init, LexInit, VerInv, Fresh
<1>2. (NestInv /\ LayInv /\ AtBottom /\ ReadInv) /\ ParInv /\ ParInv' /\ VerInv /\ [Next]_vars => VerInv'
  BY StepKeepsVerInv
<1> QED  BY <1>1, <1>2, SpecLexes, ReadInvHolds, ParInvHolds, PTL DEF Spec

(* The lines of an accepted source.                                          *)
LEMMA AllRead ==
    ASSUME NestInv, EndRule, lexed = "yes"
    PROVE  /\ source \in Sources /\ Reached \in Int /\ Len(Lines) \in Nat /\ DOMAIN Lines = 1..Len(Lines)
           /\ \A i \in 1..Len(Lines) : i <= Reached
           /\ \A i \in Logicals : i \in 1..Len(Lines)
<1>1. source \in Sources /\ line \in Nat  BY DEF NestInv, LexInv, LexTypeOK
<1>2. Len(Lines) \in Nat /\ DOMAIN Lines = 1..Len(Lines)  BY <1>1, LineFacts
<1>3. Reached \in Int  BY <1>1 DEF Reached
<1>4. Len(Lines) <= Reached  BY DEF EndRule
<1>5. \A i \in 1..Len(Lines) : i <= Reached  BY <1>2, <1>3, <1>4
<1>6. \A i \in Logicals : i \in 1..Len(Lines)  BY <1>2 DEF Logicals
<1> QED  BY <1>1, <1>2, <1>3, <1>5, <1>6

LEMMA NoSuchChar ==
    ASSUME NEW R, R \subseteq {"none"}, R \subseteq {" ", "tab"} PROVE R \subseteq {" "}
<1> SUFFICES ASSUME NEW x \in R PROVE FALSE
  OBVIOUS
<1>1. x = "none" /\ (x = " " \/ x = "tab")  OBVIOUS
<1> QED  BY <1>1

LEMMA AcceptedChars ==
    ASSUME NestInv, ReadInv, lexed = "yes"
    PROVE  OneChar
<1> DEFINE D == 1..Len(Lines)
           C(i) == Range(Lines[i].lead)
           F(i) == Lines[i].lead[1]
<1>1. source \in Sources /\ DOMAIN Lines = D /\ \A i \in D : i <= Reached
  BY AllRead DEF ReadInv
<1>2. /\ \A i \in D : i <= Reached => C(i) \subseteq {indent_char}
      /\ indent_char # "none" => \E i \in D : Lines[i].lead # <<>> /\ F(i) = indent_char
  BY DEF ReadInv, CharRule, CharsTo
<1>3. \A i \in D : C(i) \subseteq {indent_char}  BY <1>1, <1>2
<1>4. \A i \in D : C(i) \subseteq {" ", "tab"} /\ (Lines[i].lead # <<>> => F(i) \in C(i))
  BY <1>1, LeadFacts
<1>5. indent_char # "none" => \E i \in D : F(i) \in C(i) /\ F(i) = indent_char  BY <1>2, <1>4
<1>6. OneChar <=> \E c \in {" ", "tab"} : \A i \in D : C(i) \subseteq {c}  BY <1>1 DEF OneChar
<1> HIDE DEF C, F, D
<1>7. CASE indent_char = "none"
  <2>1. \A i \in D : C(i) \subseteq {" "}
    <3> TAKE i \in D
    <3>1. C(i) \subseteq {"none"}  BY <1>3, <1>7
    <3>2. C(i) \subseteq {" ", "tab"}  BY <1>4
    <3> QED  BY <3>1, <3>2, NoSuchChar
  <2> QED  BY <1>6, <2>1
<1>8. CASE indent_char # "none"
  <2>1. PICK i \in D : F(i) \in C(i) /\ F(i) = indent_char  BY <1>5, <1>8
  <2>2. C(i) \subseteq {" ", "tab"}  BY <1>4
  <2>3. indent_char \in {" ", "tab"}  BY <2>1, <2>2
  <2> QED  BY <1>3, <1>6, <2>3
<1> QED  BY <1>7, <1>8

LEMMA AcceptedGood ==
    ASSUME NestInv, LayInv, AtBottom, ReadInv, ParInv, VerInv, parsed = "program"
    PROVE  Good
<1>1. Whole /\ Laid /\ Recorded(Len(tokens), parent, partner)  BY AcceptedWhole
<1>2. lexed = "yes"  BY DEF ParInv
<1>3. Noticed(parent, partner)  BY <1>1 DEF VerInv, Fitted
<1>4. /\ \A i \in 1..Len(Lines) : i <= Reached
      /\ \A i \in Logicals : i \in 1..Len(Lines)
  BY <1>2, AllRead DEF ReadInv
<1>5. ASSUME NEW l \in Logicals PROVE GoodLine(l)
  <2>1. PICK k \in Starts(tokens) : tokens[k].line = l  BY <1>1, StartLine
  <2>2. k \in 1..Len(tokens) /\ IsText(tokens[k])  BY <1>1, StartLine
  <2>3. Len(tokens) \in Nat  BY <1>1, TokenFacts DEF Laid
  <2>4. k # Len(tokens)
    <3>1. tokens[k].kind # "eof"  BY <2>2 DEF IsText
    <3> QED  BY <1>1, <2>2, <3>1 DEF Laid
  <2>5. k < Len(tokens)  BY <2>2, <2>3, <2>4
  <2>6. l \in StartsTo(Len(tokens), TRUE) \/ l \in StartsTo(Len(tokens), FALSE)
    <3>1. CASE tokens[k].kind = "else"
      <4>1. k \in {x \in Starts(tokens) : x < Len(tokens) /\ (tokens[x].kind = "else") = TRUE}
        BY <2>5, <3>1
      <4> QED  BY <2>1, <4>1 DEF StartsTo
    <3>2. CASE tokens[k].kind # "else"
      <4>1. k \in {x \in Starts(tokens) : x < Len(tokens) /\ (tokens[x].kind = "else") = FALSE}
        BY <2>5, <3>2
      <4> QED  BY <2>1, <4>1 DEF StartsTo
    <3> QED  BY <3>1, <3>2
  <2>7. l \in DOMAIN parent \cup DOMAIN partner  BY <1>1, <2>6 DEF Recorded
  <2> QED  BY <1>3, <2>7 DEF Noticed
<1>6. ASSUME NEW i \in Logicals PROVE GoodWidth(i)
  <2>1. WidthsTo(Reached)  BY <1>1, <1>2 DEF ReadInv, WidthRule, Whole
  <2>2. \A x \in Logicals : x <= Reached  BY <1>4
  <2>3. \A x, y \in Logicals : Up(x) = Up(y) => WidthOf(x) = WidthOf(y) /\ (Up(x) = 0 => WidthOf(x) = 0)
    BY <2>1, <2>2 DEF WidthsTo
  <2> QED  BY <2>3 DEF GoodWidth
<1>7. OneChar  BY <1>2, AcceptedChars
<1> QED  BY <1>5, <1>6, <1>7 DEF Good

(* A source is accepted exactly when its lines are well formed, whatever the *)
(* source: of a well-formed one neither the lexer (lex, lexer.rs:540) nor    *)
(* the parser (parse, parser.rs:1342) refuses anything, and what the lexer     *)
(* lets pass is refused by the parser.                                       *)
THEOREM VerdictIsRight == Spec => []VerdictRight
<1>1. ASSUME NestInv, LayInv, AtBottom, ReadInv, ParInv, VerInv PROVE VerdictRight
  <2>1. source \in Sources  BY <1>1 DEF NestInv, LexInv
  <2>2. WellFormed(Outline) <=> Good  BY <2>1, WellFormedIs DEF Good
  <2>3. parsed = "program" => Good  BY <1>1, AcceptedGood
  <2>4. Good => parsed \in {"no", "program"}  BY <1>1 DEF VerInv
  <2> QED  BY <2>2, <2>3, <2>4 DEF VerdictRight
<1> QED  BY <1>1, VerInvHolds, PTL

===============================================================================
