-------------------------------- MODULE Layout --------------------------------
(***************************************************************************)
(* The layout rule of the malus lexer (malus-syntax, lexer.rs): Python-like *)
(* blocks, delimited by indentation, turned into INDENT and DEDENT tokens   *)
(* by one pass over the lines with a stack of widths, a bracket counter and *)
(* the note "the last line ended with a colon".                             *)
(*                                                                          *)
(* A source is a sequence of lines and whether the last one ends in a line  *)
(* break.  A line is its leading characters and the kinds of its tokens:    *)
(* comments are left out (a comment is what stands after the tokens), and a *)
(* line without tokens is a blank or comment-only one.                      *)
(***************************************************************************)
EXTENDS Integers, Sequences, FiniteSets, FiniteSetsExt, SequencesExt

CONSTANT Sources            \* the sources the lexer may be given

LayoutKinds == {"newline", "indent", "dedent"}

(* What is scanned from the text of a line is never a layout token.         *)
TextKinds == STRING \ (LayoutKinds \cup {"eof"})

ASSUME SourcesAssumption ==
    \A s \in Sources : /\ s.newline \in BOOLEAN
                       /\ s.lines \in Seq([lead : Seq({" ", "tab"}), text : Seq(TextKinds)])

VARIABLES
    source,                 \* [lines, newline]: what is being read
    line, col,              \* the lexer's place: the next token of a line
    tokens,                 \* tokens emitted, each [kind, line]
    indent_stack,           \* widths of the open blocks, 0 at the bottom
    bracket_depth,          \* open brackets
    at_line_start,          \* no character of this line has been read
    after_colon,            \* the last line ended with ':'
    indent_char,            \* the file's indentation character, or "none"
    lexed                   \* "no", "yes", or the error that ended the pass

lexVars == <<source, line, col, tokens, indent_stack, bracket_depth,
             at_line_start, after_colon, indent_char, lexed>>

Here   == source.lines[line]
AtEnd  == line > Len(source.lines)
Token(kind) == [kind |-> kind, line |-> line]
Emitted(kind) == tokens' = Append(tokens, Token(kind))

Fail(error) == lexed' = error

(***************************************************************************)
(* The start of a line (handle_line_start).                                 *)
(***************************************************************************)
Width == Len(Here.lead)
CharHere == IF Here.lead = <<>> THEN "none" ELSE Here.lead[1]

Mixed == \/ \E i \in DOMAIN Here.lead : Here.lead[i] # CharHere
         \/ CharHere # "none" /\ indent_char # "none" /\ indent_char # CharHere

AtLineStart == lexed = "no" /\ ~AtEnd /\ at_line_start

SetChar == indent_char' = IF indent_char = "none" THEN CharHere ELSE indent_char

MixedLine ==                                     \* before anything is skipped
    /\ AtLineStart /\ Mixed
    /\ Fail("MixedIndentation")
    /\ UNCHANGED <<source, line, col, tokens, indent_stack, bracket_depth,
                   at_line_start, after_colon, indent_char>>

BlankLine ==
    /\ AtLineStart /\ ~Mixed /\ Here.text = <<>>
    /\ SetChar
    /\ line' = line + 1
    /\ UNCHANGED <<source, col, tokens, indent_stack, bracket_depth,
                   at_line_start, after_colon, lexed>>

Continued ==                                     \* inside brackets: no layout
    /\ AtLineStart /\ ~Mixed /\ Here.text # <<>> /\ bracket_depth > 0
    /\ SetChar
    /\ at_line_start' = FALSE
    /\ UNCHANGED <<source, line, col, tokens, indent_stack, bracket_depth,
                   after_colon, lexed>>

LogicalStart ==
    /\ AtLineStart /\ ~Mixed /\ Here.text # <<>> /\ bracket_depth = 0
    /\ SetChar
    /\ at_line_start' = FALSE
    /\ UNCHANGED <<source, line, col, bracket_depth>>

DeeperForgotten ==                       \* mutant: the new width is not pushed
    /\ LogicalStart
    /\ Width > Last(indent_stack)
    /\ IF after_colon
       THEN Emitted("indent") /\ after_colon' = FALSE /\ UNCHANGED <<indent_stack, lexed>>
       ELSE Fail("UnexpectedIndent") /\ UNCHANGED <<indent_stack, tokens, after_colon>>

Deeper ==
    /\ LogicalStart
    /\ Width > Last(indent_stack)
    /\ IF after_colon
       THEN /\ indent_stack' = Append(indent_stack, Width)
            /\ Emitted("indent")
            /\ after_colon' = FALSE
            /\ UNCHANGED lexed
       ELSE /\ Fail("UnexpectedIndent")
            /\ UNCHANGED <<indent_stack, tokens, after_colon>>

(* Pops until the top is no deeper than the line, leaving the first k       *)
(* widths, one DEDENT for each popped.  A top below the line's width is an  *)
(* error.  That a colon was pending is forgotten here, without an error.    *)
PopsTo(k) ==
    /\ indent_stack[k] <= Width
    /\ \A j \in (k + 1)..(Len(indent_stack) - 1) : indent_stack[j] > Width

ShallowerOnce ==                         \* mutant: one DEDENT, however many blocks
    \E k \in 1..(Len(indent_stack) - 1) :
        /\ LogicalStart /\ Width < Last(indent_stack) /\ PopsTo(k)
        /\ indent_stack' = SubSeq(indent_stack, 1, k)
        /\ Emitted("dedent")
        /\ after_colon' = FALSE
        /\ IF indent_stack[k] = Width THEN UNCHANGED lexed ELSE Fail("InconsistentDedent")

Shallower ==
    \E k \in 1..(Len(indent_stack) - 1) :
        /\ LogicalStart /\ Width < Last(indent_stack) /\ PopsTo(k)
        /\ indent_stack' = SubSeq(indent_stack, 1, k)
        /\ tokens' = tokens \o [j \in 1..(Len(indent_stack) - k) |-> Token("dedent")]
        /\ after_colon' = FALSE
        /\ IF indent_stack[k] = Width THEN UNCHANGED lexed ELSE Fail("InconsistentDedent")

SameLevel ==
    /\ LogicalStart
    /\ Width = Last(indent_stack)
    /\ IF after_colon THEN Fail("ExpectedIndentAfterColon") ELSE UNCHANGED lexed
    /\ UNCHANGED <<indent_stack, tokens, after_colon>>

(***************************************************************************)
(* The rest of a line: one token a step (run), then its end                 *)
(* (handle_newline).                                                        *)
(***************************************************************************)
InLine == lexed = "no" /\ ~AtEnd /\ ~at_line_start

BracketsBelowZero(kind) ==               \* mutant: an unmatched bracket counts
    CASE kind = "open"  -> bracket_depth + 1
      [] kind = "close" -> bracket_depth - 1
      [] OTHER          -> bracket_depth

BracketsAfter(kind) ==
    CASE kind = "open"  -> bracket_depth + 1
      [] kind = "close" -> IF bracket_depth > 0 THEN bracket_depth - 1 ELSE 0
      [] OTHER          -> bracket_depth

Scan ==
    /\ InLine /\ col <= Len(Here.text)
    /\ Emitted(Here.text[col])
    /\ bracket_depth' = BracketsAfter(Here.text[col])
    /\ col' = col + 1
    /\ UNCHANGED <<source, line, indent_stack, at_line_start, after_colon,
                   indent_char, lexed>>

(* The last token that is not layout is a colon (last_real_token_is_colon). *)
LastRealIsColon ==
    LET real == {k \in DOMAIN tokens : tokens[k].kind \notin LayoutKinds}
    IN  real # {} /\ tokens[Max(real)].kind = "colon"

LineBreak == line < Len(source.lines) \/ source.newline

Newline ==
    /\ InLine /\ col > Len(Here.text) /\ LineBreak
    /\ IF bracket_depth = 0
       THEN after_colon' = LastRealIsColon /\ Emitted("newline")
       ELSE UNCHANGED <<after_colon, tokens>>
    /\ at_line_start' = TRUE
    /\ line' = line + 1 /\ col' = 1
    /\ UNCHANGED <<source, indent_stack, bracket_depth, indent_char, lexed>>

(***************************************************************************)
(* The end of the source (emit_eof_dedents): a missing line break, a DEDENT *)
(* for each open block, then Eof.  Nothing is closed inside brackets.       *)
(***************************************************************************)
Exhausted == AtEnd \/ (~at_line_start /\ col > Len(Here.text) /\ ~LineBreak)

NeedsNewline == tokens # <<>> /\ Last(tokens).kind \notin LayoutKinds

EofTokens ==
    IF bracket_depth > 0 THEN <<Token("eof")>>
    ELSE (IF NeedsNewline THEN <<Token("newline")>> ELSE <<>>)
         \o [k \in 1..(Len(indent_stack) - 1) |-> Token("dedent")]
         \o <<Token("eof")>>

EndOfSource ==
    /\ lexed = "no" /\ Exhausted
    /\ tokens' = tokens \o EofTokens
    /\ indent_stack' = IF bracket_depth > 0 THEN indent_stack ELSE <<0>>
    /\ lexed' = "yes"
    /\ UNCHANGED <<source, line, col, bracket_depth, at_line_start, after_colon,
                   indent_char>>

LexInit ==
    /\ source \in Sources
    /\ line = 1 /\ col = 1
    /\ tokens = <<>>
    /\ indent_stack = <<0>>
    /\ bracket_depth = 0
    /\ at_line_start = TRUE
    /\ after_colon = FALSE
    /\ indent_char = "none"
    /\ lexed = "no"

LexNext ==
    \/ MixedLine \/ BlankLine \/ Continued
    \/ Deeper \/ Shallower \/ SameLevel
    \/ Scan \/ Newline \/ EndOfSource

LexSpec == LexInit /\ [][LexNext]_lexVars

(***************************************************************************)
(* The stack of widths is never empty (the lexer takes its last element     *)
(* without asking), rises strictly from 0, so that a line can stand at one  *)
(* level only, and the bracket counter, an unsigned integer, never goes     *)
(* below zero, whatever brackets a source closes.                           *)
(***************************************************************************)
Errors == {"MixedIndentation", "UnexpectedIndent", "InconsistentDedent",
           "ExpectedIndentAfterColon"}

LexTypeOK ==
    /\ line \in Nat \ {0} /\ col \in Nat \ {0}
    /\ indent_stack \in Seq(Nat) /\ Len(indent_stack) >= 1
    /\ indent_stack[1] = 0
    /\ \A i, j \in DOMAIN indent_stack : i < j => indent_stack[i] < indent_stack[j]
    /\ bracket_depth \in Nat
    /\ at_line_start \in BOOLEAN /\ after_colon \in BOOLEAN
    /\ lexed \in {"no", "yes"} \cup Errors
===============================================================================
