-------------------------------- MODULE Lexer --------------------------------
(***************************************************************************)
(* Lexer::next (lexer.rs): newlines become semicolons.  The tokens come from   *)
(* the generated lexer of the logos crate, which skips blanks and comments,    *)
(* makes one Newline of newlines in a row, and yields an error where no token   *)
(* matches.                                                                  *)
(*                                                                         *)
(* Each turn of the loop in `next` is an action, whether or not it yields.  The *)
(* caller asks for tokens one after the other, so `output` is what it has been  *)
(* given so far.                                                             *)
(***************************************************************************)
EXTENDS Syntax, TLAPS

VARIABLES
  source,       \* what the generated lexer will yield, in order
  pos,          \* how many of these it has yielded
  last_tok,
  eof_emitted,
  output,       \* the tokens returned
  ended         \* `next` has returned None

lexer == <<source, pos, last_tok, eof_emitted, output, ended>>

Newline   == Tok("Newline")
Semicolon == Tok("Semicolon")
Eof       == Tok("Eof")
Error     == Tok("Error")      \* an Err of the generated lexer

is_semicolon_candidate(tok) ==
  tok.k \in {"Var", "Int", "True", "False", "Return", "RParen", "RBrace",
             "TInt", "TBool", "RBrack", "StringLiteral"}

LexerInit ==
  /\ pos = 0
  /\ last_tok = Eof
  /\ eof_emitted = FALSE
  /\ output = <<>>
  /\ ended = FALSE

Input == source[pos + 1]

Reading == ~ended /\ pos < Len(source)

\* Any other token is handed on.  A token Eof, on which `next` would insert a
\* semicolon, is nothing the generated lexer yields.
YieldToken ==
  /\ Reading
  /\ Input \notin {Newline, Error}
  /\ pos' = pos + 1
  /\ last_tok' = Input
  /\ output' = Append(output, Input)
  /\ UNCHANGED <<source, eof_emitted, ended>>

\* A broken variant: remembers the token before the newline.
InsertSemicolon_Keeping ==
  /\ Reading
  /\ Input = Newline
  /\ is_semicolon_candidate(last_tok)
  /\ pos' = pos + 1
  /\ output' = Append(output, Semicolon)
  /\ UNCHANGED <<source, last_tok, eof_emitted, ended>>

InsertSemicolon ==
  /\ Reading
  /\ Input = Newline
  /\ is_semicolon_candidate(last_tok)
  /\ pos' = pos + 1
  /\ last_tok' = Newline
  /\ output' = Append(output, Semicolon)
  /\ UNCHANGED <<source, eof_emitted, ended>>

\* A broken variant: looks at the newline and leaves it there.
SkipNewline_Standing ==
  /\ Reading
  /\ Input = Newline
  /\ ~is_semicolon_candidate(last_tok)
  /\ UNCHANGED <<source, pos, last_tok, eof_emitted, output, ended>>

\* `continue`, which leaves last_tok as it was.
SkipNewline ==
  /\ Reading
  /\ Input = Newline
  /\ ~is_semicolon_candidate(last_tok)
  /\ pos' = pos + 1
  /\ UNCHANGED <<source, last_tok, eof_emitted, output, ended>>

\* `token_res.ok()?` makes None of an error.  The parser takes None as the end
\* and asks no more.
StopAtError ==
  /\ Reading
  /\ Input = Error
  /\ pos' = pos + 1
  /\ ended' = TRUE
  /\ UNCHANGED <<source, last_tok, eof_emitted, output>>

\* The end of the input, the first time: a last semicolon if one is due.
LastSemicolon ==
  /\ ~ended /\ pos = Len(source)
  /\ ~eof_emitted
  /\ eof_emitted' = TRUE
  /\ output' = IF is_semicolon_candidate(last_tok) THEN Append(output, Semicolon) ELSE output
  /\ UNCHANGED <<source, pos, last_tok, ended>>

EndOfInput ==
  /\ ~ended /\ pos = Len(source)
  /\ eof_emitted
  /\ ended' = TRUE
  /\ UNCHANGED <<source, pos, last_tok, eof_emitted, output>>

LexerNext ==
  \/ YieldToken \/ InsertSemicolon \/ SkipNewline
  \/ StopAtError \/ LastSemicolon \/ EndOfInput

-----------------------------------------------------------------------------
\* "A newline becomes a ";" only if the preceding token could end a statement
\* [...].  Any other newline is discarded.  A final ";" is also inserted at end
\* of file if the last token was one of the above" (README, Semicolon
\* insertion).  Nothing else is added and nothing dropped: on every prefix of
\* the source, what is returned is what this rule says, although the code
\* remembers a token that need not be the preceding one.
EndsStatement(i) == i > 0 /\ is_semicolon_candidate(source[i])

InsertsByTheRule ==
  [][ IF pos' = pos
      THEN \/ output' = output
           \/ EndsStatement(Len(source)) /\ pos = Len(source) /\ output' = Append(output, Semicolon)
      ELSE \/ source[pos'] = Newline
                /\ output' = IF EndsStatement(pos) THEN Append(output, Semicolon) ELSE output
           \/ source[pos'] = Error /\ output' = output
           \/ source[pos'] \notin {Newline, Error} /\ output' = Append(output, source[pos']) ]_lexer

-----------------------------------------------------------------------------
\* The same of every text.  While the lexer is reading, the token it remembers
\* can end a statement exactly if the last one it read can: what it skips and
\* does not remember are newlines, after tokens that cannot.

Token == [k : STRING, name : STRING, n : Int]

LexerSpec == source \in Seq(Token) /\ LexerInit /\ [][LexerNext]_lexer

Remembers ==
  /\ source \in Seq(Token)
  /\ pos \in 0 .. Len(source)
  /\ ~ended => (is_semicolon_candidate(last_tok) <=> EndsStatement(pos))

\* A newline, the end and an error end no statement.
LEMMA NoneOfThese ==
  /\ ~is_semicolon_candidate(Newline)
  /\ ~is_semicolon_candidate(Eof)
  /\ ~is_semicolon_candidate(Error)
<1>1. Newline.k = "Newline" /\ Eof.k = "Eof" /\ Error.k = "Error"
  BY DEF Newline, Eof, Error, Tok
<1> QED
  BY <1>1 DEF is_semicolon_candidate

\* What the lexer remembers is always as good as the last token it has read.
LEMMA RemembersHolds == LexerSpec => []Remembers
<1>1. source \in Seq(Token) /\ LexerInit => Remembers
  BY NoneOfThese DEF LexerInit, Remembers, EndsStatement
<1>2. Remembers /\ [LexerNext]_lexer => Remembers'
  <2> SUFFICES ASSUME Remembers, [LexerNext]_lexer PROVE Remembers'
    OBVIOUS
  <2> USE DEF Remembers, EndsStatement, Reading, Input
  <2>1. CASE YieldToken
    BY <2>1 DEF YieldToken
  <2>2. CASE InsertSemicolon
    BY <2>2, NoneOfThese DEF InsertSemicolon
  <2>3. CASE SkipNewline
    BY <2>3, NoneOfThese DEF SkipNewline
  <2>4. CASE StopAtError
    BY <2>4 DEF StopAtError
  <2>5. CASE LastSemicolon
    BY <2>5 DEF LastSemicolon
  <2>6. CASE EndOfInput
    BY <2>6 DEF EndOfInput
  <2>7. CASE UNCHANGED lexer
    BY <2>7 DEF lexer
  <2> QED
    BY <2>1, <2>2, <2>3, <2>4, <2>5, <2>6, <2>7 DEF LexerNext
<1> QED
  BY <1>1, <1>2, PTL DEF LexerSpec

\* On any text whatever, newlines become semicolons by the rule and by nothing
\* else (Lexer::next).
THEOREM SemicolonsByTheRule == LexerSpec => InsertsByTheRule
<1> DEFINE Rule ==
      IF pos' = pos
      THEN \/ output' = output
           \/ EndsStatement(Len(source)) /\ pos = Len(source) /\ output' = Append(output, Semicolon)
      ELSE \/ source[pos'] = Newline
                /\ output' = IF EndsStatement(pos) THEN Append(output, Semicolon) ELSE output
           \/ source[pos'] = Error /\ output' = output
           \/ source[pos'] \notin {Newline, Error} /\ output' = Append(output, source[pos'])
<1>1. Remembers /\ [LexerNext]_lexer => [Rule]_lexer
  <2> SUFFICES ASSUME Remembers, LexerNext PROVE Rule
    OBVIOUS
  <2> USE DEF Remembers, Reading, Input
  <2>1. CASE YieldToken
    BY <2>1 DEF YieldToken
  <2>2. CASE InsertSemicolon
    BY <2>2 DEF InsertSemicolon
  <2>3. CASE SkipNewline
    BY <2>3 DEF SkipNewline
  <2>4. CASE StopAtError
    BY <2>4 DEF StopAtError
  <2>5. CASE LastSemicolon
    BY <2>5 DEF LastSemicolon
  <2>6. CASE EndOfInput
    BY <2>6 DEF EndOfInput
  <2> QED
    BY <2>1, <2>2, <2>3, <2>4, <2>5, <2>6 DEF LexerNext
<1>2. LexerSpec => [][LexerNext]_lexer
  BY DEF LexerSpec
<1> QED
  BY <1>1, <1>2, RemembersHolds, PTL DEF InsertsByTheRule
=============================================================================
