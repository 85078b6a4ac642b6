------------------------------- MODULE MCText -------------------------------
(***************************************************************************)
(* Lines of text and of tokens: either Tokeniser moves, or Listing.        *)
(*                                                                         *)
(* Tokeniser: lines of up to five characters: a keyword, its letters in    *)
(* both cases, a function with $ and (, punctuation of one and two         *)
(* characters, digits for constants with and without a shift and for ones  *)
(* too large, strings; a buffer of ten bytes.                              *)
(*                                                                         *)
(* Listing: one line of up to three items with every kind of token;        *)
(* programs of four lines with structure words.                            *)
(***************************************************************************)
EXTENDS Listing

VARIABLES part, typed, text, at, out, used, top, toklabel

MCTable == << [text |-> <<62>>, type |-> 1],               \* >
              [text |-> <<62, 62>>, type |-> 3],           \* >>
              [text |-> <<40>>, type |-> 9],               \* (
              [text |-> <<58>>, type |-> 9],               \* :
              [text |-> <<79, 36, 40>>, type |-> 8],       \* O$(
              [text |-> <<84, 79>>, type |-> 12],          \* TO
              [text |-> <<73, 70>>, type |-> 14],          \* IF
              [text |-> <<87, 69, 78, 68>>, type |-> 13] >> \* WEND

Plain(s) == NameTokens(s, FALSE, FALSE)
Items ==
  {<<Keyword(k)>> : k \in 1..8} \cup {Plain(<<65>>), Plain(<<90, 57, 66>>)}
    \cup {NameTokens(<<65, 48>>, TRUE, TRUE), NameTokens(<<84>>, TRUE, FALSE)}
    \cup {ConstantTokens(7), ConstantTokens(60), <<Text(<<>>)>>, <<Text(<<97, 65>>)>>}
Line(n, ts) == [number |-> n, tokens |-> ts]
Flat(s) == LET f[i \in 0..Len(s)] == IF i = 0 THEN <<>> ELSE f[i - 1] \o s[i]
           IN f[Len(s)]
MCLines == {<<Line(5, Flat(s))>> : s \in UNION {[1..n -> Items] : n \in 1..3}}

\* Structure words one, two or none to a line.
Structures ==
  {<<Keyword(6)>>, <<Keyword(8)>>, <<Keyword(8), Keyword(8)>>,
   <<Keyword(8), Keyword(7)>>, <<Keyword(7), Keyword(8)>>, <<Text(<<97>>), Keyword(7)>>}
MCNests == {[i \in 1..4 |-> Line(i, p[i])] : p \in [1..4 -> Structures]}

Argument(a, c, b) == [first |-> a, comma |-> c, last |-> b]
MCAll == {Argument(None, FALSE, None)}
MCArguments ==
  MCAll \cup {Argument(2, FALSE, None), Argument(2, TRUE, None),
              Argument(None, TRUE, 3), Argument(2, TRUE, 3), Argument(3, TRUE, 2)}
MCPrograms == MCLines \cup MCNests

MCCharacters == {32, 34, 36, 40, 49, 62, 79, 84, 111}
MCTexts == UNION {[1..n -> MCCharacters] : n \in 0..5}
Tok == INSTANCE Tokeniser WITH
  BufferSize <- 10, Texts <- MCTexts, line <- typed, label <- toklabel

ASSUME MCTextAssumption == Tok!TextsAssumption

tokVars == <<typed, text, at, out, used, top, toklabel>>

\* The routine that does not run rests before a line.
MCInit ==
  \/ /\ part = "listing" /\ typed = <<>> /\ Tok!Init /\ Init
     /\ program \in MCLines => from = 0 /\ to = LastNumber
  \/ /\ part = "tokeniser" /\ from = 0 /\ to = LastNumber
     /\ program = <<Line(5, <<Keyword(1)>>)>> /\ Init /\ Tok!Init
MCNext ==
  /\ UNCHANGED part
  /\ \/ part = "listing" /\ Next /\ UNCHANGED tokVars
     \/ part = "tokeniser" /\ Tok!Next /\ UNCHANGED vars
MCSpec == MCInit /\ [][MCNext]_<<part, vars, tokVars>>

----------------------------------------------------------------------------
(* Properties. *)

\* Both parts keep their types, and no word of a line is written outside the
\* token buffer: every write is followed by the check (tokeniser.asm:331).
WithinBuffer == TypeOK /\ Tok!TypeOK /\ Tok!WithinBuffer

\* A line becomes the tokens the host's tokeniser makes of it, and an error is
\* reported where that one finds none (tokeniser.asm).
SameTokens == Tok!SameTokens
=============================================================================
