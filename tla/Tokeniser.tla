----------------------------- MODULE Tokeniser -----------------------------
(***************************************************************************)
(* The native tokeniser (utility/tokeniser.asm): the characters of a line  *)
(* become the words of the token buffer, one item per action.  Writing is  *)
(* word by word; the characters of a string are written as words too, each *)
(* over the high byte of the one before.  The buffer is a page: it is full *)
(* when the pointer behind a word reaches the next one.                    *)
(*                                                                         *)
(* Characters are their codes; the form of tokens and the classes of       *)
(* characters are those of TokenReference.                                 *)
(***************************************************************************)
EXTENDS TokenReference

CONSTANT Texts  \* the lines

TextsAssumption == \A s \in Texts : s \in Seq(Blank..255)

VARIABLES
  line,   \* the line as it was typed
  text,   \* the line in memory
  at,     \* DTemp1: the next character
  out,    \* what the token buffer holds,
  used,   \* DTemp2: the bytes of it,
  top,    \* and how many have been written to at all
  label

vars == <<line, text, at, out, used, top, label>>

Init ==
  /\ line \in Texts /\ text = line /\ at = 1
  /\ out = <<>> /\ used = 0 /\ top = 0 /\ label = "case"

\* _TOKCap: what is not in quotes becomes upper case.
CapitalisedAll(s) == AllUpper(s)   \* mutant
Capitalised(s) ==
  [i \in DOMAIN s |->
     IF Cardinality({j \in 1..i : s[j] = Quote}) % 2 = 0 THEN Upper(s[i]) ELSE s[i]]

Capitalise ==
  /\ label = "case"
  /\ text' = Capitalised(text) /\ label' = "scan"
  /\ UNCHANGED <<line, at, out, used, top>>

-----------------------------------------------------------------------------
(* TOKWriteToken. *)

Full(u) == (u + 2) % BufferSize = 0

\* Where a token at u is written to: its word, the length and the characters.
WritesWord(t, u) == {u}   \* mutant
Writes(t, u) == {u} \cup IF t.is = "string" THEN (u + 2)..(u + 2 + Len(t.text)) ELSE {}

Emit(ts) ==
  LET start[i \in 1..(Len(ts) + 1)] ==
        IF i = 1 THEN used ELSE start[i - 1] + Size(ts[i - 1])
      all == UNION {Writes(ts[i], start[i]) : i \in DOMAIN ts}
      full == {u \in all : Full(u)}
      last == IF full = {} THEN all ELSE {Min(full)}
  IN /\ top' = Max({top} \cup {u + 2 : u \in last})
     /\ IF full = {}
          THEN /\ out' = out \o ts /\ used' = start[Len(ts) + 1]
               /\ label' = label
          ELSE label' = "Line too long" /\ UNCHANGED <<out, used>>

Fail(message) == label' = message /\ UNCHANGED <<out, used, top>>

\* TOKKeywordSearch: a keyword of n characters at the next one.
Found(n) ==
  {k \in DOMAIN Table : /\ Len(Table[k].text) = n /\ at + n - 1 <= Len(text)
                        /\ Table[k].text = SubSeq(text, at, at + n - 1)}

Scanning == label = "scan" /\ at <= Len(text) /\ UNCHANGED <<line, text>>
Here == text[at]

Space ==
  /\ Scanning /\ Here = Blank
  /\ at' = at + 1 /\ UNCHANGED <<out, used, top, label>>

QuotedString ==
  /\ Scanning /\ Here = Quote
  /\ LET ends == {i \in (at + 1)..Len(text) : text[i] = Quote}
     IN IF ends = {}
          THEN Fail("Missing closing quote") /\ at' = Len(text) + 1
          ELSE Emit(<<Text(SubSeq(text, at + 1, Min(ends) - 1))>>) /\ at' = Min(ends) + 1

\* Two characters are tried before one.
Lengths == <<2, 1>>
Punctuation ==
  /\ Scanning /\ Here \notin {Blank, Quote} /\ ~IsDigit(Here) /\ ~IsUpper(Here)
  /\ LET n == IF Found(Lengths[1]) # {} THEN Lengths[1] ELSE Lengths[2]
     IN IF Found(n) = {}
          THEN Fail("Cannot parse line") /\ UNCHANGED at
          ELSE Emit(<<Keyword(Min(Found(n)))>>) /\ at' = at + n

\* TOKInteger: four bits of the long word have to stay free before the next
\* digit is added, five of them in the end.
LongTop == 32 * LowTop * ShiftTop
TooLarge(v) == (v * 10) % LongTop >= 2 * LowTop * ShiftTop
ShiftFits(v) == v \div LowTop < ShiftTop
Number ==
  /\ Scanning /\ IsDigit(Here)
  /\ LET n == Run(text, at, IsDigit)
         sum[i \in 0..n] == IF i = 0 THEN 0
                            ELSE ((sum[i - 1] * 10) % LongTop) + text[at + i - 1] - 48
         large == {i \in 1..n : TooLarge(sum[i - 1])}
     IN IF large # {}
          THEN Fail("Integer too large") /\ at' = at + Min(large) - 1
          ELSE /\ at' = at + n
               /\ IF ShiftFits(sum[n]) THEN Emit(ConstantTokens(sum[n]))
                  ELSE Fail("Integer too large")

\* TOKIdentifier: the name with its $ and ( is a keyword, or its characters
\* are packed two by two.
Identifier ==
  /\ Scanning /\ IsUpper(Here)
  /\ LET UpperWord(c) == IsUpper(c) \/ IsDigit(c)
         n == Run(text, at, UpperWord)
         str == Has(text, at + n, Dollar)
         m == IF str THEN n + 1 ELSE n
         arr == Has(text, at + m, Bracket)
         whole == IF arr THEN m + 1 ELSE m
     IN /\ Emit(IF Found(whole) # {} THEN <<Keyword(Min(Found(whole)))>>
                ELSE NameTokens(SubSeq(text, at, at + n - 1), str, arr))
        /\ at' = at + whole

\* _TOKExit: the zero word.
EndOfLine ==
  /\ label = "scan" /\ at > Len(text)
  /\ top' = Max({top, used + 2})
  /\ label' = IF Full(used) THEN "Line too long" ELSE "done"
  /\ UNCHANGED <<line, text, at, out, used>>

Next ==
  \/ Capitalise \/ Space \/ QuotedString \/ Punctuation \/ Number \/ Identifier
  \/ EndOfLine

Spec == Init /\ [][Next]_vars

-----------------------------------------------------------------------------
(* Properties. *)

Errors == {"Line too long", "Missing closing quote", "Cannot parse line",
           "Integer too large"}
TypeOK ==
  /\ text \in Seq(Blank..255) /\ Len(text) = Len(line)
  /\ at \in 1..(Len(text) + 1)
  /\ \A i \in DOMAIN out :
       /\ out[i].is \in {"keyword", "shift", "constant", "name", "string"}
       /\ out[i].is = "constant" => out[i].n \in 0..(LowTop - 1)
       /\ out[i].is = "shift" => out[i].n \in 1..(ShiftTop - 1)
       /\ out[i].is = "name" => out[i].n \in 1..2047
  /\ used = Bytes(out) /\ label \in {"case", "scan", "done"} \cup Errors

\* However long the line, nothing is written behind the token buffer, where the
\* program is (tokeniser.asm:144-153, 267-293).
WithinBuffer == top <= BufferSize

\* The native tokeniser gives the words that the script gives, case, spaces and
\* strings included (testing.asm, make_tokenise.py), and refuses only what the
\* script refuses or what does not fit in.
SameTokens ==
  /\ label = "done" => Tokenised(line).ok /\ Tokenised(line).tokens = out
  /\ label \in Errors \ {"Line too long"} => ~Tokenised(line).ok
  /\ label = "Line too long" =>
       ~Tokenised(line).ok \/ Bytes(Tokenised(line).tokens) + 2 >= BufferSize
=============================================================================
