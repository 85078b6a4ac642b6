------------------------------ MODULE Listing ------------------------------
(***************************************************************************)
(* LIST (commands/list.asm): the lines of the program are scanned for the  *)
(* words that open and close structures, and those in the range are turned *)
(* back into characters in a temp string, behind their number and as many  *)
(* spaces as they are nested.  The length of a string is a byte.           *)
(*                                                                         *)
(* Line and token formats are those of TokenReference.                     *)
(***************************************************************************)
EXTENDS TokenReference

CONSTANTS
  Programs,     \* sequences of lines: number and tokens
  Arguments,    \* what stands behind LIST
  ByteTop,      \* 256: a string has at most one character less
  LastNumber    \* $7FFF

None == -1
Tokens == [is : {"keyword"}, n : DOMAIN Table] \cup [is : {"shift", "constant"}, n : Nat]
            \cup [is : {"name"}, n : Nat, more : BOOLEAN, str : BOOLEAN, arr : BOOLEAN]
            \cup [is : {"string"}, text : Seq(Nat)]
ASSUME ListingAssumption ==
  /\ ByteTop \in Nat /\ ByteTop > 6 /\ LastNumber \in Nat
  /\ \A p \in Programs :
       /\ p \in Seq([number : 1..LastNumber, tokens : Seq(Tokens)])
       /\ \A i \in DOMAIN p : Len(p[i].tokens) <= ByteTop
  /\ \A a \in Arguments : /\ a.first \in 0..LastNumber \cup {None}
                          /\ a.comma \in BOOLEAN
                          /\ a.last \in 0..LastNumber \cup {None}
                          /\ a.last # None => a.comma

VARIABLES
  program, from, to,
  line,             \* Y: the index of the next line
  indent, indent2,  \* DIndent and DIndent2: depth behind the line, before it
  length,           \* of the string while it is padded
  shown,            \* the lines that have been printed
  label

vars == <<program, from, to, line, indent, indent2, length, shown, label>>
given == <<program, from, to>>

\* A number alone is the first and the last line; a comma opens a side.
From(a) == IF a.first = None THEN 0 ELSE a.first
To(a) == IF a.last # None THEN a.last
         ELSE IF a.first # None /\ ~a.comma THEN a.first ELSE LastNumber

Init ==
  /\ program \in Programs
  /\ \E a \in Arguments : from = From(a) /\ to = To(a)
  /\ line = 1 /\ indent = 0 /\ indent2 = 0 /\ length = 0 /\ shown = <<>>
  /\ label = "next"

-----------------------------------------------------------------------------
(* ScanIndent. *)

Opens == 14
Closes == 13
Type(t) == IF t.is = "keyword" THEN Table[t.n].type ELSE None
After(d, t) == IF Type(t) = Opens THEN d + 1
               ELSE IF Type(t) = Closes /\ d > 0 THEN d - 1 ELSE d
ScanIndent(d, ts) ==
  LET depth[i \in 0..Len(ts)] == IF i = 0 THEN d ELSE After(depth[i - 1], ts[i])
  IN depth[Len(ts)]

-----------------------------------------------------------------------------
(* Detokenise. *)

Colon == 58
Digits(v) ==
  LET f[n \in 0..v] == IF n < 10 THEN <<48 + n>> ELSE Append(f[n \div 10], 48 + (n % 10))
  IN f[v]
Spaces(n) == [i \in 1..n |-> Blank]

\* _DTKIOutA: lower case.
Character(c) == IF c < 27 THEN 96 + c ELSE 48 + c - 27
Characters(n) ==
  LET low == n % Base
      high == n \div Base
  IN (IF low = 0 THEN <<>> ELSE <<Character(low)>>)
       \o (IF high = 0 THEN <<>> ELSE <<Character(high)>>)

\* _DTKDecodeKeyword: words are set off by spaces.
Spaced(k) == Table[k].type >= 12
SpacingBehind(k, before) ==   \* mutant
  Table[k].text \o IF Spaced(k) THEN <<Blank>> ELSE <<>>
Spacing(k, before) ==
  (IF Spaced(k) /\ before \notin {Blank, Colon} THEN <<Blank>> ELSE <<>>)
    \o Table[k].text \o (IF Spaced(k) THEN <<Blank>> ELSE <<>>)

\* What a token adds to a string that ends in a character, with the constant
\* shift before it.
Piece(t, shift, before) ==
  CASE t.is = "string"   -> <<Quote>> \o t.text \o <<Quote>>
    [] t.is = "shift"    -> <<>>
    [] t.is = "constant" -> Digits(shift * LowTop + t.n)
    [] t.is = "keyword"  -> Spacing(t.n, before)
    [] t.is = "name"     -> Characters(t.n)
         \o (IF t.str /\ ~t.more THEN <<Dollar>> ELSE <<>>)
         \o (IF t.arr /\ ~t.more THEN <<Bracket>> ELSE <<>>)

Detokenised(start, ts) ==
  LET ConstantShift(i) == IF i > 1 /\ ts[i - 1].is = "shift" THEN ts[i - 1].n ELSE 0
      string[i \in 0..Len(ts)] ==
        IF i = 0 THEN start
        ELSE string[i - 1]
               \o Piece(ts[i], ConstantShift(i), string[i - 1][Len(string[i - 1])])
  IN string[Len(ts)]

-----------------------------------------------------------------------------
(* Command_List, one line per round. *)

Smaller == IF indent < indent2 THEN indent ELSE indent2
Padding == 2 * Smaller + 6

ShownOnly(d, ts, in) == IF in THEN ScanIndent(d, ts) ELSE d   \* mutant
Scanned(d, ts, in) == ScanIndent(d, ts)

\* HWCheckBreak behind each line.
Follow ==
  \E pressed \in BOOLEAN :
    /\ label' = IF pressed THEN "exit" ELSE "next"
    /\ line' = line + 1

Here == program[line]
InRange == from <= Here.number /\ Here.number <= to

PassOver ==
  /\ label = "next" /\ line <= Len(program) /\ ~InRange
  /\ indent2' = indent /\ indent' = Scanned(indent, Here.tokens, FALSE)
  /\ Follow
  /\ UNCHANGED <<given, length, shown>>

StartLine ==
  /\ label = "next" /\ line <= Len(program) /\ InRange
  /\ indent2' = indent /\ indent' = Scanned(indent, Here.tokens, TRUE)
  /\ length' = Len(Digits(Here.number)) /\ label' = "pad"
  /\ UNCHANGED <<given, line, shown>>

\* _DTKPadLineNo: a space, then the length is compared.
Padded(n) == (n + 1) % ByteTop
Pad ==
  /\ label = "pad"
  /\ length' = Padded(length)
  /\ label' = IF Padded(length) = Padding THEN "line" ELSE "pad"
  /\ UNCHANGED <<given, line, indent, indent2, shown>>

\* The characters that the length byte counts are printed.
Printed(s) == SubSeq(s, 1, Len(s) % ByteTop)
ShowLine ==
  /\ label = "line"
  /\ LET number == Digits(Here.number)
         start == number \o Spaces(Padding - Len(number))
     IN shown' = Append(shown, [at |-> line, pad |-> Padding,
                                text |-> Printed(Detokenised(start, Here.tokens))])
  /\ Follow
  /\ UNCHANGED <<given, indent, indent2, length>>

Exit ==
  /\ \/ label = "exit"
     \/ label = "next" /\ line > Len(program)
  /\ label' = "done" /\ indent' = 0
  /\ UNCHANGED <<given, line, indent2, length, shown>>

Next == PassOver \/ StartLine \/ Pad \/ ShowLine \/ Exit
Spec == Init /\ [][Next]_vars

-----------------------------------------------------------------------------
(* Properties. *)

TypeOK ==
  /\ from \in 0..LastNumber /\ to \in 0..LastNumber
  /\ line \in 1..(Len(program) + 1)
  /\ indent \in Nat /\ indent2 \in Nat /\ length \in 0..(ByteTop - 1)
  /\ \A i \in DOMAIN shown : shown[i].at \in DOMAIN program
  /\ label \in {"next", "pad", "line", "exit", "done"}

\* Two tokens whose characters read as something else when nothing is between
\* them: A B, A (B), 1 2, > >.
Letters(t) == t.is = "keyword" /\ ~Spaced(t.n) /\ IsAlpha(Head(Table[t.n].text))
Symbol(t) == t.is = "keyword" /\ ~IsAlpha(Head(Table[t.n].text))
Glued(t, u) ==
  \/ /\ t.is = "name" /\ ~t.more /\ ~t.arr
     /\ \/ ~t.str /\ (u.is \in {"name", "shift", "constant"} \/ Letters(u))
        \/ Symbol(u) /\ Head(Table[u.n].text) = Bracket
  \/ t.is = "constant" /\ u.is \in {"shift", "constant"}
  \/ /\ Symbol(t) /\ Symbol(u)
     /\ \E k \in DOMAIN Table :
          /\ Len(Table[k].text) > Len(Table[t.n].text)
          /\ k \in Starting(Table[t.n].text \o Table[u.n].text)
Separate(ts) == \A i \in 1..(Len(ts) - 1) : ~Glued(ts[i], ts[i + 1])

\* A listed line reads back as the tokens it was made from, with its number in
\* front: keywords keep their distance, names and constants are unpacked as they
\* were packed (list.asm:103-350 against tokeniser.asm).
ReadsBack ==
  \A i \in DOMAIN shown :
    LET l == program[shown[i].at]
        number == Run(shown[i].text, 1, IsDigit)
        code == SubSeq(shown[i].text, number + 1, Len(shown[i].text))
    IN Separate(l.tokens) =>
         /\ Value(SubSeq(shown[i].text, 1, number)) = l.number
         /\ Tokenised(code).ok /\ Tokenised(code).tokens = l.tokens

\* list.asm:57 "scan the whole program to track structure, only output the lines
\* we want": a line is as far to the right as structures are open before and
\* behind it, whatever part of the program is listed.
Words(k, n) == {w \in (1..n) \X (1..ByteTop) :
                  LET ts == program[w[1]].tokens
                  IN w[2] \in DOMAIN ts /\ Type(ts[w[2]]) = k}
Open(n) == Cardinality(Words(Opens, n)) - Cardinality(Words(Closes, n))
Before(k, w) == {v \in Words(k, w[1]) : v[1] < w[1] \/ v[2] < w[2]}
Balanced == \A w \in Words(Closes, Len(program)) :
              Cardinality(Before(Opens, w)) > Cardinality(Before(Closes, w))
IndentShows ==
  Balanced => \A i \in DOMAIN shown :
    shown[i].pad = 6 + 2 * Min({Open(shown[i].at - 1), Open(shown[i].at)})
=============================================================================
