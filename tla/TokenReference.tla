-------------------------- MODULE TokenReference --------------------------
(***************************************************************************)
(* The tokeniser of the host scripts (scripts/tokeniser.py), which builds  *)
(* the programs of the tests and is what their assertions on the native    *)
(* tokeniser are made of: one item after the other, read by its form, and  *)
(* the characters and words that a token stands for.                       *)
(***************************************************************************)
EXTENDS Integers, Sequences, FiniteSets, FiniteSetsExt

CONSTANTS
  Table,        \* the keywords: text and type, in the order of their numbers
  LowTop,       \* a constant token has the low bits of a constant (2^15),
  ShiftTop,     \* a constant shift before it the other ones (2^12)
  BufferSize    \* of the token buffer, in bytes (256)

ASSUME TokenAssumption ==
  /\ \A k \in DOMAIN Table : Table[k].text \in Seq(Nat) /\ Table[k].type \in 0..15
  /\ \A k, l \in DOMAIN Table : Table[k].text = Table[l].text => k = l
  /\ LowTop \in Nat \ {0} /\ ShiftTop \in Nat \ {0}
  /\ BufferSize \in Nat /\ BufferSize % 2 = 0 /\ BufferSize > 4

Blank == 32
Quote == 34
Dollar == 36
Bracket == 40
IsDigit(c) == c \in 48..57
IsUpper(c) == c \in 65..90
IsLower(c) == c \in 97..122
IsAlpha(c) == IsUpper(c) \/ IsLower(c)
IsWord(c) == IsAlpha(c) \/ IsDigit(c)
Upper(c) == IF IsLower(c) THEN c - 32 ELSE c
AllUpper(s) == [i \in DOMAIN s |-> Upper(s[i])]

\* The characters of a name are 1..36; two of them are a token.
Base == 45
Code(c) == IF IsAlpha(c) THEN Upper(c) - 64 ELSE c - 48 + 27
Packed(c, d) == c + Base * d

Keyword(k) == [is |-> "keyword", n |-> k]
Shift(n) == [is |-> "shift", n |-> n]
Constant(n) == [is |-> "constant", n |-> n]
Text(s) == [is |-> "string", text |-> s]
Name(n, more, str, arr) ==
  [is |-> "name", n |-> n, more |-> more, str |-> str, arr |-> arr]
\* Bytes: a token is a word, a string has its length and characters too.
Size(t) == IF t.is = "string" THEN 2 * ((Len(t.text) + 4) \div 2) ELSE 2
Bytes(ts) == MapThenSumSet(LAMBDA i : Size(ts[i]), DOMAIN ts)

\* How many characters from i on all are in a class.
Run(s, i, Class(_)) ==
  Max({n \in 0..(Len(s) + 1 - i) : \A j \in i..(i + n - 1) : Class(s[j])})
Has(s, i, c) == i <= Len(s) /\ s[i] = c
Value(s) == LET v[i \in 0..Len(s)] == IF i = 0 THEN 0 ELSE 10 * v[i - 1] + s[i] - 48
            IN v[Len(s)]

ConstantTokens(v) ==
  (IF v >= LowTop THEN <<Shift(v \div LowTop)>> ELSE <<>>) \o <<Constant(v % LowTop)>>

NameTokens(s, str, arr) ==
  LET words == (Len(s) + 1) \div 2
  IN [w \in 1..words |->
        Name(Packed(Code(s[2 * w - 1]), IF 2 * w <= Len(s) THEN Code(s[2 * w]) ELSE 0),
             w < words, str, arr)]

Named(s) == {k \in DOMAIN Table : Table[k].text = s}
Starting(s) ==
  {k \in DOMAIN Table : Len(Table[k].text) <= Len(s)
                        /\ Table[k].text = AllUpper(SubSeq(s, 1, Len(Table[k].text)))}
Longest(ks) ==
  CHOOSE k \in ks : \A l \in ks : Len(Table[l].text) <= Len(Table[k].text)

\* An item at the front of s: its tokens, no more than one reading, and the
\* number of characters it takes. No tokens: the line is refused.
Refused == [ok |-> FALSE, tokens |-> <<>>, length |-> 0]
Item(ts, n) == [ok |-> TRUE, tokens |-> ts, length |-> n]

WordItem(s) ==
  LET n == Run(s, 1, IsWord)
      str == Has(s, n + 1, Dollar)
      m == IF str THEN n + 1 ELSE n
      arr == Has(s, m + 1, Bracket)
      whole == IF arr THEN m + 1 ELSE m
      ks == Named(AllUpper(SubSeq(s, 1, whole)))
  IN Item(IF ks # {} THEN <<Keyword(Longest(ks))>>
                     ELSE NameTokens(SubSeq(s, 1, n), str, arr), whole)

NumberItem(s) ==
  LET n == Run(s, 1, IsDigit)
      v == Value(SubSeq(s, 1, n))
  IN IF v < LowTop * ShiftTop THEN Item(ConstantTokens(v), n) ELSE Refused

StringItem(s) ==
  LET ends == {i \in 2..Len(s) : s[i] = Quote}
      n == Min(ends)
  IN IF ends # {} /\ n - 2 < BufferSize - 4
       THEN Item(<<Text(SubSeq(s, 2, n - 1))>>, n) ELSE Refused

TokeniseOne(s) ==
  IF IsAlpha(Head(s)) THEN WordItem(s)
  ELSE IF Starting(s) # {}
         THEN LET k == Longest(Starting(s)) IN Item(<<Keyword(k)>>, Len(Table[k].text))
  ELSE IF IsDigit(Head(s)) THEN NumberItem(s)
  ELSE IF Head(s) = Quote THEN StringItem(s)
  ELSE Refused

\* One item after the other; refused when one of them is.
Tokenised(s) ==
  LET from[i \in 1..(Len(s) + 1)] ==
        IF i > Len(s) THEN Item(<<>>, 0)
        ELSE IF s[i] = Blank THEN from[i + 1]
        ELSE LET one == TokeniseOne(SubSeq(s, i, Len(s)))
                 rest == from[i + one.length]
             IN IF one.ok /\ rest.ok
                  THEN Item(one.tokens \o rest.tokens, Len(s) + 1 - i)
                  ELSE Refused
  IN from[1]
=============================================================================
