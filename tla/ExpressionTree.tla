-------------------------- MODULE ExpressionTree --------------------------
(***************************************************************************)
(* What an expression means, from its grammar alone: the last operator of  *)
(* the lowest precedence outside brackets is the root, a unary minus binds *)
(* to one atom, brackets change neither value nor type.  No stack, no scan *)
(* from the left, and strings instead of their addresses.                  *)
(***************************************************************************)
EXTENDS Integers, Sequences, FiniteSets

CONSTANTS
  Precedence,   \* [operators -> precedence]
  Functions1,   \* tokens of functions and arrays, which open a bracket
  Constant,     \* [integer operands -> value]
  TextTokens, Text, \* the string operands and their strings
  Element,      \* the array T(
  Characters,   \* integers that CHR$( takes,
  Byte,         \* of which it uses the lower part; no string is that long
  Numeric(_, _, _),  \* operators on two integers
  Compare(_, _)      \* < on two strings

Operators == DOMAIN Precedence
Opens == Functions1 \cup {"("}
Texts == {TextTokens[i] : i \in DOMAIN TextTokens}

Integer(n) == [ok |-> TRUE, str |-> FALSE, num |-> n, txt |-> <<>>]
String(t) == [ok |-> TRUE, str |-> TRUE, num |-> 0, txt |-> t]
Bad == [ok |-> FALSE, str |-> FALSE, num |-> 0, txt |-> <<>>]

Operand(t) ==
  IF t \in DOMAIN Constant THEN Integer(Constant[t])
  ELSE IF t \in Texts
    THEN String(Text[CHOOSE i \in DOMAIN TextTokens : TextTokens[i] = t])
    ELSE Bad

Function(f, v) ==
  IF f = "LEN(" /\ v.str THEN Integer(Len(v.txt))
  ELSE IF f = "CHR$(" /\ ~v.str /\ v.num \in Characters THEN String(<<v.num % Byte>>)
  ELSE IF f = "T(" /\ ~v.str /\ v.num < Len(Element) THEN Integer(Element[v.num + 1])
  ELSE Bad

Binary(o, l, r) ==
  IF l.str # r.str THEN Bad
  ELSE IF ~l.str THEN Integer(Numeric(o, l.num, r.num))
  ELSE IF o = "+" /\ Len(l.txt) + Len(r.txt) < Byte THEN String(l.txt \o r.txt)
  ELSE IF o = "<" THEN Integer(Compare(l.txt, r.txt))
  ELSE Bad

\* Brackets open before position p.
Depth(c, p) == Cardinality({i \in 1..(p - 1) : c[i] \in Opens})
               - Cardinality({i \in 1..(p - 1) : c[i] = ")"})
EndsAtom(t) == t \in DOMAIN Constant \cup Texts \cup {")"}

\* Binary operators of the part lo..hi that are not inside its brackets.
Roots(c, lo, hi) ==
  {p \in (lo + 1)..(hi - 1) : /\ c[p] \in Operators /\ EndsAtom(c[p - 1])
                              /\ Depth(c, p) = Depth(c, lo)}
Root(c, lo, hi) ==
  CHOOSE p \in Roots(c, lo, hi) : \A q \in Roots(c, lo, hi) :
    \/ Precedence[c[p]] < Precedence[c[q]]
    \/ Precedence[c[p]] = Precedence[c[q]] /\ p >= q

\* The value of the part part[1]..part[2] of c.
Meaning(c) ==
  LET value[part \in (1..(Len(c) + 1)) \X (0..Len(c))] ==
        LET lo == part[1]
            hi == part[2]
        IN IF lo > hi THEN Bad
           ELSE IF Roots(c, lo, hi) # {}
             THEN LET p == Root(c, lo, hi)
                      l == value[<<lo, p - 1>>]
                      r == value[<<p + 1, hi>>]
                  IN IF l.ok /\ r.ok THEN Binary(c[p], l, r) ELSE Bad
           ELSE IF lo = hi THEN Operand(c[lo])
           ELSE IF c[lo] = "-"
             THEN LET v == value[<<lo + 1, hi>>]
                  IN IF v.ok /\ ~v.str THEN Integer(Numeric("-", 0, v.num)) ELSE Bad
           ELSE IF c[lo] \in Opens /\ c[hi] = ")"
             THEN LET v == value[<<lo + 1, hi - 1>>]
                  IN IF ~v.ok \/ c[lo] = "(" THEN v ELSE Function(c[lo], v)
           ELSE Bad
  IN value
=============================================================================
