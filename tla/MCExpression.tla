---------------------------- MODULE MCExpression ---------------------------
(***************************************************************************)
(* Expressions for TLC: every sequence of up to three tokens, and the sums *)
(* of three terms: terms are operands, brackets, functions, the array and  *)
(* negations of these.  A string has at most seven characters; those of    *)
(* three and of two here make sums of six to nine.                         *)
(***************************************************************************)
EXTENDS Integers, Sequences

VARIABLES code, want, ptr, ex, x, calls, label, result, strings

MCConstant == [t \in {"1", "9", "n%"} |->
  CASE t = "1" -> 1 [] t = "9" -> 9 [] t = "n%" -> 62]
MCTextTokens == <<"'a'", "s$">>
MCText == <<<<1, 2, 1>>, <<2, 1>>>>
MCElement == <<7, 30>>
MCStale == {[val |-> 0, prec |-> 0, str |-> FALSE],
            [val |-> 37, prec |-> 7, str |-> TRUE]}

MCOperators == {"&", "<", "+", "-", "*"}
MCFunctions == {"LEN(", "CHR$(", "T("}
MCTexts == {"'a'", "s$"}
Tokens == DOMAIN MCConstant \cup MCTexts \cup MCOperators \cup MCFunctions
          \cup {"(", ")"}
Short(n) == UNION {[1..k -> Tokens] : k \in 0..n}

Operands == {<<"9">>, <<"n%">>, <<"'a'">>}
Grouped == {<<"(", "9", "-", "1", ")">>, <<"LEN(", "CHR$(", "1", ")", ")">>,
            <<"s$">>, <<"CHR$(", "T(", "1", ")", "-", "n%", ")">>, <<"-", "9">>}
Terms == Operands \cup Grouped
Sums(ts) == {a \o <<o>> \o b \o <<p>> \o c :
               a \in ts, o \in MCOperators, b \in ts, p \in MCOperators, c \in ts}
Bracketed(cs) == {<<"(">> \o c \o <<")", o, "1">> : c \in cs, o \in MCOperators}

MCCodes == Short(3) \cup Sums(Terms) \cup Bracketed(Sums(Operands))

Ex == INSTANCE Expression WITH
  Top <- 64, LowTop <- 16, Byte <- 8, Codes <- MCCodes, Constant <- MCConstant,
  TextTokens <- MCTextTokens, Text <- MCText, Base <- 9, Element <- MCElement,
  Stale <- MCStale

ASSUME MCExpressionAssumption == Ex!ExpressionAssumption

exVars == <<code, want, ptr, ex, x, calls, label, result, strings>>

MCSpec == Ex!Init /\ [][Ex!Next]_exVars

----------------------------------------------------------------------------
(* Properties. *)

\* The value and the type of every expression are those of its tree, and an
\* error is reported only where the tree has no meaning or not the wanted type
\* (expression.asm, utility.asm).
EvaluatesTree ==
  Ex!TypeOK /\ Ex!ValueOfTree /\ Ex!ErrorsAreReal
=============================================================================
