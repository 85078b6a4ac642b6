---------------------------- MODULE Expression ----------------------------
(***************************************************************************)
(* Evaluate and EvaluateLevel (expression.asm): a precedence climber whose *)
(* levels lie on an expression stack indexed by X, each with a value and a *)
(* word that holds the level's precedence and, in bit 15, its type.  What  *)
(* is not the top level's stays in memory when X goes back, and the result *)
(* of a level is read there by the routine that asked for it.              *)
(*                                                                         *)
(* Two bytes of a token are one element of "code".  A string value is an   *)
(* address in "strings"; a word does not know whether it is one.  LEN( and *)
(* CHR$( stand for the functions of one string or one integer, T( for an   *)
(* array.  Storage of temporary strings is in StringHeap.                  *)
(***************************************************************************)
EXTENDS Integers, Sequences, FiniteSets
LOCAL INSTANCE Bitwise

CONSTANTS
  Top, LowTop, Byte,  \* number of long words, half of them negative, of words
                \* and of bytes
  Codes,        \* expressions evaluated
  Constant,     \* [integer constants and variables -> long word]
  TextTokens,   \* the string constants and variables,
  Text,         \* and their strings, at the addresses from Base on
  Base,
  Element,      \* the array T(, long words from subscript 0
  Stale         \* what a level of the expression stack holds before

Word == 0..(Top - 1)
Wrap(n) == n % Top
Upper(w) == w \div LowTop
Signed(w) == IF 2 * w >= Top THEN w - Top ELSE w
Truth(b) == IF b THEN Wrap(-1) ELSE 0

\* Precedence of the binary operators, bits 9 to 12 of their tokens.
Precedence == [o \in {"&", "<", "+", "-", "*"} |->
  CASE o = "&" -> 0 [] o = "<" -> 1 [] o \in {"+", "-"} -> 2 [] OTHER -> 3]
Operators == DOMAIN Precedence
Functions1 == {"LEN(", "CHR$(", "T("}
Atomic == 7
Wanted == {"any", "integer", "string"}

\* A level of the expression stack.
Level == [val: Word, prec: 0..Atomic, str: BOOLEAN]

ExpressionAssumption ==
  /\ Top \in Nat /\ LowTop \in 1..Top /\ Top % LowTop = 0
  /\ Byte \in 1..LowTop /\ Base \in 1..LowTop
  /\ Len(Text) = Len(TextTokens) /\ Len(Element) <= LowTop
  /\ Constant \in [DOMAIN Constant -> Word] /\ Stale \subseteq Level

VARIABLES
  code, want,   \* the expression, and the type the statement asks for
  ptr,          \* DCodePtr
  ex, x,        \* expression stack, and the level that is evaluated
  calls,        \* what the callers of the open levels will do, on the stack
  label,        \* "atom", "operator", "return", "done" or "error"
  result,       \* YA and the carry as _ELExit leaves them
  strings       \* string memory

vars == <<code, want, ptr, ex, x, calls, label, result, strings>>

End == "end"
TokenAt(p) == IF p <= Len(code) THEN code[p] ELSE End
MaxLevel(c) == Len(c) + 1
Texts == {TextTokens[i] : i \in DOMAIN TextTokens}
AddressOf(t) == Base - 1 + CHOOSE i \in DOMAIN TextTokens : TextTokens[i] = t
StringAt(w) == strings[w - Base + 1]

\* Evaluate: level 0 with precedence 0; EvaluateInteger and EvaluateString
\* look at the carry afterwards.
Init ==
  /\ code \in Codes /\ want \in Wanted
  /\ \E s \in Stale :
       ex = [d \in 0..MaxLevel(code) |->
              IF d = 0 THEN [s EXCEPT !.prec = 0, !.str = FALSE] ELSE s]
  /\ ptr = 1 /\ x = 0 /\ calls = <<>> /\ label = "atom"
  /\ result = [val |-> 0, str |-> FALSE]
  /\ strings = Text

\* EvaluateNextGivenLevel: X goes up, EvaluateLevel sets precedence and type.
Enter(p, call, here, n) ==
  /\ ptr' = ptr + n
  /\ x' = x + 1
  /\ ex' = [ex EXCEPT ![x] = here, ![x + 1].prec = p, ![x + 1].str = FALSE]
  /\ calls' = <<call>> \o calls
  /\ label' = "atom"
  /\ UNCHANGED <<code, want, result, strings>>

Fail ==
  /\ label' = "error"
  /\ UNCHANGED <<code, want, ptr, ex, x, calls, result, strings>>

\* A value in the present level, then _ELGotAtom.
Got(level, n, rest) ==
  /\ ex' = [ex EXCEPT ![x] = level]
  /\ ptr' = ptr + n
  /\ label' = "operator"
  /\ calls' = rest
  /\ UNCHANGED <<code, want, x, result>>

Here == ex[x]
Next1 == ex[x + 1]

-----------------------------------------------------------------------------
(* The dispatch of EvaluateLevel on the first token. *)

ConstantAtom ==
  /\ label = "atom" /\ TokenAt(ptr) \in DOMAIN Constant
  /\ Got([Here EXCEPT !.val = Constant[TokenAt(ptr)]], 1, calls)
  /\ UNCHANGED strings

StringAtom ==
  /\ label = "atom" /\ TokenAt(ptr) \in Texts
  /\ Got([Here EXCEPT !.val = AddressOf(TokenAt(ptr)), !.str = TRUE], 1, calls)
  /\ UNCHANGED strings

\* The functions set the type of the result before they evaluate; an array
\* element gets its type from the identifier afterwards.
TypeBefore(f) == IF f = "CHR$(" THEN TRUE
                 ELSE IF f = "LEN(" THEN FALSE ELSE Here.str

FunctionAtom ==
  /\ label = "atom" /\ TokenAt(ptr) \in Functions1
  /\ Enter(0, [to |-> "function", op |-> TokenAt(ptr)],
           [Here EXCEPT !.str = TypeBefore(TokenAt(ptr))], 1)

Parenthesis ==
  /\ label = "atom" /\ TokenAt(ptr) = "("
  /\ Enter(0, [to |-> "paren", op |-> "("], Here, 1)

\* Any other keyword is taken for a unary operator; only then is it looked at.
UnaryOperator ==
  /\ label = "atom" /\ TokenAt(ptr) \in Operators \cup {")"}
  /\ Enter(Atomic, [to |-> "unary", op |-> TokenAt(ptr)], Here, 1)

EndOfLine == label = "atom" /\ TokenAt(ptr) = End /\ Fail

-----------------------------------------------------------------------------
(* _ELGotAtom: a binary operator that this level may take, or the exit. *)

Takes(o, p) == Precedence[o] >= p
RightLevelSame(o) == Precedence[o]   \* mutant
RightLevel(o) == Precedence[o] + 1

BinaryOperator ==
  /\ label = "operator" /\ TokenAt(ptr) \in Operators
  /\ Takes(TokenAt(ptr), Here.prec)
  /\ Enter(RightLevel(TokenAt(ptr)), [to |-> "binary", op |-> TokenAt(ptr)],
           Here, 1)

\* _ELExit: value and type go to the caller in YA and the carry; the stack
\* keeps them for the routines that look there.
Exit ==
  /\ label = "operator"
  /\ ~(TokenAt(ptr) \in Operators /\ Takes(TokenAt(ptr), Here.prec))
  /\ result' = [val |-> Here.val, str |-> Here.str]
  /\ label' = IF calls = <<>> THEN "done" ELSE "return"
  /\ x' = IF calls = <<>> THEN x ELSE x - 1
  /\ UNCHANGED <<code, want, ptr, ex, calls, strings>>

Returning(to) == label = "return" /\ Head(calls).to = to
Op == Head(calls).op
GotBack(level, n) == Got(level, n, Tail(calls))
Closed == TokenAt(ptr) = ")"

\* _ELCopy: the value moves down, the type does not.
ParenthesisBack ==
  /\ Returning("paren")
  /\ IF Closed THEN /\ GotBack([Here EXCEPT !.val = Next1.val], 1)
                    /\ UNCHANGED strings
               ELSE Fail

Negated(w) == Wrap(-w)
\* _ELMinus; every other operator here is a syntax error.
UnaryBack ==
  /\ Returning("unary")
  /\ IF Op = "-" THEN /\ GotBack([Here EXCEPT !.val = Negated(Next1.val)], 0)
                      /\ UNCHANGED strings
                 ELSE Fail

\* LEN( wants a string, CHR$( an integer whose upper word is zero, T( one no
\* larger than the highest subscript, each followed by a bracket.
FunctionBack ==
  /\ Returning("function")
  /\ \/ /\ Op = "LEN(" /\ result.str /\ Closed
        /\ GotBack([Here EXCEPT !.val = Len(StringAt(Next1.val))], 1)
        /\ UNCHANGED strings
     \/ /\ Op = "CHR$(" /\ ~result.str /\ Closed /\ Upper(result.val) = 0
        /\ strings' = Append(strings, <<result.val % Byte>>)
        /\ GotBack([Here EXCEPT !.val = Base + Len(strings)], 1)
     \/ /\ Op = "T(" /\ ~result.str /\ Closed /\ result.val < Len(Element)
        /\ GotBack([Here EXCEPT !.val = Element[result.val + 1],
                                !.str = FALSE], 1)
        /\ UNCHANGED strings

FunctionFails ==
  /\ Returning("function")
  /\ \/ result.str # (Op = "LEN(")
     \/ ~Closed
     \/ Op = "CHR$(" /\ Upper(result.val) # 0
     \/ Op = "T(" /\ result.val >= Len(Element)
  /\ Fail

-----------------------------------------------------------------------------
(* The routines of the binary operators, on level x and the one above. *)

\* An order of strings; comparison.asm has the loop.
Before(s, t) ==
  \/ \E i \in 1..Len(s) : /\ i <= Len(t) /\ s[i] < t[i]
                          /\ \A j \in 1..(i - 1) : s[j] = t[j]
  \/ Len(s) < Len(t) /\ \A j \in 1..Len(s) : s[j] = t[j]

Numeric(o, v, w) ==
  CASE o = "+" -> Wrap(v + w) [] o = "-" -> Wrap(v - w)
    [] o = "*" -> Wrap(v * w) [] o = "&" -> v & w
    [] o = "<" -> Truth(Signed(v) < Signed(w))

\* + and the comparisons take two of a kind, the others two integers.
BinaryNumbers ==
  /\ Returning("binary") /\ ~Here.str /\ ~Next1.str
  /\ GotBack([Here EXCEPT !.val = Numeric(Op, Here.val, Next1.val)], 0)
  /\ UNCHANGED strings

\* CompareTypeCheck makes the level an integer again.
CompareStrings ==
  /\ Returning("binary") /\ Op = "<" /\ Here.str /\ Next1.str
  /\ GotBack([Here EXCEPT !.val = Truth(Before(StringAt(Here.val),
                                               StringAt(Next1.val))),
                          !.str = FALSE], 0)
  /\ UNCHANGED strings

\* A length is one byte, and the sum of two may not carry out of it.
Joined == StringAt(Here.val) \o StringAt(Next1.val)

Concatenate ==
  /\ Returning("binary") /\ Op = "+" /\ Here.str /\ Next1.str
  /\ Len(Joined) < Byte
  /\ strings' = Append(strings, Joined)
  /\ GotBack([Here EXCEPT !.val = Base + Len(strings)], 0)

ConcatenateFails ==
  /\ Returning("binary") /\ Op = "+" /\ Here.str /\ Next1.str
  /\ Len(Joined) >= Byte
  /\ Fail

AddFails == Returning("binary") /\ Op = "+" /\ Here.str # Next1.str /\ Fail
CompareFails == Returning("binary") /\ Op = "<" /\ Here.str # Next1.str /\ Fail
NumericFails ==
  Returning("binary") /\ Op \notin {"+", "<"} /\ (Here.str \/ Next1.str) /\ Fail

\* EvaluateInteger, EvaluateString: the type of the whole.
Wrong == want # "any" /\ result.str # (want = "string")
Check ==
  /\ label = "done" /\ Wrong /\ Fail

Next ==
  \/ ConstantAtom \/ StringAtom \/ FunctionAtom \/ Parenthesis
  \/ UnaryOperator \/ EndOfLine
  \/ BinaryOperator \/ Exit
  \/ ParenthesisBack \/ UnaryBack \/ FunctionBack \/ FunctionFails
  \/ BinaryNumbers \/ CompareStrings \/ Concatenate \/ ConcatenateFails
  \/ AddFails \/ CompareFails \/ NumericFails \/ Check

Spec == Init /\ [][Next]_vars
-----------------------------------------------------------------------------
(* Properties. *)

TypeOK ==
  /\ ptr \in 1..(Len(code) + 1) /\ x \in DOMAIN ex
  /\ ex \in [0..MaxLevel(code) -> Level]
  /\ label \in {"atom", "operator", "return", "done", "error"}
  /\ result \in [val: Word, str: BOOLEAN]

Compare(s, t) == Truth(Before(s, t))
Tree == INSTANCE ExpressionTree WITH Characters <- 0..(LowTop - 1)

\* What lies in brackets or behind a minus is an integer, as the code takes it
\* to be: every such part of the expression that has a meaning.
IntegersGrouped ==
  LET meaning == Tree!Meaning(code)
  IN \A lo, hi \in 1..Len(code) :
       (lo > 1 /\ lo <= hi /\ (code[lo - 1] = "(" \/ code[lo - 1] = "-"))
         => ~(meaning[<<lo, hi>>].ok /\ meaning[<<lo, hi>>].str)

\* The value and the type of what was evaluated are those of its tree.  The
\* climber, the types kept in the level words and the words of older levels
\* left on the stack all have a part in it (expression.asm:38-187).
ValueOfTree ==
  label = "done" /\ IntegersGrouped =>
    LET m == Tree!Meaning(code)[<<1, ptr - 1>>]
    IN /\ m.ok /\ m.str = result.str
       /\ IF m.str THEN StringAt(result.val) = m.txt ELSE result.val = m.num

\* An error is reported only for an expression that has no meaning or not the
\* wanted type (utility.asm:65-131, expression.asm:249-273).
ErrorsAreReal ==
  label = "error" /\ IntegersGrouped =>
    LET m == Tree!Meaning(code)[<<1, Len(code)>>]
    IN ~m.ok \/ (want # "any" /\ m.str # (want = "string"))
=============================================================================
