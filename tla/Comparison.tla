----------------------------- MODULE Comparison -----------------------------
(***************************************************************************)
(* The comparison operators (binary/comparison.asm).  Long words are       *)
(* subtracted half by half, and the sign of the difference is put right by *)
(* the overflow flag; strings are compared character by character, counted *)
(* in a byte, then by their length.                                        *)
(***************************************************************************)
EXTENDS Integers, Sequences

CONSTANTS
  HalfTop,      \* the words that are half a long word: 2^16
  ByteTop,      \* 256
  Numbers,      \* pairs of long words, <<high, low>>
  Strings       \* pairs of strings

ComparisonAssumption ==
  /\ HalfTop \in Nat /\ HalfTop % 2 = 0 /\ HalfTop > 0
  /\ ByteTop \in Nat /\ ByteTop % 2 = 0 /\ ByteTop > 0
  /\ LET Long == (0..(HalfTop - 1)) \X (0..(HalfTop - 1))
     IN Numbers \subseteq Long \X Long
  /\ \A p \in Strings : Len(p[1]) < ByteTop /\ Len(p[2]) < ByteTop

Operators == {"=", "<>", "<", ">=", "<=", ">"}

VARIABLES
  op, kind, left, right,
  carry,        \* of the lower subtraction
  y,            \* the character compared
  count,        \* DSignCount, a byte
  value,        \* true is -1
  label

vars == <<op, kind, left, right, carry, y, count, value, label>>
given == <<op, kind, left, right>>

Init ==
  /\ op \in Operators
  /\ \/ kind = "number" /\ \E p \in Numbers : left = p[1] /\ right = p[2]
     \/ kind = "string" /\ \E p \in Strings : left = p[1] /\ right = p[2]
  /\ label = kind
  /\ carry = FALSE /\ y = 0 /\ count = 0 /\ value = FALSE

Succeed(b) == value' = b /\ label' = "done"

-----------------------------------------------------------------------------
(* Numbers. *)

Negative(w) == w >= HalfTop \div 2
Signed(w) == IF Negative(w) THEN w - HalfTop ELSE w
Borrow(c) == IF c THEN 0 ELSE 1

Equality ==
  /\ label = "number" /\ op \in {"=", "<>"}
  /\ Succeed((left = right) = (op = "="))
  /\ UNCHANGED <<given, carry, y, count>>

\* The carry is set or clear before: <= and > take one more off.
SubtractLow ==
  /\ label = "number" /\ op \in {"<", ">=", "<=", ">"}
  /\ carry' = (left[2] - right[2] - Borrow(op \in {"<", ">="}) >= 0)
  /\ label' = "high"
  /\ UNCHANGED <<given, y, count, value>>

Difference == left[1] - right[1] - Borrow(carry)
Overflow == LET d == Signed(left[1]) - Signed(right[1]) - Borrow(carry)
            IN d \notin -(HalfTop \div 2)..(HalfTop \div 2 - 1)
SignLeft == Negative(Difference % HalfTop)   \* mutant
Sign == Negative(Difference % HalfTop) # Overflow

SubtractHigh ==
  /\ label = "high"
  /\ Succeed(IF op \in {"<", "<="} THEN Sign ELSE ~Sign)
  /\ UNCHANGED <<given, carry, y, count>>

-----------------------------------------------------------------------------
(* Strings: 1, 0, -1 as in strcmp(). *)

Decided(c) ==
  Succeed(CASE op = "="  -> c = 0
            [] op = "<>" -> c # 0
            [] op = "<"  -> c = -1
            [] op = ">=" -> c >= 0
            [] op = "<=" -> c # 1
            [] op = ">"  -> c = 1)

\* The length of the shorter string.
Shorter == IF Len(left) < Len(right) THEN Len(left) ELSE Len(right)
CompareBegins ==
  /\ label = "string"
  /\ count' = Shorter /\ y' = 0 /\ label' = "compare"
  /\ UNCHANGED <<given, carry, value>>

\* The count is a byte, and over when it has the sign bit set.
Counted(n) == (n - 1) % ByteTop
Over(n) == n >= ByteTop \div 2

\* Behind a string there is something else.
CharacterAt(s, i) == IF i <= Len(s) THEN s[i] ELSE 0

CompareStep ==
  /\ label = "compare" /\ ~Over(Counted(count))
  /\ y' = y + 1 /\ count' = Counted(count)
  /\ LET c == CharacterAt(left, y + 1)
         d == CharacterAt(right, y + 1)
     IN IF c = d THEN UNCHANGED <<value, label>> ELSE Decided(IF c > d THEN 1 ELSE -1)
  /\ UNCHANGED <<given, carry>>

EqualSoFar ==
  /\ label = "compare" /\ Over(Counted(count))
  /\ y' = y + 1 /\ count' = Counted(count)
  /\ Decided(IF Len(left) < Len(right) THEN -1
             ELSE IF Len(left) > Len(right) THEN 1 ELSE 0)
  /\ UNCHANGED <<given, carry>>

Next == Equality \/ SubtractLow \/ SubtractHigh \/ CompareBegins \/ CompareStep \/ EqualSoFar
Spec == Init /\ [][Next]_vars

-----------------------------------------------------------------------------
(* Properties. *)

\* No character behind the end of a string is looked at.
TypeOK ==
  /\ op \in Operators /\ carry \in BOOLEAN /\ value \in BOOLEAN
  /\ y \in Nat /\ count \in 0..(ByteTop - 1)
  /\ label \in {"number", "high", "string", "compare", "done"}
  /\ label = "compare" => y <= Len(left) /\ y <= Len(right)

Long(w) == Signed(w[1]) * HalfTop + w[2]
Before(s, t) ==
  \E k \in 0..Len(s) :
    /\ k <= Len(t) /\ \A i \in 1..k : s[i] = t[i]
    /\ k < Len(t) /\ (k = Len(s) \/ s[k + 1] < t[k + 1])

\* test_comparison.py asserts of numbers and strings what Python makes of them:
\* the signed order, and the alphabetical one (comparison.asm:18-243).
AsTested ==
  label = "done" =>
    LET less == IF kind = "string" THEN Before(left, right) ELSE Long(left) < Long(right)
        more == IF kind = "string" THEN Before(right, left) ELSE Long(left) > Long(right)
    IN value = CASE op = "="  -> left = right
                 [] op = "<>" -> left # right
                 [] op = "<"  -> less
                 [] op = ">=" -> ~less
                 [] op = "<=" -> ~more
                 [] op = ">"  -> more
=============================================================================
