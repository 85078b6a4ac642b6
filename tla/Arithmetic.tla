---------------------------- MODULE Arithmetic ----------------------------
(***************************************************************************)
(* The loops behind * / % >> and << (multiply.asm, divide.asm,             *)
(* arithmetic.asm) on the two long words of the levels x and x + 1 of the  *)
(* expression stack: shift and add, shift and subtract, shift.  Expression *)
(* takes their results as given and has the types.                         *)
(*                                                                         *)
(* A pair of 16 bit words with the carry between them is one number of     *)
(* Bits bits here.                                                         *)
(***************************************************************************)
EXTENDS Integers

CONSTANTS
  Bits,         \* of a long word
  Power,        \* [0..Bits -> powers of two]
  Shifts        \* the shift count is taken modulo this, 64

ASSUME ArithmeticAssumption ==
  /\ Bits \in Nat \ {0} /\ Shifts \in Nat \ {0}
  /\ Power \in [0..Bits -> Nat \ {0}] /\ Power[0] = 1
  /\ \A i \in 1..Bits : Power[i] = 2 * Power[i - 1]
  /\ \A i \in 0..Bits : Power[i] * Power[Bits - i] = Power[Bits]

Top == Power[Bits]
Half == Power[Bits - 1]
Word == 0..(Top - 1)
Operations == {"*", "/", "%", ">>", "<<"}

Wrap(n) == n % Top
Magnitude(w) == IF w >= Half THEN Top - w ELSE w
Minus(w) == IF w >= Half THEN 1 ELSE 0
Bit(c) == IF c THEN 1 ELSE 0
OddSign(n) == n >= Half   \* mutant
Odd(n) == n % 2 = 1

VARIABLES
  op, left, right,  \* what was asked for
  a, b,             \* the values of the two levels
  t1,               \* DTemp1: multiplier or remainder
  sign,             \* DSignCount
  count,            \* Y in division, A in shifts
  label             \* "begin", "loop", "done" or "error"

vars == <<op, left, right, a, b, t1, sign, count, label>>
given == <<op, left, right>>

Init ==
  /\ op \in Operations /\ left \in Word /\ right \in Word
  /\ a = left /\ b = right
  /\ t1 = 0 /\ sign = 0 /\ count = 0 /\ label = "begin"

MultiplyBegins ==
  /\ label = "begin" /\ op = "*"
  /\ t1' = a /\ a' = 0 /\ label' = "loop"
  /\ UNCHANGED <<given, b, sign, count>>

\* Bit 0 of the multiplier decides; then it is halved, the multiplicand
\* doubled.
Halved(n) == n \div 2
MultiplyStep ==
  /\ label = "loop" /\ op = "*" /\ t1 # 0
  /\ a' = IF Odd(t1) THEN Wrap(a + b) ELSE a
  /\ t1' = Halved(t1)
  /\ b' = Wrap(2 * b)
  /\ UNCHANGED <<given, sign, count, label>>

MultiplyEnds ==
  /\ label = "loop" /\ op = "*" /\ t1 = 0
  /\ label' = "done"
  /\ UNCHANGED <<given, a, b, t1, sign, count>>

Divides == op \in {"/", "%"}

DivideByZero ==
  /\ label = "begin" /\ Divides /\ b = 0
  /\ label' = "error"
  /\ UNCHANGED <<given, a, b, t1, sign, count>>

SignsLeft(v, w) == Minus(v)   \* mutant
Signs(v, w) == Minus(v) + Minus(w)
\* The signs are counted and taken off, the right one first.
DivideBegins ==
  /\ label = "begin" /\ Divides /\ b # 0
  /\ sign' = Signs(a, b)
  /\ b' = Magnitude(b) /\ a' = Magnitude(a)
  /\ t1' = 0 /\ count' = Bits /\ label' = "loop"
  /\ UNCHANGED given

\* A bit goes from the left operand into the remainder; if the divisor can be
\* subtracted from that, a one comes in at the other end.
Fits(r) == r >= b
DivideStep ==
  /\ label = "loop" /\ Divides /\ count > 0
  /\ LET r == Wrap(2 * t1 + Minus(a))
     IN /\ t1' = IF Fits(r) THEN r - b ELSE r
        /\ a' = Wrap(2 * a) + Bit(Fits(r))
  /\ count' = count - 1
  /\ UNCHANGED <<given, b, sign, label>>

\* % calls the division and copies the remainder, whatever the signs.
DivideEnds ==
  /\ label = "loop" /\ Divides /\ count = 0
  /\ a' = IF op = "%" THEN t1 ELSE IF sign = 1 THEN Wrap(-a) ELSE a
  /\ label' = "done"
  /\ UNCHANGED <<given, b, t1, sign, count>>

ShiftCount(w) == w % Shifts
ShiftBegins ==
  /\ label = "begin" /\ op \in {">>", "<<"}
  /\ count' = ShiftCount(b) /\ label' = "loop"
  /\ UNCHANGED <<given, a, b, t1, sign>>

ShiftStep ==
  /\ label = "loop" /\ op \in {">>", "<<"} /\ count > 0
  /\ a' = IF op = ">>" THEN Halved(a) ELSE Wrap(2 * a)
  /\ count' = count - 1
  /\ UNCHANGED <<given, b, t1, sign, label>>

ShiftEnds ==
  /\ label = "loop" /\ op \in {">>", "<<"} /\ count = 0
  /\ label' = "done"
  /\ UNCHANGED <<given, a, b, t1, sign, count>>

Next ==
  \/ MultiplyBegins \/ MultiplyStep \/ MultiplyEnds
  \/ DivideByZero \/ DivideBegins \/ DivideStep \/ DivideEnds
  \/ ShiftBegins \/ ShiftStep \/ ShiftEnds

Spec == Init /\ [][Next]_vars

-----------------------------------------------------------------------------
(* Properties. *)

TypeOK ==
  /\ op \in Operations /\ left \in Word /\ right \in Word
  /\ a \in Word /\ b \in Word /\ t1 \in Word
  /\ sign \in 0..2 /\ count \in Nat
  /\ label \in {"begin", "loop", "done", "error"}

\* What is left to add to the product, and the product so far: the loop keeps
\* their sum modulo the word (multiply.asm:26-47).
ProductKept ==
  op = "*" =>
    /\ label = "loop" => Wrap(a + t1 * b) = Wrap(left * right)
    /\ label = "done" => a = Wrap(left * right)

\* Quotient and remainder of the magnitudes, at the end of the loop that makes
\* them bit by bit in registers it shares between dividend and quotient; the
\* sign of / is that of a quotient (divide.asm:26-98).
Divided(q, r) ==
  /\ Magnitude(left) = q * Magnitude(right) + r
  /\ r < Magnitude(right)
DivisionExact ==
  label = "done" /\ Divides =>
    \E q \in 0..Half :
      /\ Divided(q, t1)
      /\ op = "%" => a = t1
      /\ op = "/" => a = IF Minus(left) = Minus(right) THEN q ELSE Wrap(-q)

\* The remainder is smaller than the divisor all along, so that the bit lost
\* when it is shifted in Bits bits is never a one (divide.asm:56-57).
RemainderFits == label = "loop" /\ Divides => t1 < b /\ b <= Half

\* Shifts move in zeros, and all bits go after Bits steps or more.
ShiftsExact ==
  label = "done" /\ op \in {">>", "<<"} =>
    LET n == right % Shifts
    IN a = IF n >= Bits THEN 0
           ELSE IF op = ">>" THEN left \div Power[n] ELSE Wrap(left * Power[n])
=============================================================================
