--------------------------- MODULE NumberProofs ---------------------------
(***************************************************************************)
(* The routines behind numbers and strings, for every width of the words:  *)
(* the loops of Arithmetic, then Counting, Comparison, Substring and       *)
(* Conversion under the names they have in MCNumbers.                      *)
(*                                                                         *)
(* In the loop of the division a holds the bits of the dividend not yet    *)
(* used, k, above those of the quotient so far, q; the dividend is         *)
(* (q * b + t1) * R + k for the R = Power[count] that is still to come.    *)
(***************************************************************************)
EXTENDS MCNumbers, SequenceLemmas

\* What the division keeps between its steps.
Holds(q, k, r, i) ==
  /\ q < Power[Bits - i] /\ k < Power[i]
  /\ a = q + k * Power[Bits - i]
  /\ Magnitude(left) = (q * b + r) * Power[i] + k
Dividing ==
  label = "loop" /\ Divides =>
    /\ count \in 0..Bits
    /\ right # 0 /\ b = Magnitude(right) /\ sign = Minus(right) + Minus(left)
    /\ t1 < b /\ b <= Half
    /\ \E q, k \in Nat : Holds(q, k, t1, count)
Given == label = "begin" => a = left /\ b = right

Inductive == TypeOK /\ Given /\ Dividing /\ DivisionExact

-----------------------------------------------------------------------------
(* Facts about the constants and the words. *)

LEMMA Constants ==
  /\ Top \in Nat \ {0} /\ Half \in Nat \ {0} /\ Top = 2 * Half
  /\ Power[Bits] = Top /\ Power[0] = 1
<1>1. Bits - 1 \in 0..Bits /\ Bits \in 0..Bits /\ Bits \in 1..Bits
  BY ArithmeticAssumption
<1> QED
  BY <1>1, ArithmeticAssumption DEF Top, Half

\* The powers around a step of the loop.
LEMMA StepPowers ==
  ASSUME NEW i \in 1..Bits
  PROVE  /\ Power[i] \in Nat \ {0} /\ Power[i - 1] \in Nat \ {0}
         /\ Power[Bits - i] \in Nat \ {0} /\ Power[Bits - (i - 1)] \in Nat \ {0}
         /\ Power[i] = 2 * Power[i - 1]
         /\ Power[Bits - (i - 1)] = 2 * Power[Bits - i]
         /\ Power[i - 1] * Power[Bits - i] = Half
<1>1. /\ i - 1 \in 0..Bits /\ i \in 0..Bits /\ Bits - i \in 0..Bits
      /\ Bits - (i - 1) \in 1..Bits /\ (Bits - (i - 1)) - 1 = Bits - i
  BY ArithmeticAssumption
<1>2. /\ Power[i] = 2 * Power[i - 1]
      /\ Power[Bits - (i - 1)] = 2 * Power[Bits - i]
  BY <1>1, ArithmeticAssumption
<1>3. /\ Power[i] \in Nat \ {0} /\ Power[i - 1] \in Nat \ {0}
      /\ Power[Bits - i] \in Nat \ {0} /\ Power[Bits - (i - 1)] \in Nat \ {0}
  BY <1>1, ArithmeticAssumption
<1>4. Power[i] * Power[Bits - i] = Top
  BY <1>1, ArithmeticAssumption, Constants
<1>5. Power[i - 1] * Power[Bits - i] = Half
  <2> DEFINE p == Power[i - 1]
             r == Power[Bits - i]
  <2>1. p \in Nat /\ r \in Nat /\ (2 * p) * r = Top
    BY <1>2, <1>3, <1>4
  <2>2. 2 * (p * r) = 2 * Half /\ p * r \in Nat
    BY <2>1, Constants
  <2> QED
    BY <2>2, Constants
<1> QED
  BY <1>2, <1>3, <1>5

LEMMA WrapTypes ==
  /\ \A n \in Int : Wrap(n) \in Word
  /\ \A n \in Word : Wrap(n) = n
  /\ \A n \in Int : Top <= n /\ n < 2 * Top => Wrap(n) = n - Top
  BY Constants DEF Wrap, Word

LEMMA MagnitudeTypes ==
  ASSUME NEW w \in Word
  PROVE  /\ Magnitude(w) \in 0..Half /\ (w # 0 => Magnitude(w) # 0)
         /\ Magnitude(w) \in Word /\ Minus(w) \in {0, 1}
  BY Constants DEF Magnitude, Minus, Word

-----------------------------------------------------------------------------
(* One step of the loop, in numbers. *)

\* The highest bit of the register is the highest of the unused bits.
LEMMA HighBit ==
  ASSUME NEW q \in Nat, NEW k \in Nat, NEW p \in Nat, NEW r \in Nat \ {0},
         q < p, k < 2 * r, r * p = Half
  PROVE  /\ k >= r => q + k * p >= Half
         /\ k < r => q + k * p < Half
         /\ q + k * p < Top
<1>1. ASSUME NEW m \in Nat, NEW n \in Nat, m <= n PROVE m * p <= n * p
  <2>1. n * p = m * p + (n - m) * p /\ (n - m) * p >= 0
    BY <1>1
  <2> QED
    BY <2>1
<1>2. k * p \in Nat /\ r * p \in Nat
  OBVIOUS
<1>3. CASE k >= r
  <2>1. k * p >= Half
    BY <1>1, <1>3
  <2>2. (k + 1) * p <= (2 * r) * p
    BY <1>1
  <2>3. (k + 1) * p = k * p + p /\ (2 * r) * p = 2 * Half
    BY Constants
  <2> QED
    BY <1>2, <1>3, <2>1, <2>2, <2>3, Constants
<1>4. CASE k < r
  <2>1. (k + 1) * p <= r * p
    BY <1>1, <1>4
  <2>2. (k + 1) * p = k * p + p
    OBVIOUS
  <2> QED
    BY <1>2, <1>4, <2>1, <2>2, Constants
<1> QED
  BY <1>3, <1>4

\* Shifted left, the register has the other unused bits above twice the
\* quotient.
Split(q, k, p, r, c, j) ==
  /\ q \in Nat /\ k \in Nat /\ p \in Nat /\ r \in Nat \ {0}
  /\ q < p /\ k < 2 * r /\ r * p = Half
  /\ c \in {0, 1} /\ j \in Nat /\ k = c * r + j /\ j < r
LEMMA Shifted ==
  ASSUME NEW q, NEW k, NEW p, NEW r, NEW c, NEW j, Split(q, k, p, r, c, j)
  PROVE  /\ Minus(q + k * p) = c
         /\ Wrap(2 * (q + k * p)) = 2 * q + j * (2 * p)
         /\ 2 * q + j * (2 * p) < Top - 1
<1> USE DEF Split
<1>1. Minus(q + k * p) = c
  BY HighBit DEF Minus
<1>2. k * p = c * Half + j * p
  <2>1. CASE c = 0
    BY <2>1
  <2>2. CASE c = 1
    <3>1. (r + j) * p = r * p + j * p
      OBVIOUS
    <3> QED
      BY <2>2, <3>1, Constants
  <2> QED
    BY <2>1, <2>2
<1>3. j * p \in Nat /\ 2 * (q + k * p) = 2 * q + 2 * (j * p) + c * Top
  BY <1>2, Constants
<1>4. q + j * p < Half
  <2>1. q + j * p < Half
    BY HighBit, j < 2 * r
  <2> QED
    BY <2>1
<1>5. 2 * q + 2 * (j * p) <= Top - 2 /\ 2 * q + 2 * (j * p) \in Nat
  BY <1>3, <1>4, Constants
<1>6. Wrap(2 * (q + k * p)) = 2 * q + 2 * (j * p)
  BY <1>3, <1>5, WrapTypes, Constants DEF Word
<1>7. j * (2 * p) = 2 * (j * p)
  OBVIOUS
<1>8. 2 * q + 2 * (j * p) < Top - 1
  BY <1>5, Constants
<1> QED
  BY <1>1, <1>6, <1>7, <1>8

\* What the loop keeps, from one step to the next.
LEMMA HoldsStep ==
  ASSUME NEW q \in Nat, NEW k \in Nat, TypeOK, count \in 1..Bits,
         b \in Nat \ {0}, b <= Half, t1 < b, Holds(q, k, t1, count),
         Magnitude(left) \in Nat
  PROVE  /\ Wrap(2 * t1 + Minus(a)) = 2 * t1 + Minus(a)
         /\ 2 * t1 + Minus(a) \in Nat /\ 2 * t1 + Minus(a) < 2 * b
         /\ Wrap(2 * a) + 1 < Top
         /\ \E j \in Nat :
              /\ j < Power[count - 1] /\ Wrap(2 * a) = 2 * q + j * Power[Bits - (count - 1)]
              /\ Magnitude(left)
                   = (2 * (q * b) + (2 * t1 + Minus(a))) * Power[count - 1] + j
<1> DEFINE r == Power[count - 1]
           p == Power[Bits - count]
           c == IF k >= r THEN 1 ELSE 0
           j == k - c * r
<1>1. /\ p \in Nat \ {0} /\ r \in Nat \ {0} /\ r * p = Half
      /\ Power[count] = 2 * r /\ Power[Bits - (count - 1)] = 2 * p
  BY StepPowers
<1>2. q < p /\ k < 2 * r /\ a = q + k * p
  BY <1>1 DEF Holds
<1>3. c \in {0, 1} /\ j \in Nat /\ j < r /\ k = c * r + j
  BY <1>1, <1>2
<1> HIDE DEF c, j
<1>4. /\ Minus(a) = c /\ Wrap(2 * a) = 2 * q + j * (2 * p)
      /\ 2 * q + j * (2 * p) < Top - 1
  <2> HIDE DEF p, r
  <2>1. /\ Minus(q + k * p) = c
        /\ Wrap(2 * (q + k * p)) = 2 * q + j * (2 * p)
        /\ 2 * q + j * (2 * p) < Top - 1
    <3>1. Split(q, k, p, r, c, j)
      BY <1>1, <1>2, <1>3 DEF Split
    <3> QED
      BY <3>1, Shifted, Zenon
  <2> QED
    BY <1>2, <2>1
<1>5. t1 \in Nat
  BY Constants DEF TypeOK, Word
<1>6. 2 * t1 + c \in Nat /\ 2 * t1 + c < 2 * b /\ 2 * t1 + c < Top
  BY <1>3, <1>5, Constants
<1>7. Wrap(2 * t1 + c) = 2 * t1 + c
  BY <1>6, WrapTypes, Constants DEF Word
<1>8. Magnitude(left) = (2 * (q * b) + (2 * t1 + c)) * r + j
  <2>1. Magnitude(left) = (q * b + t1) * (2 * r) + (c * r + j)
    <3>1. Magnitude(left) = (q * b + t1) * Power[count] + k
      BY DEF Holds
    <3> QED
      BY <1>1, <1>3, <3>1, Zenon
  <2> HIDE DEF r
  <2>2. q * b \in Nat
    OBVIOUS
  <2>3. ASSUME NEW s \in Nat PROVE (s + t1) * (2 * r) + (c * r + j)
                                     = (2 * s + (2 * t1 + c)) * r + j
    <3>1. /\ (s + t1) * (2 * r) = 2 * (s * r) + 2 * (t1 * r)
          /\ (2 * s + (2 * t1 + c)) * r = 2 * (s * r) + 2 * (t1 * r) + c * r
      BY <1>1, <1>3, <1>5
    <3> QED
      BY <1>1, <1>3, <1>5, <3>1
  <2> QED
    BY <2>1, <2>2, <2>3
<1>9. Wrap(2 * a) + 1 < Top
  BY <1>1, <1>3, <1>4, Constants
<1> QED
  BY <1>1, <1>3, <1>4, <1>6, <1>7, <1>8, <1>9

\* The quotient grows by the bit that comes in, and the product with it.
LEMMA Subtracted ==
  ASSUME NEW q \in Nat, NEW d \in Nat \ {0}, NEW m \in Nat, m < 2 * d
  PROVE  /\ m >= d => /\ 2 * (q * d) + m = (2 * q + 1) * d + (m - d)
                      /\ m - d \in Nat /\ m - d < d
         /\ m < d => 2 * (q * d) + m = (2 * q) * d + m
<1>1. /\ (2 * q + 1) * d = 2 * (q * d) + d
      /\ (2 * q) * d = 2 * (q * d) /\ q * d \in Nat
  OBVIOUS
<1> QED
  BY <1>1

-----------------------------------------------------------------------------
(* The invariant. *)

LEMMA InductiveInit == Init => Inductive
<1>1. SUFFICES ASSUME Init PROVE Inductive
  OBVIOUS
<1>2. TypeOK
  BY <1>1, Constants DEF Init, TypeOK, Word
<1> QED
  BY <1>1, <1>2 DEF Init, Inductive, Given, Dividing, DivisionExact

LEMMA TypeStep == TypeOK /\ Given /\ Dividing /\ [Next]_vars => TypeOK'
<1> SUFFICES ASSUME TypeOK, Given, Dividing, [Next]_vars PROVE TypeOK'
  OBVIOUS
<1> USE DEF TypeOK
<1>1. CASE UNCHANGED vars
  BY <1>1 DEF vars
<1>2. CASE MultiplyBegins \/ MultiplyEnds \/ DivideByZero \/ ShiftEnds
  BY <1>2, Constants DEF MultiplyBegins, MultiplyEnds, DivideByZero, ShiftEnds,
     given, Word
<1>3. CASE MultiplyStep
  <2>1. Halved(t1) \in Word
    BY Constants DEF Halved, Word
  <2>2. Wrap(a + b) \in Word /\ Wrap(2 * b) \in Word
    BY WrapTypes, Constants DEF Word
  <2> QED
    BY <1>3, <2>1, <2>2 DEF MultiplyStep, given
<1>4. CASE DivideBegins
  <2>1. Minus(a) \in {0, 1} /\ Minus(b) \in {0, 1}
    BY MagnitudeTypes
  <2>2. Signs(a, b) \in 0..2
    BY <2>1 DEF Signs
  <2>3. Bits \in Nat /\ 0 \in Word
    BY ArithmeticAssumption, Constants DEF Word
  <2> QED
    BY <1>4, <2>2, <2>3, MagnitudeTypes DEF DivideBegins, given
<1>5. CASE DivideStep
  <2>1. /\ label = "loop" /\ Divides /\ count > 0 /\ count' = count - 1
        /\ UNCHANGED <<given, b, sign, label>>
        /\ a' = Wrap(2 * a) + Bit(Fits(Wrap(2 * t1 + Minus(a))))
        /\ t1' = IF Fits(Wrap(2 * t1 + Minus(a))) THEN Wrap(2 * t1 + Minus(a)) - b
                 ELSE Wrap(2 * t1 + Minus(a))
    BY <1>5 DEF DivideStep
  <2>2. PICK q \in Nat, k \in Nat : Holds(q, k, t1, count)
    BY <2>1 DEF Dividing
  <2>3. count \in 1..Bits /\ t1 < b /\ b <= Half /\ b \in Nat \ {0}
        /\ Magnitude(left) \in Nat
    BY <2>1, MagnitudeTypes, Constants DEF Dividing, Word
  <2>4. Wrap(2 * a) + 1 < Top
    BY <2>2, <2>3, HoldsStep
  <2>5. Wrap(2 * a) \in Word /\ Wrap(2 * t1 + Minus(a)) \in Word
    BY WrapTypes, MagnitudeTypes, Constants DEF Word
  <2>6. a' \in Word /\ t1' \in Word
    BY <2>1, <2>4, <2>5, <2>3, Constants DEF Bit, Fits, Word
  <2> QED
    BY <2>1, <2>6 DEF given
<1>6. CASE DivideEnds
  <2>1. Wrap(-a) \in Word
    BY WrapTypes, Constants DEF Word
  <2> QED
    BY <1>6, <2>1 DEF DivideEnds, given
<1>7. CASE ShiftBegins
  <2>1. ShiftCount(b) \in Nat
    BY ArithmeticAssumption, Constants DEF ShiftCount, Word
  <2> QED
    BY <1>7, <2>1 DEF ShiftBegins, given
<1>8. CASE ShiftStep
  <2>1. Halved(a) \in Word /\ Wrap(2 * a) \in Word
    BY WrapTypes, Constants DEF Halved, Word
  <2> QED
    BY <1>8, <2>1 DEF ShiftStep, given
<1> QED
  BY <1>1, <1>2, <1>3, <1>4, <1>5, <1>6, <1>7, <1>8 DEF Next

LEMMA DividingStep == TypeOK /\ Given /\ Dividing /\ [Next]_vars => Dividing'
<1> SUFFICES ASSUME TypeOK, Given, Dividing, [Next]_vars PROVE Dividing'
  OBVIOUS
<1>1. CASE UNCHANGED vars
  BY <1>1 DEF vars, Dividing, Divides, Holds
<1>2. CASE ~(label' = "loop" /\ Divides')
  BY <1>2 DEF Dividing
<1>3. CASE DivideBegins
  <2>1. /\ b # 0 /\ b' = Magnitude(right) /\ a' = Magnitude(left) /\ t1' = 0
        /\ sign' = Minus(right) + Minus(left) /\ count' = Bits
        /\ left' = left /\ right' = right /\ a = left /\ b = right
    <3>1. a = left /\ b = right
      BY <1>3 DEF DivideBegins, Given
    <3>2. Minus(left) \in {0, 1} /\ Minus(right) \in {0, 1}
      BY MagnitudeTypes DEF TypeOK
    <3>3. Signs(a, b) = Minus(right) + Minus(left)
      BY <3>1, <3>2 DEF Signs
    <3> QED
      BY <1>3, <3>1, <3>3 DEF DivideBegins, given
  <2>2. /\ Magnitude(left) \in 0..Half /\ Magnitude(right) \in 0..Half
        /\ Magnitude(right) # 0
    BY <2>1, MagnitudeTypes DEF TypeOK
  <2>3. Magnitude(left)' = Magnitude(left) /\ Magnitude(right)' = Magnitude(right)
        /\ Minus(left)' = Minus(left) /\ Minus(right)' = Minus(right)
    BY <2>1 DEF Magnitude, Minus
  <2>4. Power[Bits - Bits] = 1 /\ Power[Bits] = Top
    BY Constants, ArithmeticAssumption
  <2>5. Holds(0, Magnitude(left), t1, count)'
    <3>1. /\ 0 < 1 /\ Magnitude(left) < Top
          /\ Magnitude(left) = 0 + Magnitude(left) * 1
          /\ Magnitude(left) = (0 * Magnitude(right) + 0) * Top + Magnitude(left)
      BY <2>2, Constants
    <3> QED
      BY <2>1, <2>3, <2>4, <3>1 DEF Holds
  <2>6. Magnitude(left)' \in Nat /\ 0 \in Nat
    BY <2>2, <2>3, Constants
  <2>7. \E q, k \in Nat : Holds(q, k, t1, count)'
    BY <2>5, <2>6
  <2>8. count' \in 0..Bits /\ t1' < b' /\ b' <= Half'
    BY <2>1, <2>2, Constants, ArithmeticAssumption DEF Half
  <2> QED
    BY <2>1, <2>3, <2>7, <2>8 DEF Dividing
<1>4. CASE DivideStep
  <2> DEFINE m == 2 * t1 + Minus(a)
  <2>1. /\ label = "loop" /\ Divides /\ count > 0 /\ count' = count - 1
        /\ UNCHANGED <<left, right, b, sign>>
        /\ a' = Wrap(2 * a) + Bit(Fits(Wrap(m)))
        /\ t1' = IF Fits(Wrap(m)) THEN Wrap(m) - b ELSE Wrap(m)
    BY <1>4 DEF DivideStep, given
  <2>2. PICK q \in Nat, k \in Nat : Holds(q, k, t1, count)
    BY <2>1 DEF Dividing
  <2>3. count \in 1..Bits /\ t1 < b /\ b <= Half /\ b \in Nat \ {0}
        /\ Magnitude(left) \in Nat
    BY <2>1, MagnitudeTypes, Constants DEF Dividing, Word, TypeOK
  <2>4. /\ Wrap(m) = m /\ m \in Nat /\ m < 2 * b
    BY <2>2, <2>3, HoldsStep
  <2>5. PICK j \in Nat : /\ j < Power[count - 1]
                         /\ Wrap(2 * a) = 2 * q + j * Power[Bits - (count - 1)]
                         /\ Magnitude(left) = (2 * (q * b) + m) * Power[count - 1] + j
    BY <2>2, <2>3, HoldsStep
  <2> HIDE DEF m
  <2>6. Magnitude(left)' = Magnitude(left) /\ Magnitude(right)' = Magnitude(right)
        /\ Minus(left)' = Minus(left) /\ Minus(right)' = Minus(right) /\ Half' = Half
    BY <2>1 DEF Magnitude, Minus, Half
  <2>7. count' \in 0..Bits
    BY <2>1, <2>3, ArithmeticAssumption
  <2>8. q < Power[Bits - count] /\ Power[Bits - count] \in Nat
        /\ Power[Bits - (count - 1)] = 2 * Power[Bits - count]
    BY <2>2, <2>3, StepPowers DEF Holds
  <2>9. 2 * q + 1 < Power[Bits - count'] /\ 2 * q < Power[Bits - count']
    BY <2>1, <2>8
  <2>10. t1' < b' /\ \E u, v \in Nat : Holds(u, v, t1, count)'
    <3>1. CASE m >= b
      <4>1. /\ 2 * (q * b) + m = (2 * q + 1) * b + (m - b)
            /\ m - b \in Nat /\ m - b < b
        BY <2>3, <2>4, <3>1, Subtracted
      <4>2. t1' = m - b /\ a' = Wrap(2 * a) + 1
        BY <2>1, <2>4, <3>1 DEF Fits, Bit
      <4>3. a' = (2 * q + 1) + j * Power[Bits - count']
        <5>1. j * Power[Bits - (count - 1)] \in Nat
          BY <2>8
        <5> QED
          BY <2>1, <2>5, <4>2, <5>1
      <4>4. Magnitude(left) = ((2 * q + 1) * b + (m - b)) * Power[count - 1] + j
        BY <2>5, <4>1
      <4>5. Holds(2 * q + 1, j, t1, count)'
        BY <2>1, <2>5, <2>6, <2>9, <4>2, <4>3, <4>4 DEF Holds
      <4>6. 2 * q + 1 \in Nat
        OBVIOUS
      <4> QED
        BY <2>1, <4>1, <4>2, <4>5, <4>6
    <3>2. CASE m < b
      <4>1. 2 * (q * b) + m = (2 * q) * b + m
        BY <2>3, <2>4, <3>2, Subtracted
      <4>2. t1' = m /\ a' = Wrap(2 * a)
        <5>1. ~Fits(Wrap(m))
          BY <2>3, <2>4, <3>2 DEF Fits
        <5>2. Wrap(2 * a) \in Nat
          BY <2>5, <2>8
        <5> QED
          BY <2>1, <2>4, <5>1, <5>2 DEF Bit
      <4>3. a' = 2 * q + j * Power[Bits - count']
        BY <2>1, <2>5, <4>2
      <4>4. Magnitude(left) = ((2 * q) * b + m) * Power[count - 1] + j
        BY <2>5, <4>1
      <4>5. Holds(2 * q, j, t1, count)'
        BY <2>1, <2>5, <2>6, <2>9, <4>2, <4>3, <4>4 DEF Holds
      <4>6. 2 * q \in Nat
        OBVIOUS
      <4> QED
        BY <2>1, <3>2, <4>2, <4>5, <4>6
    <3> QED
      BY <2>3, <2>4, <3>1, <3>2
  <2>11. right # 0 /\ b = Magnitude(right) /\ sign = Minus(right) + Minus(left)
    BY <2>1 DEF Dividing
  <2> QED
    BY <2>1, <2>3, <2>6, <2>7, <2>10, <2>11 DEF Dividing
<1>5. CASE Next /\ ~DivideBegins /\ ~DivideStep
  BY <1>2, <1>5 DEF Next, MultiplyBegins, MultiplyStep, MultiplyEnds, DivideByZero,
     DivideEnds, ShiftBegins, ShiftStep, ShiftEnds, given, Divides
<1> QED
  BY <1>1, <1>3, <1>4, <1>5

LEMMA ExactStep ==
  TypeOK /\ Dividing /\ DivisionExact /\ [Next]_vars => DivisionExact'
<1> SUFFICES ASSUME TypeOK, Dividing, DivisionExact, [Next]_vars
             PROVE  DivisionExact'
  OBVIOUS
<1>1. CASE UNCHANGED vars
  BY <1>1 DEF vars, DivisionExact, Divides, Divided, Magnitude, Minus
<1>2. CASE DivideEnds
  <2>1. /\ label = "loop" /\ Divides /\ count = 0
        /\ UNCHANGED <<op, left, right, t1>>
        /\ a' = IF op = "%" THEN t1 ELSE IF sign = 1 THEN Wrap(-a) ELSE a
    BY <1>2 DEF DivideEnds, given
  <2>2. PICK q \in Nat, k \in Nat : Holds(q, k, t1, count)
    BY <2>1 DEF Dividing
  <2>3. /\ b = Magnitude(right) /\ sign = Minus(right) + Minus(left) /\ t1 < b
        /\ b # 0
    <3>1. b = Magnitude(right) /\ sign = Minus(right) + Minus(left) /\ t1 < b
          /\ right # 0
      BY <2>1 DEF Dividing
    <3> QED
      BY <3>1, MagnitudeTypes DEF TypeOK
  <2>4. Power[0] = 1 /\ Power[Bits - 0] = Top
    BY Constants, ArithmeticAssumption
  <2>5. k = 0 /\ a = q /\ Magnitude(left) = q * b + t1
    <3>1. /\ k < 1 /\ a = q + k * Top /\ Magnitude(left) = (q * b + t1) * 1 + k
      BY <2>1, <2>2, <2>4 DEF Holds
    <3>2. k = 0
      BY <3>1
    <3>3. q * b \in Nat /\ t1 \in Nat
      BY Constants DEF TypeOK, Word
    <3> QED
      BY <3>1, <3>2, <3>3, Constants
  <2>6. q \in 0..Half
    <3>1. b \in Nat /\ t1 \in Nat /\ b >= 1 /\ Magnitude(left) <= Half
      BY <2>3, MagnitudeTypes, Constants DEF TypeOK, Word
    <3>2. q * b = q * (b - 1) + q /\ q * (b - 1) \in Nat
      BY <3>1
    <3> QED
      BY <2>5, <3>1, <3>2, Constants
  <2>7. sign = 1 <=> Minus(left) # Minus(right)
    <3>1. Minus(left) \in {0, 1} /\ Minus(right) \in {0, 1}
      BY MagnitudeTypes DEF TypeOK
    <3> QED
      BY <2>3, <3>1
  <2>8. Divided(q, t1)'
    BY <2>1, <2>3, <2>5 DEF Divided, Magnitude
  <2>9. /\ op' = "%" => a' = t1'
        /\ op' = "/" => a' = IF Minus(left)' = Minus(right)' THEN q ELSE Wrap(-q)
    BY <2>1, <2>5, <2>7 DEF Minus
  <2>10. q \in 0..Half'
    BY <2>6 DEF Half
  <2> QED
    BY <2>8, <2>9, <2>10 DEF DivisionExact
<1>3. CASE Next /\ ~DivideEnds
  <2>1. label' = "done" => ~Divides'
    BY <1>3 DEF Next, MultiplyBegins, MultiplyStep, MultiplyEnds, DivideByZero,
       DivideBegins, DivideStep, ShiftBegins, ShiftStep, ShiftEnds, given, Divides
  <2> QED
    BY <2>1 DEF DivisionExact
<1> QED
  BY <1>1, <1>2, <1>3

LEMMA InductiveStep == Inductive /\ [Next]_vars => Inductive'
<1>1. TypeOK /\ Given /\ Dividing /\ [Next]_vars => Given'
  BY DEF Given, Next, vars, MultiplyBegins, MultiplyStep, MultiplyEnds, DivideByZero,
     DivideBegins, DivideStep, DivideEnds, ShiftBegins, ShiftStep, ShiftEnds, given
<1> QED
  BY <1>1, TypeStep, DividingStep, ExactStep DEF Inductive

LEMMA AlwaysInductive == Spec => []Inductive
  BY InductiveInit, InductiveStep, PTL DEF Spec

-----------------------------------------------------------------------------

\* multiply.asm, divide.asm, arithmetic.asm: for every width no register gets a
\* value that does not fit its bits.
THEOREM ArithmeticTypes == Spec => []TypeOK
<1>1. Inductive => TypeOK
  BY DEF Inductive
<1> QED
  BY <1>1, AlwaysInductive, PTL

\* divide.asm:56-57: the bit that the rotation of the remainder drops is a zero,
\* for every width and all operands.
THEOREM RemainderNeverOverflows == Spec => []RemainderFits
<1>1. Inductive => RemainderFits
  BY DEF Inductive, Dividing, RemainderFits
<1> QED
  BY <1>1, AlwaysInductive, PTL

\* divide.asm:26-112: / and % give quotient and remainder of the magnitudes with
\* the sign of a quotient, for every width and all operands.
THEOREM DivisionIsExact == Spec => []DivisionExact
<1>1. Inductive => DivisionExact
  BY DEF Inductive
<1> QED
  BY <1>1, AlwaysInductive, PTL

-----------------------------------------------------------------------------
(* Multiplication: numbers that differ by words are the same word. *)

LEMMA WrapIs ==
  ASSUME NEW n \in Int
  PROVE  \E x \in Int : Wrap(n) = n + x * Top
<1>1. n = Top * (n \div Top) + (n % Top) /\ n \div Top \in Int
  BY Constants
<1>2. PICK z \in Int : n = Top * z + Wrap(n)
  BY <1>1 DEF Wrap
<1>3. Wrap(n) = n + (-z) * Top
  <2>1. (-z) * Top = -(Top * z) /\ Top * z \in Int
    BY Constants
  <2> QED
    BY <1>2, <2>1, WrapTypes, Constants DEF Word
<1> QED
  BY <1>3

LEMMA NoWordBetween ==
  ASSUME NEW u \in Word, NEW v \in Word, NEW d \in Int, u = v + d * Top
  PROVE  u = v
<1>1. CASE d = 0
  <2>1. d * Top = 0
    BY <1>1, Constants
  <2> QED
    BY <2>1, Constants DEF Word
<1>2. CASE d >= 1
  <2>1. d * Top = (d - 1) * Top + Top /\ (d - 1) * Top >= 0
    BY <1>2, Constants
  <2> QED
    BY <2>1, Constants DEF Word
<1>3. CASE d <= -1
  <2>1. d * Top = -((-d - 1) * Top) - Top /\ (-d - 1) * Top >= 0
    BY <1>3, Constants
  <2> QED
    BY <2>1, Constants DEF Word
<1>4. d = 0 \/ d >= 1 \/ d <= -1
  OBVIOUS
<1> QED
  BY <1>1, <1>2, <1>3, <1>4, Zenon

LEMMA SameWord ==
  ASSUME NEW m \in Int, NEW n \in Int, NEW k \in Int, m = n + k * Top
  PROVE  Wrap(m) = Wrap(n)
<1>1. PICK x \in Int : Wrap(m) = m + x * Top
  BY WrapIs
<1>2. PICK y \in Int : Wrap(n) = n + y * Top
  BY WrapIs
<1>3. Wrap(m) \in Word /\ Wrap(n) \in Word
  BY WrapTypes
<1>4. Wrap(m) = Wrap(n) + (x + k - y) * Top
  <2>1. (x + k - y) * Top = x * Top + k * Top - y * Top
    BY Constants
  <2>2. x * Top \in Int /\ k * Top \in Int /\ y * Top \in Int
    BY Constants
  <2> QED
    BY <1>1, <1>2, <2>1, <2>2
<1> QED
  BY <1>3, <1>4, NoWordBetween

\* What a step of the loop does to the sum of product and rest.
Halves(u, t, v, h, o) ==
  /\ u \in Nat /\ t \in Nat /\ v \in Nat /\ h \in Nat
  /\ o \in {0, 1} /\ t = 2 * h + o
LEMMA StepSum ==
  ASSUME NEW u, NEW t, NEW v, NEW h, NEW o, Halves(u, t, v, h, o)
  PROVE  Wrap(Wrap(u + o * v) + h * Wrap(2 * v)) = Wrap(u + t * v)
<1> USE DEF Halves
<1>1. PICK x \in Int : Wrap(u + o * v) = (u + o * v) + x * Top
  BY WrapIs
<1>2. PICK y \in Int : Wrap(2 * v) = 2 * v + y * Top
  BY WrapIs
<1>3. Wrap(u + o * v) + h * Wrap(2 * v) = (u + t * v) + (x + h * y) * Top
  <2>1. h * Wrap(2 * v) = 2 * (h * v) + h * (y * Top)
    BY <1>2, Constants
  <2>2. t * v = 2 * (h * v) + o * v
    OBVIOUS
  <2>3. (x + h * y) * Top = x * Top + h * (y * Top)
    BY Constants
  <2>4. h * v \in Int /\ o * v \in Int /\ x * Top \in Int /\ h * (y * Top) \in Int
    BY Constants
  <2> QED
    BY <1>1, <2>1, <2>2, <2>3, <2>4
<1>4. /\ Wrap(u + o * v) + h * Wrap(2 * v) \in Int /\ u + t * v \in Int
      /\ x + h * y \in Int
  <2>1. Wrap(u + o * v) \in Int /\ Wrap(2 * v) \in Int
    BY WrapTypes, Constants DEF Word
  <2> QED
    BY <2>1
<1> QED
  BY <1>3, <1>4, SameWord

Multiplying == Given /\ ProductKept
LEMMA ProductStep == TypeOK /\ Multiplying /\ [Next]_vars => Multiplying'
<1> SUFFICES ASSUME TypeOK, Multiplying, [Next]_vars PROVE Multiplying'
  OBVIOUS
<1>1. Given'
  BY DEF Multiplying, Given, Next, vars, MultiplyBegins, MultiplyStep, MultiplyEnds,
     DivideByZero, DivideBegins, DivideStep, DivideEnds, ShiftBegins, ShiftStep,
     ShiftEnds, given
<1>2. CASE UNCHANGED vars
  BY <1>1, <1>2 DEF vars, Multiplying, ProductKept, Wrap
<1>3. CASE MultiplyBegins
  <2>1. /\ op' = op /\ left' = left /\ right' = right /\ label' = "loop"
        /\ a' = 0 /\ t1' = left /\ b' = right
    BY <1>3 DEF MultiplyBegins, given, Multiplying, Given
  <2>2. 0 + left * right = left * right
    BY Constants DEF TypeOK, Word
  <2>3. Wrap(a + t1 * b)' = Wrap(0 + left * right) /\ Wrap(left * right)' = Wrap(left * right)
    BY <2>1 DEF Wrap
  <2> QED
    BY <1>1, <2>1, <2>2, <2>3 DEF Multiplying, ProductKept
<1>4. CASE MultiplyStep
  <2> DEFINE o == Bit(Odd(t1))
             h == t1 \div 2
  <2>1. /\ label = "loop" /\ op = "*" /\ UNCHANGED <<op, left, right, label>>
        /\ a' = IF Odd(t1) THEN Wrap(a + b) ELSE a
        /\ t1' = h /\ b' = Wrap(2 * b)
    BY <1>4 DEF MultiplyStep, given, Halved
  <2>2. o \in {0, 1} /\ h \in Nat /\ t1 = 2 * h + o /\ a \in Nat /\ b \in Nat /\ t1 \in Nat
    BY Constants DEF Bit, Odd, TypeOK, Word
  <2>3. a' = Wrap(a + o * b)
    <3>1. CASE Odd(t1)
      BY <2>1, <2>2, <3>1 DEF Bit
    <3>2. CASE ~Odd(t1)
      <4>1. a + o * b = a
        BY <2>2, <3>2 DEF Bit
      <4> QED
        BY <2>1, <3>2, <4>1, WrapTypes DEF TypeOK
    <3> QED
      BY <3>1, <3>2
  <2> HIDE DEF o, h
  <2>4. Wrap(Wrap(a + o * b) + h * Wrap(2 * b)) = Wrap(a + t1 * b)
    <3>1. Halves(a, t1, b, h, o)
      BY <2>2 DEF Halves
    <3> QED
      BY <3>1, StepSum
  <2>5. Wrap(a + t1 * b) = Wrap(left * right)
    BY <2>1 DEF Multiplying, ProductKept
  <2>6. /\ Wrap(a + t1 * b)' = Wrap(Wrap(a + o * b) + h * Wrap(2 * b))
        /\ Wrap(left * right)' = Wrap(left * right)
    BY <2>1, <2>3 DEF Wrap
  <2> QED
    BY <1>1, <2>1, <2>4, <2>5, <2>6 DEF Multiplying, ProductKept
<1>5. CASE MultiplyEnds
  <2>1. /\ label = "loop" /\ op = "*" /\ t1 = 0 /\ label' = "done"
        /\ UNCHANGED <<op, left, right, a, b, t1>>
    BY <1>5 DEF MultiplyEnds, given
  <2>2. Wrap(a) = a /\ a + t1 * b = a
    BY <2>1, WrapTypes, Constants DEF TypeOK, Word
  <2>3. a = Wrap(left * right)
    BY <2>1, <2>2 DEF Multiplying, ProductKept
  <2> QED
    BY <1>1, <2>1, <2>3 DEF Multiplying, ProductKept, Wrap
<1>6. CASE Next /\ op # "*"
  <2>1. op' # "*"
    BY <1>6 DEF Next, MultiplyBegins, MultiplyStep, MultiplyEnds, DivideByZero,
       DivideBegins, DivideStep, DivideEnds, ShiftBegins, ShiftStep, ShiftEnds, given
  <2> QED
    BY <1>1, <2>1 DEF Multiplying, ProductKept
<1> QED
  BY <1>2, <1>3, <1>4, <1>5, <1>6 DEF Next, DivideByZero, DivideBegins, DivideStep,
     DivideEnds, ShiftBegins, ShiftStep, ShiftEnds, Divides

\* multiply.asm:26-47: the loop keeps product and rest, modulo the word, and
\* ends with the product of the operands, for every width.
THEOREM ProductIsKept == Spec => []ProductKept
<1>1. Init => Multiplying
  BY DEF Init, Multiplying, Given, ProductKept
<1>2. Multiplying => ProductKept
  BY DEF Multiplying
<1> QED
  BY <1>1, <1>2, ArithmeticTypes, ProductStep, PTL DEF Spec

-----------------------------------------------------------------------------
(* Shifts. *)

LEMMA QuotientUnique ==
  ASSUME NEW l \in Nat, NEW p \in Nat \ {0}, NEW q \in Nat, NEW r \in Nat,
         l = p * q + r, r < p
  PROVE  l \div p = q
<1>1. PICK u \in Int : u = l \div p
  OBVIOUS
<1>2. PICK s \in Nat : l = p * u + s /\ s < p
  BY <1>1
<1>3. \A m \in Int : m >= 1 => p * m >= p
  <2> SUFFICES ASSUME NEW m \in Int, m >= 1 PROVE p * m >= p
    OBVIOUS
  <2>1. p * m = p * (m - 1) + p /\ p * (m - 1) >= 0
    OBVIOUS
  <2> QED
    BY <2>1
<1>4. p * (u - q) = p * u - p * q /\ p * (q - u) = p * q - p * u
  OBVIOUS
<1>5. ~(u - q >= 1) /\ ~(q - u >= 1)
  <2>1. p * u \in Int /\ p * q \in Int
    OBVIOUS
  <2> QED
    BY <1>2, <1>3, <1>4, <2>1
<1> QED
  BY <1>1, <1>5

LEMMA HalvedQuotient ==
  ASSUME NEW l \in Nat, NEW p \in Nat \ {0}
  PROVE  /\ Halved(l \div p) = l \div (2 * p)
         /\ l < 2 * p => Halved(l \div p) = 0
<1>1. PICK q \in Nat, r \in Nat : q = l \div p /\ l = p * q + r /\ r < p
  <2>1. l = p * (l \div p) + (l % p) /\ l \div p \in Int /\ l % p \in 0..(p - 1)
    OBVIOUS
  <2>2. PICK u \in Int : u = l \div p
    BY <2>1
  <2>3. CASE u <= -1
    <3>1. p * u = -(p * (-u - 1)) - p /\ p * (-u - 1) >= 0
      BY <2>3
    <3> QED
      BY <2>1, <2>2, <3>1
  <2> QED
    BY <2>1, <2>2, <2>3
<1>2. PICK h \in Nat, o \in {0, 1} : h = q \div 2 /\ q = 2 * h + o
  OBVIOUS
<1>3. l = (2 * p) * h + (p * o + r) /\ p * o + r \in Nat /\ p * o + r < 2 * p
  <2>1. p * q = (2 * p) * h + p * o
    BY <1>2
  <2>2. p * o \in Nat /\ p * o <= p
    OBVIOUS
  <2>3. p * q \in Nat /\ (2 * p) * h \in Nat
    OBVIOUS
  <2> QED
    BY <1>1, <2>1, <2>2, <2>3
<1>4. l \div (2 * p) = h
  <2>1. 2 * p \in Nat \ {0}
    OBVIOUS
  <2> QED
    BY <1>3, <2>1, QuotientUnique
<1>5. ASSUME l < 2 * p PROVE h = 0
  <2>1. CASE h >= 1
    <3>1. (2 * p) * h = (2 * p) * (h - 1) + 2 * p /\ (2 * p) * (h - 1) >= 0
      BY <2>1
    <3> QED
      BY <1>3, <1>5, <3>1
  <2> QED
    BY <2>1
<1> QED
  BY <1>1, <1>2, <1>4, <1>5 DEF Halved

LEMMA DoubledWord == ASSUME NEW n \in Nat PROVE Wrap(2 * Wrap(n)) = Wrap(2 * n)
<1>1. PICK x \in Int : Wrap(n) = n + x * Top
  BY WrapIs
<1>2. 2 * Wrap(n) = 2 * n + (2 * x) * Top
  BY <1>1, Constants
<1>3. 2 * Wrap(n) \in Int
  BY WrapTypes, Constants DEF Word
<1> QED
  BY <1>2, <1>3, SameWord

\* The word l, shifted d times.
After(o, l, d) ==
  IF d >= Bits THEN 0
  ELSE IF o = ">>" THEN l \div Power[d] ELSE Wrap(l * Power[d])

LEMMA ShiftOnce ==
  ASSUME NEW l \in Word, NEW d \in Nat
  PROVE  /\ Halved(After(">>", l, d)) = After(">>", l, d + 1)
         /\ Wrap(2 * After("<<", l, d)) = After("<<", l, d + 1)
<1>1. CASE d >= Bits
  <2>1. Halved(0) = 0 /\ Wrap(2 * 0) = 0
    BY Constants, WrapTypes DEF Halved, Word
  <2>2. d + 1 >= Bits
    BY <1>1, ArithmeticAssumption
  <2> QED
    BY <1>1, <2>1, <2>2 DEF After
<1>2. CASE d < Bits
  <2>1. /\ d + 1 \in 1..Bits /\ (d + 1) - 1 = d /\ d \in 0..Bits
        /\ Bits \in Nat /\ ~(d >= Bits)
    BY <1>2, ArithmeticAssumption
  <2>2. /\ Power[d] \in Nat \ {0} /\ Power[d + 1] = 2 * Power[d]
        /\ Power[d + 1] \in Nat \ {0}
    BY <2>1, ArithmeticAssumption
  <2>3. l \in Nat /\ l < Top /\ Top \in Nat
    BY Constants DEF Word
  <2>4. PICK p \in Nat \ {0} : p = Power[d]
    BY <2>2
  <2>5. Halved(After(">>", l, d)) = Halved(l \div p)
    BY <2>1, <2>4 DEF After
  <2>6. After("<<", l, d) = Wrap(l * p)
    BY <2>1, <2>4 DEF After
  <2>7. Wrap(2 * After("<<", l, d)) = Wrap(l * (2 * p))
    <3>1. l * p \in Nat /\ 2 * (l * p) = l * (2 * p)
      BY <2>3
    <3> QED
      BY <2>6, <3>1, DoubledWord
  <2>8. CASE d + 1 < Bits
    <3>1. ~(d + 1 >= Bits)
      BY <2>1, <2>8
    <3> QED
      BY <2>2, <2>3, <2>4, <2>5, <2>7, <3>1, HalvedQuotient DEF After
  <2>9. CASE d + 1 = Bits
    <3>1. Top = 2 * p
      BY <2>2, <2>4, <2>9 DEF Top
    <3>2. Wrap(l * (2 * p)) = 0
      <4>1. l * (2 * p) = 0 + l * Top /\ l * (2 * p) \in Int
        BY <2>3, <3>1
      <4>2. Wrap(l * (2 * p)) = Wrap(0)
        <5>1. PICK m \in Int : m = l * (2 * p)
          BY <4>1
        <5>2. m = 0 + l * Top /\ l \in Int /\ 0 \in Int
          BY <2>3, <4>1, <5>1
        <5>3. Wrap(m) = Wrap(0)
          BY <5>2, SameWord
        <5> QED
          BY <5>1, <5>3
      <4> QED
        BY <4>2, Constants, WrapTypes DEF Word
    <3>3. Halved(l \div p) = 0
      BY <2>3, <3>1, HalvedQuotient
    <3>4. \A o : After(o, l, d + 1) = 0
      BY <2>1, <2>9 DEF After
    <3> QED
      BY <2>5, <2>7, <3>2, <3>3, <3>4
  <2> QED
    BY <2>1, <2>8, <2>9
<1> QED
  BY <1>1, <1>2, ArithmeticAssumption

Shifting ==
  op \in {">>", "<<"} =>
    /\ label = "loop" =>
         count \in 0..(right % Shifts) /\ a = After(op, left, (right % Shifts) - count)
    /\ label = "done" => a = After(op, left, right % Shifts)

LEMMA ShiftingStep == TypeOK /\ Given /\ Shifting /\ [Next]_vars => Shifting'
<1> SUFFICES ASSUME TypeOK, Given, Shifting, [Next]_vars PROVE Shifting'
  OBVIOUS
<1>1. PICK n \in Nat : n = right % Shifts
  <2>1. right \in Int /\ Shifts \in Nat \ {0}
    BY ArithmeticAssumption, Constants DEF TypeOK, Word
  <2>2. right % Shifts \in 0..(Shifts - 1)
    BY <2>1
  <2> QED
    BY <2>2
<1>2. left \in Word /\ left \in Nat
  BY Constants DEF TypeOK, Word
<1>3. CASE UNCHANGED vars
  BY <1>3 DEF vars, Shifting, After, Wrap
<1>4. CASE ShiftBegins
  <2>1. /\ UNCHANGED <<op, left, right>> /\ label' = "loop"
        /\ count' = n /\ a' = left
    BY <1>1, <1>4 DEF ShiftBegins, ShiftCount, given, Given
  <2>2. After(op, left, 0) = left
    <3>1. ~(0 >= Bits) /\ Power[0] = 1
      BY ArithmeticAssumption
    <3>2. left \div 1 = left /\ left * 1 = left /\ Wrap(left) = left
      BY <1>2, WrapTypes
    <3> QED
      BY <3>1, <3>2 DEF After
  <2>3. n - n = 0 /\ n \in 0..n
    OBVIOUS
  <2>4. right' % Shifts = n /\ After(op', left', n - n) = left
    BY <1>1, <2>1, <2>2, <2>3
  <2> QED
    BY <2>1, <2>3, <2>4 DEF Shifting, After
<1>5. CASE ShiftStep
  <2>1. /\ UNCHANGED <<op, left, right, label>> /\ label = "loop" /\ count > 0
        /\ op \in {">>", "<<"} /\ count' = count - 1
        /\ a' = IF op = ">>" THEN Halved(a) ELSE Wrap(2 * a)
    BY <1>5 DEF ShiftStep, given
  <2>2. count \in 0..n /\ a = After(op, left, n - count)
    BY <1>1, <2>1 DEF Shifting
  <2>3. PICK d \in Nat : d = n - count
    BY <2>2
  <2>4. n - count' = d + 1 /\ count' \in 0..n
    BY <2>1, <2>2, <2>3
  <2>5. a' = After(op, left, d + 1)
    BY <1>2, <2>1, <2>2, <2>3, ShiftOnce
  <2>6. right' % Shifts = n /\ label' = "loop"
    BY <1>1, <2>1
  <2> QED
    BY <2>1, <2>4, <2>5, <2>6 DEF Shifting, After, Wrap
<1>6. CASE ShiftEnds
  <2>1. /\ UNCHANGED <<op, left, right, a>> /\ label = "loop" /\ count = 0
        /\ op \in {">>", "<<"} /\ label' = "done"
    BY <1>6 DEF ShiftEnds, given
  <2>2. a = After(op, left, n - 0) /\ n - 0 = n
    BY <1>1, <2>1 DEF Shifting
  <2>3. a' = After(op', left', right' % Shifts)
    BY <1>1, <2>1, <2>2
  <2> QED
    BY <2>1, <2>3 DEF Shifting, After
<1>7. CASE Next /\ op \notin {">>", "<<"}
  <2>1. op' = op
    BY <1>7 DEF Next, MultiplyBegins, MultiplyStep, MultiplyEnds, DivideByZero,
       DivideBegins, DivideStep, DivideEnds, ShiftBegins, ShiftStep, ShiftEnds, given
  <2> QED
    BY <1>7, <2>1 DEF Shifting
<1> QED
  BY <1>3, <1>4, <1>5, <1>6, <1>7 DEF Next, MultiplyBegins, MultiplyStep, MultiplyEnds,
     DivideByZero, DivideBegins, DivideStep, DivideEnds, Divides

\* arithmetic.asm: >> and << shift in zeros for as many steps as the count
\* modulo 64 says, and leave nothing after the width of a word, for every
\* width.
THEOREM ShiftsAreExact == Spec => []ShiftsExact
<1>1. Init => Shifting
  BY DEF Init, Shifting
<1>2. Shifting => ShiftsExact
  BY DEF Shifting, ShiftsExact, After
<1> QED
  BY <1>1, <1>2, AlwaysInductive, ShiftingStep, PTL DEF Spec, Inductive

-----------------------------------------------------------------------------
(* The count of FOR ... NEXT.  CountHalf is the Half and place the label   *)
(* of Counting.                                                            *)

LEMMA CountWords ==
  ASSUME Count!CountingAssumption
  PROVE  /\ Count!Top \in Nat \ {0} /\ CountHalf \in Nat \ {0}
         /\ \A n \in Int : Count!Wrap(n) \in Count!Word
         /\ \A n \in Count!Word : Count!Signed(n) \in (-CountHalf)..(CountHalf - 1)
         /\ \A n \in Count!Word : Count!Negative(n) <=> Count!Signed(n) < 0
<1>1. Count!Top \in Nat \ {0} /\ CountHalf \in Nat \ {0}
  BY Count!CountingAssumption DEF Count!CountingAssumption, Count!Top
<1> QED
  BY <1>1 DEF Count!Wrap, Count!Word, Count!Signed, Count!Negative, Count!Top

LEMMA CountWrapIs ==
  ASSUME Count!CountingAssumption, NEW n \in Int
  PROVE  \E x \in Int : Count!Wrap(n) = n + x * Count!Top
<1>1. n = Count!Top * (n \div Count!Top) + (n % Count!Top) /\ n \div Count!Top \in Int
  BY Count!CountingAssumption, CountWords
<1>2. PICK z \in Int : n = Count!Top * z + Count!Wrap(n)
  BY <1>1 DEF Count!Wrap
<1>3. Count!Wrap(n) = n + (-z) * Count!Top
  <2>1. (-z) * Count!Top = -(Count!Top * z) /\ Count!Top * z \in Int
    BY Count!CountingAssumption, CountWords
  <2> QED
    BY Count!CountingAssumption, <1>2, <2>1, CountWords DEF Count!Word
<1> QED
  BY <1>3

\* Words that differ by words are the same.
LEMMA NoCountBetween ==
  ASSUME Count!CountingAssumption, NEW u \in Count!Word, NEW v \in Count!Word,
         NEW d \in Int, u = v + d * Count!Top
  PROVE  u = v
<1>1. CASE d = 0
  <2>1. d * Count!Top = 0
    BY Count!CountingAssumption, <1>1, CountWords
  <2> QED
    BY Count!CountingAssumption, <2>1, CountWords DEF Count!Word
<1>2. CASE d >= 1
  <2>1. d * Count!Top = (d - 1) * Count!Top + Count!Top /\ (d - 1) * Count!Top >= 0
    BY Count!CountingAssumption, <1>2, CountWords
  <2> QED
    BY Count!CountingAssumption, <2>1, CountWords DEF Count!Word
<1>3. CASE d <= -1
  <2>1. d * Count!Top = -((-d - 1) * Count!Top) - Count!Top /\ (-d - 1) * Count!Top >= 0
    BY Count!CountingAssumption, <1>3, CountWords
  <2> QED
    BY Count!CountingAssumption, <2>1, CountWords DEF Count!Word
<1>4. d = 0 \/ d >= 1 \/ d <= -1
  OBVIOUS
<1> QED
  BY <1>1, <1>2, <1>3, <1>4, Zenon

\* The index is the value, wrapped; the body is run at the start or on the way.
OnTheWay ==
  IF Count!Negative(step) THEN Count!Signed(target) <= value /\ value <= Count!Signed(start)
                    ELSE Count!Signed(start) <= value /\ value <= Count!Signed(target)
Counted ==
  /\ Count!TypeOK
  /\ \E k \in Int : index = value + k * Count!Top
  /\ Count!Near /\ place = "body" => value = Count!Signed(start) \/ OnTheWay
  /\ Count!Near /\ place = "out" => Count!Past

\* What NEXT compares has the sign of the true distance if that is small.
LEMMA Distance ==
  ASSUME Count!CountingAssumption, Count!TypeOK,
         NEW k \in Int, index = value + k * Count!Top,
         NEW x \in Int, x = Count!Signed(target) - (value + Count!Signed(step)),
         -CountHalf < x, x < CountHalf
  PROVE  Count!Again(Count!Wrap(target - Count!Stepped))
           <=> x = 0 \/ (x < 0 <=> Count!Negative(step))
<1>1. PICK y \in Int : Count!Stepped = (index + step) + y * Count!Top
  <2>1. index + step \in Int
    BY DEF Count!TypeOK, Count!Word
  <2> QED
    BY Count!CountingAssumption, <2>1, CountWrapIs DEF Count!Stepped
<1>2. Count!Stepped \in Count!Word
  BY Count!CountingAssumption, CountWords DEF Count!Stepped, Count!TypeOK, Count!Word
<1>3. PICK z \in Int : Count!Wrap(target - Count!Stepped)
                          = (target - Count!Stepped) + z * Count!Top
  <2>1. target - Count!Stepped \in Int
    BY <1>2 DEF Count!TypeOK, Count!Word
  <2> QED
    BY Count!CountingAssumption, <2>1, CountWrapIs
<1>4. PICK g \in {0, 1} : target = Count!Signed(target) + g * Count!Top
  BY Count!CountingAssumption, CountWords DEF Count!Signed, Count!TypeOK, Count!Word
<1>5. PICK h \in {0, 1} : step = Count!Signed(step) + h * Count!Top
  BY Count!CountingAssumption, CountWords DEF Count!Signed, Count!TypeOK, Count!Word
<1>6. PICK i \in {0, 1} : x + i * Count!Top \in Count!Word /\ (i = 1 <=> x < 0)
  <2>1. CASE x < 0
    BY Count!CountingAssumption, <2>1, CountWords DEF Count!Word, Count!Top
  <2>2. CASE x >= 0
    BY Count!CountingAssumption, <2>2, CountWords DEF Count!Word, Count!Top
  <2> QED
    BY <2>1, <2>2
<1>7. Count!Wrap(target - Count!Stepped)
        = (x + i * Count!Top) + (g - k - h - y + z - i) * Count!Top
  <2>1. (g - k - h - y + z - i) * Count!Top
          = g * Count!Top - k * Count!Top - h * Count!Top
              - y * Count!Top + z * Count!Top - i * Count!Top
    BY Count!CountingAssumption, CountWords
  <2>2. /\ g * Count!Top \in Int /\ k * Count!Top \in Int /\ h * Count!Top \in Int
        /\ y * Count!Top \in Int /\ z * Count!Top \in Int /\ i * Count!Top \in Int
    BY Count!CountingAssumption, CountWords
  <2>3. /\ target \in Int /\ step \in Int /\ index \in Int /\ value \in Int
        /\ Count!Signed(target) \in Int /\ Count!Signed(step) \in Int
    BY Count!CountingAssumption, CountWords DEF Count!TypeOK, Count!Word
  <2> QED
    BY <1>1, <1>3, <1>4, <1>5, <2>1, <2>2, <2>3
<1>8. Count!Wrap(target - Count!Stepped) = x + i * Count!Top
  <2>1. Count!Wrap(target - Count!Stepped) \in Count!Word /\ g - k - h - y + z - i \in Int
    BY Count!CountingAssumption, <1>2, CountWords DEF Count!TypeOK, Count!Word
  <2> QED
    BY Count!CountingAssumption, <1>6, <1>7, <2>1, NoCountBetween
<1>9. Count!Wrap(target - Count!Stepped) = IF x < 0 THEN x + Count!Top ELSE x
  BY Count!CountingAssumption, <1>6, <1>8, CountWords
<1> QED
  BY Count!CountingAssumption, <1>9, CountWords DEF Count!Again, Count!Negative, Count!Top

LEMMA CountedInit == ASSUME Count!CountingAssumption PROVE Count!Init => Counted
<1> SUFFICES ASSUME Count!Init PROVE Counted
  OBVIOUS
<1>1. Count!TypeOK
  BY Count!CountingAssumption, CountWords
  DEF Count!CountingAssumption, Count!Init, Count!TypeOK
<1>2. PICK g \in {0, 1} : start = Count!Signed(start) + g * Count!Top
  BY Count!CountingAssumption, <1>1, CountWords DEF Count!Signed, Count!TypeOK, Count!Word
<1>3. index = value + g * Count!Top
  BY <1>2 DEF Count!Init
<1> QED
  BY <1>1, <1>3 DEF Count!Init, Counted

LEMMA CountedStep ==
  ASSUME Count!CountingAssumption PROVE Counted /\ [Count!Next]_(Count!vars) => Counted'
<1> SUFFICES ASSUME Counted, [Count!Next]_(Count!vars) PROVE Counted'
  OBVIOUS
<1>1. CASE UNCHANGED Count!vars
  BY <1>1 DEF Count!vars, Counted, Count!TypeOK, Count!Near, Count!Past, OnTheWay
<1>2. CASE Count!Next
  <2>1. /\ place = "body" /\ UNCHANGED <<start, target, step>>
        /\ index' = Count!Stepped /\ value' = value + Count!Signed(step)
        /\ place' = IF Count!Again(Count!Wrap(target - Count!Stepped))
                    THEN "body" ELSE "out"
    BY <1>2 DEF Count!Next, Count!NextAgain, Count!NextExit, Count!loop, Counted,
                Count!TypeOK
  <2>2. /\ start \in Count!Word /\ target \in Count!Word /\ step \in Count!Word
        /\ index \in Count!Word /\ value \in Int
    BY DEF Counted, Count!TypeOK
  <2>3. /\ Count!Signed(start) \in Int /\ Count!Signed(target) \in Int
        /\ Count!Signed(step) \in Int
        /\ (Count!Negative(step) <=> Count!Signed(step) < 0)
    BY Count!CountingAssumption, <2>2, CountWords
  <2>4. PICK k \in Int : index = value + k * Count!Top
    BY DEF Counted
  <2>5. Count!TypeOK'
    <3>1. Count!Stepped \in Count!Word
      BY Count!CountingAssumption, <2>2, CountWords DEF Count!Stepped, Count!Word
    <3> QED
      BY <2>1, <2>2, <2>3, <3>1 DEF Count!TypeOK, Count!Word
  <2>6. \E m \in Int : index' = value' + m * Count!Top
    <3>1. PICK y \in Int : Count!Stepped = (index + step) + y * Count!Top
      <4>1. index + step \in Int
        BY <2>2 DEF Count!Word
      <4> QED
        BY Count!CountingAssumption, <4>1, CountWrapIs DEF Count!Stepped
    <3>2. PICK h \in {0, 1} : step = Count!Signed(step) + h * Count!Top
      BY Count!CountingAssumption, <2>2, CountWords DEF Count!Signed, Count!Word
    <3>3. (k + h + y) * Count!Top = k * Count!Top + h * Count!Top + y * Count!Top
      BY Count!CountingAssumption, CountWords
    <3>4. k * Count!Top \in Int /\ h * Count!Top \in Int /\ y * Count!Top \in Int
      BY Count!CountingAssumption, CountWords
    <3>5. index' = value' + (k + h + y) * Count!Top
      BY <2>1, <2>2, <2>3, <2>4, <3>1, <3>2, <3>3, <3>4
    <3> QED
      BY <3>5
  <2>7. ASSUME Count!Near'
        PROVE  IF place' = "body" THEN OnTheWay' ELSE Count!Past'
    <3> DEFINE x == Count!Signed(target) - (value + Count!Signed(step))
    <3>1. Count!Near /\ (value = Count!Signed(start) \/ OnTheWay)
      BY <2>1, <2>7 DEF Counted, Count!Near, Count!Signed, Count!Size
    <3>2. x \in Int /\ -CountHalf < x /\ x < CountHalf
      BY Count!CountingAssumption, <2>2, <2>3, <3>1, CountWords
      DEF Count!Near, Count!Size, OnTheWay
    <3>3. Count!Again(Count!Wrap(target - Count!Stepped))
            <=> x = 0 \/ (x < 0 <=> Count!Negative(step))
      <4> HIDE DEF x
      <4>1. Count!TypeOK /\ x = Count!Signed(target) - (value + Count!Signed(step))
        BY DEF Counted, x
      <4> QED
        BY Count!CountingAssumption, <2>4, <3>2, <4>1, Distance
    <3>4. /\ Count!Signed(target)' = Count!Signed(target)
          /\ Count!Signed(start)' = Count!Signed(start)
          /\ Count!Negative(step)' = Count!Negative(step)
      BY <2>1 DEF Count!Signed, Count!Negative
    <3>5. CASE Count!Negative(step)
      BY <2>1, <2>2, <2>3, <3>1, <3>3, <3>4, <3>5 DEF OnTheWay, Count!Past
    <3>6. CASE ~Count!Negative(step)
      BY <2>1, <2>2, <2>3, <3>1, <3>3, <3>4, <3>6 DEF OnTheWay, Count!Past
    <3> QED
      BY <3>5, <3>6
  <2>8. place' \in {"body", "out"}
    BY <2>1
  <2> QED
    BY <2>5, <2>6, <2>7, <2>8 DEF Counted
<1> QED
  BY <1>1, <1>2

\* for.asm:171-195: a loop whose start, target and step leave room is run for
\* exactly the values up to its target, for every width of the words.
THEOREM NextCounts == MCSpec => []CountsToTarget
<1> DEFINE Inv == routine = "counting" => Counted
<1>0. Count!CountingAssumption
  BY MCNumbersAssumption
<1>1. Counted => Count!TypeOK /\ Count!CountsToTarget
  <2> SUFFICES ASSUME Counted, Count!Near PROVE Count!CountsToTarget
    BY DEF Counted, Count!CountsToTarget
  <2>1. /\ start \in Count!Word /\ target \in Count!Word /\ step \in Count!Word
        /\ value \in Int /\ place \in {"body", "out"}
    BY DEF Counted, Count!TypeOK
  <2> QED
    BY <1>0, <2>1, CountWords
    DEF Counted, Count!CountsToTarget, OnTheWay, Count!Past
<1>2. MCInit => Inv
  BY <1>0, CountedInit DEF MCInit
<1>3. Inv /\ [MCNext]_allVars => Inv'
  <2> SUFFICES ASSUME Inv, [MCNext]_allVars PROVE Inv'
    OBVIOUS
  <2>1. routine' = routine /\ (routine = "counting" => [Count!Next]_(Count!vars))
    BY DEF MCNext, allVars, counting, Count!vars
  <2> QED
    BY <1>0, <2>1, CountedStep
<1>4. Inv => CountsToTarget
  BY <1>1 DEF CountsToTarget
<1> QED
  BY <1>2, <1>3, <1>4, PTL DEF MCSpec

-----------------------------------------------------------------------------
(* The comparisons.  relation is the op of Comparison, and leftC, rightC,  *)
(* yC, countC, valueC and labelC are its left, right, y, count, value and  *)
(* label; Pairs are its Strings.                                           *)

HalfLong == 0..(HalfTop - 1)
LowCarry == carry = (leftC[2] - rightC[2] - Compare!Borrow(relation \in {"<", ">="}) >= 0)
Comparing ==
  /\ relation \in Compare!Operators /\ carry \in BOOLEAN /\ valueC \in BOOLEAN
  /\ yC \in Nat /\ countC \in 0..(ByteTop - 1) /\ kind \in {"number", "string"}
  /\ kind = "number" =>
       /\ leftC \in HalfLong \X HalfLong /\ rightC \in HalfLong \X HalfLong
       /\ labelC \in {"number", "high", "done"}
       /\ labelC = "high" => relation \in {"<", ">=", "<=", ">"} /\ LowCarry
  /\ kind = "string" =>
       /\ leftC \in Seq(Int) /\ rightC \in Seq(Int)
       /\ Len(leftC) < ByteTop /\ Len(rightC) < ByteTop
       /\ Compare!Shorter <= ByteTop \div 2
       /\ labelC \in {"string", "compare", "done"}
       /\ labelC = "compare" =>
            yC + countC = Compare!Shorter /\ \A i \in 1..yC : leftC[i] = rightC[i]
  /\ Compare!AsTested

-----------------------------------------------------------------------------
(* Numbers. *)

LEMMA HalfFacts ==
  ASSUME Compare!ComparisonAssumption
  PROVE  \E h \in Nat \ {0} :
           /\ HalfTop = 2 * h /\ HalfTop \div 2 = h
           /\ \A w \in HalfLong : Compare!Signed(w) = IF w >= h THEN w - 2 * h ELSE w
<1>1. HalfTop \in Nat /\ HalfTop % 2 = 0 /\ HalfTop > 0
  BY DEF Compare!ComparisonAssumption
<1>2. HalfTop \div 2 \in Nat \ {0} /\ HalfTop = 2 * (HalfTop \div 2)
  BY <1>1
<1> QED
  BY <1>2 DEF Compare!Signed, Compare!Negative, HalfLong

LEMMA SmallModulus ==
  ASSUME NEW d \in Int, NEW t \in Nat \ {0}, -t <= d, d < t
  PROVE  d % t = IF d < 0 THEN d + t ELSE d
<1>1. d = t * (d \div t) + (d % t) /\ d \div t \in Int /\ d % t \in 0..(t - 1)
  OBVIOUS
<1>2. PICK q, r \in Int : q = d \div t /\ r = d % t
  BY <1>1
<1>3. CASE q = 0
  BY <1>1, <1>2, <1>3
<1>4. CASE q = -1
  BY <1>1, <1>2, <1>4
<1>5. CASE q >= 1
  <2>1. t * q = t * (q - 1) + t /\ t * (q - 1) >= 0
    BY <1>5
  <2> QED
    BY <1>1, <1>2, <2>1
<1>6. CASE q <= -2
  <2>1. t * q = -(t * (-q - 2)) - 2 * t /\ t * (-q - 2) >= 0
    BY <1>6
  <2> QED
    BY <1>1, <1>2, <2>1
<1> QED
  BY <1>2, <1>3, <1>4, <1>5, <1>6

\* What the two subtractions make of the sign, with the overflow put right.
LEMMA SignIs ==
  ASSUME Compare!ComparisonAssumption, leftC[1] \in HalfLong, rightC[1] \in HalfLong,
         carry \in BOOLEAN
  PROVE  Compare!Sign
           <=> Compare!Signed(leftC[1]) - Compare!Signed(rightC[1]) - Compare!Borrow(carry) < 0
<1>1. PICK h \in Nat \ {0} :
        /\ HalfTop = 2 * h /\ HalfTop \div 2 = h
        /\ \A w \in HalfLong : Compare!Signed(w) = IF w >= h THEN w - 2 * h ELSE w
  BY HalfFacts
<1>2. PICK u, v \in Int : u = leftC[1] /\ v = rightC[1]
  BY DEF HalfLong
<1>3. PICK c \in {0, 1} : c = Compare!Borrow(carry)
  BY DEF Compare!Borrow
<1>4. u \in 0..(2 * h - 1) /\ v \in 0..(2 * h - 1)
  BY <1>1, <1>2 DEF HalfLong
<1>5. /\ Compare!Signed(u) = IF u >= h THEN u - 2 * h ELSE u
      /\ Compare!Signed(v) = IF v >= h THEN v - 2 * h ELSE v
  BY <1>1, <1>2
<1>6. Compare!Difference = u - v - c
  BY <1>2, <1>3 DEF Compare!Difference
<1>7. Compare!Overflow <=> Compare!Signed(u) - Compare!Signed(v) - c \notin (-h)..(h - 1)
  BY <1>1, <1>2, <1>3 DEF Compare!Overflow
<1>8. (u - v - c) % (2 * h) = IF u - v - c < 0 THEN u - v - c + 2 * h ELSE u - v - c
  <2>1. u - v - c \in Int /\ -(2 * h) <= u - v - c /\ u - v - c < 2 * h
    BY <1>4
  <2>2. 2 * h \in Nat \ {0}
    OBVIOUS
  <2> QED
    BY <2>1, <2>2, SmallModulus
<1>9. Compare!Negative(Compare!Difference % HalfTop)
        <=> (IF u - v - c < 0 THEN u - v - c + 2 * h ELSE u - v - c) >= h
  BY <1>1, <1>6, <1>8 DEF Compare!Negative
<1>10. Compare!Sign <=> Compare!Signed(u) - Compare!Signed(v) - c < 0
  <2> DEFINE e == IF u - v - c < 0 THEN u - v - c + 2 * h ELSE u - v - c
             d == Compare!Signed(u) - Compare!Signed(v) - c
  <2>1. (e >= h) # (d \notin (-h)..(h - 1)) <=> d < 0
    <3>1. CASE u >= h /\ v >= h
      BY <1>4, <1>5, <3>1
    <3>2. CASE u >= h /\ v < h
      BY <1>4, <1>5, <3>2
    <3>3. CASE u < h /\ v >= h
      BY <1>4, <1>5, <3>3
    <3>4. CASE u < h /\ v < h
      BY <1>4, <1>5, <3>4
    <3>5. u >= h \/ u < h
      BY <1>4
    <3>6. v >= h \/ v < h
      BY <1>4
    <3> QED
      BY <3>1, <3>2, <3>3, <3>4, <3>5, <3>6
  <2> DEFINE m == e >= h
             o == d \notin (-h)..(h - 1)
  <2>2. /\ m \in BOOLEAN /\ o \in BOOLEAN /\ (m # o <=> d < 0)
        /\ (Compare!Negative(Compare!Difference % HalfTop) <=> m) /\ (Compare!Overflow <=> o)
    BY <1>7, <1>9, <2>1
  <2> HIDE DEF m, o
  <2>3. Compare!Negative(Compare!Difference % HalfTop) = m /\ Compare!Overflow = o
    <3>1. Compare!Negative(Compare!Difference % HalfTop) \in BOOLEAN /\ Compare!Overflow \in BOOLEAN
      BY DEF Compare!Negative, Compare!Overflow
    <3> QED
      BY <2>2, <3>1, Zenon
  <2> QED
    BY <2>2, <2>3, Zenon DEF Compare!Sign
<1> QED
  BY <1>2, <1>3, <1>10

LEMMA LongOrder ==
  ASSUME Compare!ComparisonAssumption,
         leftC \in HalfLong \X HalfLong, rightC \in HalfLong \X HalfLong
  PROVE  /\ Compare!Long(leftC) < Compare!Long(rightC)
              <=> Compare!Signed(leftC[1]) - Compare!Signed(rightC[1])
                    - (IF leftC[2] < rightC[2] THEN 1 ELSE 0) < 0
         /\ Compare!Long(leftC) > Compare!Long(rightC)
              <=> ~(Compare!Signed(leftC[1]) - Compare!Signed(rightC[1])
                      - (IF leftC[2] <= rightC[2] THEN 1 ELSE 0) < 0)
         /\ (leftC = rightC <=> Compare!Long(leftC) = Compare!Long(rightC))
<1>1. PICK h \in Nat \ {0} :
        /\ HalfTop = 2 * h /\ HalfTop \div 2 = h
        /\ \A w \in HalfLong : Compare!Signed(w) = IF w >= h THEN w - 2 * h ELSE w
  BY HalfFacts
<1>2. PICK u, v, l, r \in Int :
        /\ u = Compare!Signed(leftC[1]) /\ v = Compare!Signed(rightC[1])
        /\ l = leftC[2] /\ r = rightC[2]
  BY <1>1 DEF HalfLong
<1>3. l \in 0..(HalfTop - 1) /\ r \in 0..(HalfTop - 1) /\ HalfTop \in Nat
  BY <1>1, <1>2 DEF HalfLong
<1>4. Compare!Long(leftC) = u * HalfTop + l /\ Compare!Long(rightC) = v * HalfTop + r
  BY <1>2 DEF Compare!Long
<1>5. ASSUME NEW m \in Int, NEW k \in Int, m < k
      PROVE  m * HalfTop + HalfTop <= k * HalfTop
  <2>1. k * HalfTop = m * HalfTop + HalfTop + (k - m - 1) * HalfTop
    BY <1>3
  <2>2. (k - m - 1) * HalfTop >= 0
    BY <1>3, <1>5
  <2>3. k * HalfTop \in Int /\ m * HalfTop \in Int /\ (k - m - 1) * HalfTop \in Int
    BY <1>3
  <2> QED
    BY <1>3, <2>1, <2>2, <2>3
<1>6. u * HalfTop \in Int /\ v * HalfTop \in Int
  BY <1>3
<1>7. /\ u < v => Compare!Long(leftC) < Compare!Long(rightC)
      /\ u > v => Compare!Long(leftC) > Compare!Long(rightC)
      /\ u = v => Compare!Long(leftC) - Compare!Long(rightC) = l - r
  BY <1>3, <1>4, <1>5, <1>6
<1>8. Compare!Long(leftC) \in Int /\ Compare!Long(rightC) \in Int
  BY <1>4, <1>6
<1>9. leftC = rightC <=> u = v /\ l = r
  <2>1. leftC = <<leftC[1], leftC[2]>> /\ rightC = <<rightC[1], rightC[2]>>
    OBVIOUS
  <2>2. leftC[1] \in HalfLong /\ rightC[1] \in HalfLong
    OBVIOUS
  <2>3. u = v <=> leftC[1] = rightC[1]
    BY <1>1, <1>2, <2>2 DEF HalfLong
  <2> QED
    BY <1>2, <2>1, <2>3
<1> QED
  BY <1>2, <1>3, <1>7, <1>8, <1>9

-----------------------------------------------------------------------------
(* Strings. *)

LEMMA BeforeIsStrict ==
  ASSUME NEW s \in Seq(Int), NEW t \in Seq(Int), Compare!Before(s, t)
  PROVE  ~Compare!Before(t, s) /\ s # t
<1>1. PICK k \in 0..Len(s) :
        /\ k <= Len(t) /\ \A i \in 1..k : s[i] = t[i]
        /\ k < Len(t) /\ (k = Len(s) \/ s[k + 1] < t[k + 1])
  BY DEF Compare!Before
<1>2. Len(s) \in Nat /\ Len(t) \in Nat /\ k \in Nat
  OBVIOUS
<1>3. ASSUME k < Len(s) PROVE s[k + 1] \in Int /\ t[k + 1] \in Int
  <2>1. k + 1 \in 1..Len(s) /\ k + 1 \in 1..Len(t)
    BY <1>1, <1>2, <1>3
  <2> QED
    BY <2>1
<1>4. s # t
  BY <1>1, <1>2, <1>3
<1>5. ASSUME Compare!Before(t, s) PROVE FALSE
  <2>1. PICK j \in 0..Len(t) :
          /\ j <= Len(s) /\ \A i \in 1..j : t[i] = s[i]
          /\ j < Len(s) /\ (j = Len(t) \/ t[j + 1] < s[j + 1])
    BY <1>5 DEF Compare!Before
  <2>2. CASE k < j
    <3>1. k + 1 \in 1..j /\ k < Len(s)
      BY <1>2, <2>1, <2>2
    <3>2. t[k + 1] = s[k + 1] /\ s[k + 1] < t[k + 1]
      BY <1>1, <1>2, <2>1, <3>1
    <3> QED
      BY <1>3, <3>1, <3>2
  <2>3. CASE j < k
    <3>1. j + 1 \in 1..k /\ j < Len(t) /\ j + 1 \in 1..Len(s)
      BY <1>1, <1>2, <2>1, <2>3
    <3>2. s[j + 1] = t[j + 1] /\ t[j + 1] < s[j + 1] /\ s[j + 1] \in Int
      BY <1>1, <1>2, <2>1, <3>1
    <3> QED
      BY <3>2
  <2>4. CASE j = k
    <3>1. k < Len(s) /\ s[k + 1] < t[k + 1] /\ t[k + 1] < s[k + 1]
      BY <1>1, <1>2, <2>1, <2>4
    <3> QED
      BY <1>3, <3>1
  <2> QED
    BY <1>2, <2>1, <2>2, <2>3, <2>4
<1> QED
  BY <1>4, <1>5

LEMMA SameString ==
  ASSUME NEW s \in Seq(Int), NEW t \in Seq(Int), Len(s) = Len(t),
         \A i \in 1..Len(s) : s[i] = t[i]
  PROVE  s = t
OBVIOUS

\* What strcmp() says of the two strings.
Compared(c) ==
  \/ c = -1 /\ Compare!Before(leftC, rightC)
  \/ c = 1 /\ Compare!Before(rightC, leftC)
  \/ c = 0 /\ leftC = rightC

LEMMA DecidedAsTested ==
  ASSUME relation \in Compare!Operators, kind = "string",
         leftC \in Seq(Int), rightC \in Seq(Int),
         NEW c \in {-1, 0, 1}, Compared(c), Compare!Decided(c), UNCHANGED Compare!given
  PROVE  Compare!AsTested' /\ valueC' \in BOOLEAN /\ labelC' = "done"
<1>1. PICK less, more \in BOOLEAN :
        less = Compare!Before(leftC, rightC) /\ more = Compare!Before(rightC, leftC)
  BY DEF Compare!Before
<1>2. /\ less <=> c = -1
      /\ more <=> c = 1
      /\ leftC = rightC <=> c = 0
  BY <1>1, BeforeIsStrict DEF Compared
<1>3. /\ labelC' = "done" /\ relation' = relation /\ kind' = kind
      /\ leftC' = leftC /\ rightC' = rightC
      /\ valueC' = CASE relation = "="  -> c = 0
                    [] relation = "<>" -> c # 0
                    [] relation = "<"  -> c = -1
                    [] relation = ">=" -> c >= 0
                    [] relation = "<=" -> c # 1
                    [] relation = ">"  -> c = 1
  BY DEF Compare!Decided, Compare!Succeed, Compare!given
<1>4. Compare!Before(leftC, rightC)' = less /\ Compare!Before(rightC, leftC)' = more
  BY <1>1, <1>3 DEF Compare!Before
<1>5. valueC' = CASE relation = "="  -> leftC = rightC
                 [] relation = "<>" -> leftC # rightC
                 [] relation = "<"  -> less
                 [] relation = ">=" -> ~less
                 [] relation = "<=" -> ~more
                 [] relation = ">"  -> more
  BY <1>2, <1>3 DEF Compare!Operators
<1>6. valueC' \in BOOLEAN
  <2>1. CASE relation = "="
    BY <1>5, <2>1
  <2>2. CASE relation = "<>"
    BY <1>5, <2>2
  <2>3. CASE relation = "<"
    BY <1>5, <2>3
  <2>4. CASE relation = ">="
    BY <1>5, <2>4
  <2>5. CASE relation = "<="
    BY <1>5, <2>5
  <2>6. CASE relation = ">"
    BY <1>5, <2>6
  <2> QED
    BY <2>1, <2>2, <2>3, <2>4, <2>5, <2>6 DEF Compare!Operators
<1> QED
  BY <1>3, <1>4, <1>5, <1>6 DEF Compare!AsTested

-----------------------------------------------------------------------------
(* The invariant. *)

LEMMA ComparingInit ==
  ASSUME Compare!ComparisonAssumption, Countable PROVE Compare!Init => Comparing
<1> SUFFICES ASSUME Compare!Init PROVE Comparing
  OBVIOUS
<1>1. /\ relation \in Compare!Operators /\ carry \in BOOLEAN /\ valueC \in BOOLEAN
      /\ yC \in Nat
      /\ labelC = kind /\ kind \in {"number", "string"} /\ countC = 0
  BY DEF Compare!Init
<1>2. countC \in 0..(ByteTop - 1)
  BY <1>1 DEF Compare!ComparisonAssumption
<1>3. Compare!AsTested
  BY <1>1 DEF Compare!AsTested
<1>4. CASE kind = "number"
  <2>1. leftC \in HalfLong \X HalfLong /\ rightC \in HalfLong \X HalfLong
    BY <1>4 DEF Compare!Init, Compare!ComparisonAssumption, HalfLong
  <2> QED
    BY <1>1, <1>2, <1>3, <1>4, <2>1 DEF Comparing
<1>5. CASE kind = "string"
  <2>1. PICK p \in Pairs : leftC = p[1] /\ rightC = p[2]
    BY <1>5 DEF Compare!Init
  <2>2. /\ leftC \in Seq(Int) /\ rightC \in Seq(Int)
        /\ Len(leftC) < ByteTop /\ Len(rightC) < ByteTop
        /\ Len(leftC) <= ByteTop \div 2 \/ Len(rightC) <= ByteTop \div 2
    BY <2>1 DEF Countable, Compare!ComparisonAssumption
  <2>3. Compare!Shorter <= ByteTop \div 2
    <3>1. Len(leftC) \in Int /\ Len(rightC) \in Int /\ ByteTop \div 2 \in Int
      BY <2>2 DEF Compare!ComparisonAssumption
    <3> QED
      BY <2>2, <3>1 DEF Compare!Shorter
  <2> QED
    BY <1>1, <1>2, <1>3, <1>5, <2>2, <2>3 DEF Comparing
<1> QED
  BY <1>1, <1>4, <1>5

\* A number is decided at once, or by the signs of the differences.
LEMMA NumberStep ==
  ASSUME Compare!ComparisonAssumption, Comparing, kind = "number", Compare!Next
  PROVE  Comparing'
<1>1. /\ leftC \in HalfLong \X HalfLong /\ rightC \in HalfLong \X HalfLong
      /\ labelC \in {"number", "high", "done"} /\ relation \in Compare!Operators
      /\ yC \in Nat /\ countC \in 0..(ByteTop - 1) /\ valueC \in BOOLEAN
      /\ carry \in BOOLEAN
  BY DEF Comparing
<1>2. /\ UNCHANGED <<relation, kind, leftC, rightC>> /\ UNCHANGED <<yC, countC>>
      /\ Compare!Equality \/ Compare!SubtractLow \/ Compare!SubtractHigh
  BY <1>1 DEF Compare!Next, Compare!CompareBegins, Compare!CompareStep, Compare!EqualSoFar,
     Compare!Equality, Compare!SubtractLow,
              Compare!SubtractHigh, Compare!given
<1> DEFINE less == Compare!Long(leftC) < Compare!Long(rightC)
           more == Compare!Long(leftC) > Compare!Long(rightC)
<1>3. less \in BOOLEAN /\ more \in BOOLEAN
  OBVIOUS
<1>4. Compare!AsTested' <=>
        (labelC' = "done" =>
           valueC' = CASE relation = "="  -> leftC = rightC
                      [] relation = "<>" -> leftC # rightC
                      [] relation = "<"  -> less
                      [] relation = ">=" -> ~less
                      [] relation = "<=" -> ~more
                      [] relation = ">"  -> more)
  <2>1. less' = less /\ more' = more
    BY <1>2 DEF Compare!Long, Compare!Signed, Compare!Negative
  <2> QED
    BY <1>2, <2>1 DEF Compare!AsTested
<1>5. CASE Compare!Equality
  <2>1. /\ relation \in {"=", "<>"} /\ labelC' = "done" /\ carry' = carry
        /\ valueC' = ((leftC = rightC) = (relation = "="))
    BY <1>5 DEF Compare!Equality, Compare!Succeed
  <2>2. valueC' = (IF relation = "=" THEN leftC = rightC ELSE leftC # rightC)
    BY <2>1
  <2>3. Compare!AsTested' /\ valueC' \in BOOLEAN
    BY <1>4, <2>1, <2>2
  <2> QED
    BY <1>1, <1>2, <2>1, <2>3 DEF Comparing
<1>6. CASE Compare!SubtractLow
  <2>1. /\ relation \in {"<", ">=", "<=", ">"} /\ labelC' = "high"
        /\ valueC' = valueC
        /\ carry' = (leftC[2] - rightC[2] - Compare!Borrow(relation \in {"<", ">="}) >= 0)
    BY <1>6 DEF Compare!SubtractLow
  <2>2. LowCarry' /\ carry' \in BOOLEAN
    BY <1>2, <2>1 DEF LowCarry, Compare!Borrow
  <2> QED
    BY <1>1, <1>2, <1>4, <2>1, <2>2 DEF Comparing
<1>7. CASE Compare!SubtractHigh
  <2>1. /\ labelC = "high" /\ labelC' = "done" /\ carry' = carry
        /\ valueC' = IF relation \in {"<", "<="} THEN Compare!Sign ELSE ~Compare!Sign
    BY <1>7 DEF Compare!SubtractHigh, Compare!Succeed
  <2>2. relation \in {"<", ">=", "<=", ">"} /\ LowCarry
    BY <2>1 DEF Comparing
  <2>3. leftC[1] \in HalfLong /\ rightC[1] \in HalfLong
        /\ leftC[2] \in Int /\ rightC[2] \in Int
    BY <1>1 DEF HalfLong
  <2>4. Compare!Sign
          <=> Compare!Signed(leftC[1]) - Compare!Signed(rightC[1]) - Compare!Borrow(carry) < 0
    BY <1>1, <2>3, SignIs
  <2>5. Compare!Sign \in BOOLEAN
    BY DEF Compare!Sign
  <2>6. CASE relation \in {"<", ">="}
    <3>1. Compare!Borrow(carry) = IF leftC[2] < rightC[2] THEN 1 ELSE 0
      <4>1. Compare!Borrow(relation \in {"<", ">="}) = 0
        BY <2>6 DEF Compare!Borrow
      <4>2. carry <=> leftC[2] - rightC[2] - 0 >= 0
        BY <2>2, <4>1 DEF LowCarry
      <4> QED
        BY <2>3, <4>2 DEF Compare!Borrow
    <3>2. Compare!Sign <=> less
      BY <1>1, <2>4, <3>1, LongOrder
    <3>3. Compare!Sign = less
      BY <2>5, <3>2
    <3> QED
      BY <1>1, <1>2, <1>4, <2>1, <2>5, <2>6, <3>3 DEF Comparing
  <2>7. CASE relation \in {"<=", ">"}
    <3>1. Compare!Borrow(carry) = IF leftC[2] <= rightC[2] THEN 1 ELSE 0
      <4>1. Compare!Borrow(relation \in {"<", ">="}) = 1
        BY <2>7 DEF Compare!Borrow
      <4>2. carry <=> leftC[2] - rightC[2] - 1 >= 0
        BY <2>2, <4>1 DEF LowCarry
      <4> QED
        BY <2>3, <4>2 DEF Compare!Borrow
    <3>2. Compare!Sign <=> ~more
      BY <1>1, <2>4, <3>1, LongOrder
    <3>3. Compare!Sign = ~more
      BY <2>5, <3>2
    <3>4. (~Compare!Sign) = more
      BY <1>3, <2>5, <3>2
    <3>5. Compare!AsTested' /\ valueC' \in BOOLEAN
      <4> HIDE DEF less, more
      <4>1. CASE relation = "<="
        BY <1>4, <2>1, <2>5, <3>3, <4>1
      <4>2. CASE relation = ">"
        BY <1>3, <1>4, <2>1, <3>4, <4>2
      <4> QED
        BY <2>7, <4>1, <4>2
    <3> QED
      BY <1>1, <1>2, <2>1, <3>5 DEF Comparing
  <2> QED
    BY <2>2, <2>6, <2>7
<1> QED
  BY <1>2, <1>5, <1>6, <1>7

\* The count of characters is right as long as it is not taken for negative.
LEMMA CountIs ==
  ASSUME Compare!ComparisonAssumption, NEW n \in 0..(ByteTop \div 2)
  PROVE  /\ n = 0 => Compare!Over(Compare!Counted(n))
         /\ n # 0 => ~Compare!Over(Compare!Counted(n)) /\ Compare!Counted(n) = n - 1
         /\ Compare!Counted(n) \in 0..(ByteTop - 1)
<1>1. PICK h \in Nat \ {0} : ByteTop = 2 * h /\ ByteTop \div 2 = h
  <2>1. ByteTop \div 2 \in Nat \ {0} /\ ByteTop = 2 * (ByteTop \div 2)
    BY DEF Compare!ComparisonAssumption
  <2> QED
    BY <2>1
<1>2. n \in 0..h
  BY <1>1
<1>3. (n - 1) % ByteTop = IF n - 1 < 0 THEN n - 1 + ByteTop ELSE n - 1
  <2>1. n - 1 \in Int /\ ByteTop \in Nat \ {0} /\ -ByteTop <= n - 1 /\ n - 1 < ByteTop
    BY <1>1, <1>2
  <2> QED
    BY <2>1, SmallModulus
<1> QED
  BY <1>1, <1>2, <1>3 DEF Compare!Over, Compare!Counted

LEMMA StringStep ==
  ASSUME Compare!ComparisonAssumption, Comparing, kind = "string", Compare!Next
  PROVE  Comparing'
<1>1. /\ leftC \in Seq(Int) /\ rightC \in Seq(Int)
      /\ Len(leftC) < ByteTop /\ Len(rightC) < ByteTop
      /\ Compare!Shorter <= ByteTop \div 2
      /\ labelC \in {"string", "compare", "done"} /\ relation \in Compare!Operators
      /\ yC \in Nat /\ countC \in 0..(ByteTop - 1) /\ valueC \in BOOLEAN
      /\ carry \in BOOLEAN
  BY DEF Comparing
<1>2. /\ UNCHANGED <<relation, kind, leftC, rightC>> /\ UNCHANGED carry
      /\ Compare!CompareBegins \/ Compare!CompareStep \/ Compare!EqualSoFar
  BY <1>1 DEF Compare!Next, Compare!CompareBegins, Compare!CompareStep, Compare!EqualSoFar,
     Compare!Equality, Compare!SubtractLow,
              Compare!SubtractHigh, Compare!given
<1>3. PICK m, n \in Nat : m = Len(leftC) /\ n = Len(rightC)
  BY <1>1
<1>4. /\ Compare!Shorter = IF m < n THEN m ELSE n
      /\ Compare!Shorter \in Nat /\ ByteTop \div 2 \in Nat
  BY <1>3 DEF Compare!Shorter, Compare!ComparisonAssumption
<1>5. Compare!Shorter' = Compare!Shorter
  BY <1>2 DEF Compare!Shorter
<1>6. CASE Compare!CompareBegins
  <2>1. countC' = Compare!Shorter /\ yC' = 0 /\ labelC' = "compare" /\ valueC' = valueC
    BY <1>6 DEF Compare!CompareBegins
  <2>2. countC' \in 0..(ByteTop - 1) /\ yC' + countC' = Compare!Shorter
    BY <1>1, <1>3, <1>4, <2>1 DEF Compare!ComparisonAssumption
  <2>3. \A i \in 1..yC' : leftC'[i] = rightC'[i]
    BY <2>1
  <2>4. Compare!AsTested'
    BY <2>1 DEF Compare!AsTested
  <2> QED
    BY <1>1, <1>2, <1>5, <2>1, <2>2, <2>3, <2>4 DEF Comparing
<1>7. ASSUME labelC = "compare"
      PROVE  /\ yC + countC = Compare!Shorter /\ \A i \in 1..yC : leftC[i] = rightC[i]
             /\ countC \in 0..(ByteTop \div 2)
             /\ yC <= m /\ yC <= n
  <2>1. yC + countC = Compare!Shorter /\ \A i \in 1..yC : leftC[i] = rightC[i]
    BY <1>7 DEF Comparing
  <2> QED
    BY <1>1, <1>3, <1>4, <2>1
<1>8. CASE Compare!CompareStep
  <2>1. /\ labelC = "compare" /\ ~Compare!Over(Compare!Counted(countC))
        /\ yC' = yC + 1 /\ countC' = Compare!Counted(countC)
    BY <1>8 DEF Compare!CompareStep
  <2>2. /\ countC # 0 /\ Compare!Counted(countC) = countC - 1
        /\ Compare!Counted(countC) \in 0..(ByteTop - 1)
    BY <1>7, <2>1, CountIs
  <2>3. yC + 1 <= m /\ yC + 1 <= n /\ yC + 1 \in 1..m /\ yC + 1 \in 1..n
    BY <1>1, <1>3, <1>4, <1>7, <2>1, <2>2
  <2>4. PICK c, d \in Int : c = leftC[yC + 1] /\ d = rightC[yC + 1]
    BY <1>1, <1>3, <2>3
  <2>5. Compare!CharacterAt(leftC, yC + 1) = c /\ Compare!CharacterAt(rightC, yC + 1) = d
    BY <1>3, <2>3, <2>4 DEF Compare!CharacterAt
  <2>6. CASE c = d
    <3>1. valueC' = valueC /\ labelC' = "compare"
      BY <1>8, <2>1, <2>5, <2>6 DEF Compare!CompareStep
    <3>2. \A i \in 1..(yC + 1) : leftC[i] = rightC[i]
      <4>1. \A i \in 1..(yC + 1) : i \in 1..yC \/ i = yC + 1
        BY <1>1
      <4> QED
        BY <1>7, <2>1, <2>4, <2>6, <4>1
    <3>3. Compare!AsTested'
      BY <3>1 DEF Compare!AsTested
    <3>4. yC' + countC' = Compare!Shorter /\ yC' \in Nat /\ countC' \in 0..(ByteTop - 1)
      BY <1>1, <1>7, <2>1, <2>2
    <3> QED
      BY <1>1, <1>2, <1>5, <2>1, <3>1, <3>2, <3>3, <3>4 DEF Comparing
  <2>7. CASE c # d
    <3>1. Compare!Decided(IF c > d THEN 1 ELSE -1)
      BY <1>8, <2>5, <2>7 DEF Compare!CompareStep
    <3>2. PICK e \in {-1, 0, 1} : e = IF c > d THEN 1 ELSE -1
      OBVIOUS
    <3>3. Compared(e)
      <4>1. CASE c > d
        <5>1. Compare!Before(rightC, leftC)
          <6>1. /\ yC \in 0..Len(rightC) /\ yC <= Len(leftC) /\ yC < Len(leftC)
                /\ rightC[yC + 1] < leftC[yC + 1] /\ \A i \in 1..yC : rightC[i] = leftC[i]
            BY <1>1, <1>3, <1>7, <2>1, <2>3, <2>4, <4>1
          <6> QED
            BY <6>1 DEF Compare!Before
        <5> QED
          BY <3>2, <4>1, <5>1 DEF Compared
      <4>2. CASE ~(c > d)
        <5>1. Compare!Before(leftC, rightC)
          <6>1. /\ yC \in 0..Len(leftC) /\ yC <= Len(rightC) /\ yC < Len(rightC)
                /\ leftC[yC + 1] < rightC[yC + 1] /\ \A i \in 1..yC : leftC[i] = rightC[i]
            BY <1>1, <1>3, <1>7, <2>1, <2>3, <2>4, <2>7, <4>2
          <6> QED
            BY <6>1 DEF Compare!Before
        <5> QED
          BY <3>2, <4>2, <5>1 DEF Compared
      <4> QED
        BY <4>1, <4>2
    <3>4. Compare!AsTested' /\ valueC' \in BOOLEAN /\ labelC' = "done"
      <4>1. UNCHANGED Compare!given /\ Compare!Decided(e)
        BY <1>2, <3>1, <3>2 DEF Compare!given
      <4> QED
        BY <1>1, <3>3, <4>1, DecidedAsTested
    <3>5. yC' \in Nat /\ countC' \in 0..(ByteTop - 1)
      BY <1>1, <2>1, <2>2
    <3> QED
      BY <1>1, <1>2, <1>5, <3>4, <3>5 DEF Comparing
  <2> QED
    BY <2>6, <2>7
<1>9. CASE Compare!EqualSoFar
  <2>1. /\ labelC = "compare" /\ Compare!Over(Compare!Counted(countC))
        /\ yC' = yC + 1 /\ countC' = Compare!Counted(countC)
    BY <1>9 DEF Compare!EqualSoFar
  <2>2. countC = 0 /\ Compare!Counted(countC) \in 0..(ByteTop - 1)
    BY <1>7, <2>1, CountIs
  <2>3. yC = Compare!Shorter
    BY <1>1, <1>4, <1>7, <2>1, <2>2
  <2>4. PICK e \in {-1, 0, 1} : e = IF m < n THEN -1 ELSE IF m > n THEN 1 ELSE 0
    OBVIOUS
  <2>5. Compare!Decided(e) /\ UNCHANGED Compare!given
    BY <1>2, <1>3, <1>9, <2>4 DEF Compare!EqualSoFar, Compare!given
  <2>6. Compared(e)
    <3>1. CASE m < n
      <4>1. /\ m \in 0..Len(leftC) /\ m <= Len(rightC) /\ m < Len(rightC)
            /\ m = Len(leftC)
            /\ \A i \in 1..m : leftC[i] = rightC[i]
        BY <1>3, <1>4, <1>7, <2>1, <2>3, <3>1
      <4>2. Compare!Before(leftC, rightC)
        BY <4>1 DEF Compare!Before
      <4> QED
        BY <2>4, <3>1, <4>2 DEF Compared
    <3>2. CASE m > n
      <4>1. /\ n \in 0..Len(rightC) /\ n <= Len(leftC) /\ n < Len(leftC)
            /\ n = Len(rightC)
            /\ \A i \in 1..n : rightC[i] = leftC[i]
        BY <1>3, <1>4, <1>7, <2>1, <2>3, <3>2
      <4>2. Compare!Before(rightC, leftC)
        BY <4>1 DEF Compare!Before
      <4> QED
        BY <2>4, <3>2, <4>2 DEF Compared
    <3>3. CASE m = n
      <4>1. \A i \in 1..Len(leftC) : leftC[i] = rightC[i]
        BY <1>3, <1>4, <1>7, <2>1, <2>3, <3>3
      <4>2. leftC = rightC
        BY <1>1, <1>3, <3>3, <4>1, SameString
      <4> QED
        BY <2>4, <3>3, <4>2 DEF Compared
    <3> QED
      BY <3>1, <3>2, <3>3
  <2>7. Compare!AsTested' /\ valueC' \in BOOLEAN /\ labelC' = "done"
    BY <1>1, <2>5, <2>6, DecidedAsTested
  <2>8. yC' \in Nat /\ countC' \in 0..(ByteTop - 1)
    BY <1>1, <2>1, <2>2
  <2> QED
    BY <1>1, <1>2, <1>5, <2>7, <2>8 DEF Comparing
<1> QED
  BY <1>2, <1>6, <1>8, <1>9

Compares == routine = "comparison" => Compare!TypeOK /\ Compare!AsTested

\* comparison.asm:18-243: no character behind the end of a string is compared,
\* and the result is the order of signed numbers or of strings.
THEOREM ComparesAsTested == MCSpec => []Compares
<1> DEFINE Inv == routine = "comparison" => Comparing
<1>0. Compare!ComparisonAssumption /\ Countable
  BY MCNumbersAssumption
<1>1. ASSUME Comparing, [Compare!Next]_(Compare!vars) PROVE Comparing'
  <2>1. CASE UNCHANGED Compare!vars
    BY <1>1, <2>1 DEF Compare!vars, Comparing, LowCarry, Compare!Shorter, Compare!AsTested,
       Compare!Before, Compare!Long, Compare!Signed,
                      Compare!Negative
  <2>2. CASE Compare!Next
    BY <1>0, <1>1, <2>2, NumberStep, StringStep DEF Comparing
  <2> QED
    BY <1>1, <2>1, <2>2
<1>2. Comparing => Compare!TypeOK /\ Compare!AsTested
  <2> SUFFICES ASSUME Comparing PROVE Compare!TypeOK
    BY DEF Comparing
  <2>1. ASSUME labelC = "compare" PROVE yC <= Len(leftC) /\ yC <= Len(rightC)
    BY <2>1 DEF Comparing, Compare!Shorter
  <2> QED
    BY <2>1 DEF Comparing, Compare!TypeOK
<1>3. MCInit => Inv
  BY <1>0, ComparingInit DEF MCInit
<1>4. Inv /\ [MCNext]_allVars => Inv'
  <2> SUFFICES ASSUME Inv, [MCNext]_allVars PROVE Inv'
    OBVIOUS
  <2>1. routine' = routine /\ (routine = "comparison" => [Compare!Next]_(Compare!vars))
    BY DEF MCNext, allVars, comparing, Compare!vars
  <2> QED
    BY <1>1, <2>1
<1>5. Inv => Compares
  BY <1>2 DEF Compares
<1> QED
  BY <1>3, <1>4, <1>5, PTL DEF MCSpec

-----------------------------------------------------------------------------
(* Parts of strings.  function is the op of Substring, text its s, number  *)
(* and number1 its n and n1, from its first, CharTop its ByteTop, and      *)
(* countP, resultP, yP and labelP are its count, result, y and label.      *)
(* First, parts of sequences.                                              *)

LEMMA PartFacts ==
  ASSUME NEW t \in Seq(Int), NEW i \in Nat \ {0}, NEW j \in Int, j <= Len(t)
  PROVE  /\ SubSeq(t, i, j) \in Seq(Int)
         /\ Len(SubSeq(t, i, j)) = IF j < i THEN 0 ELSE j - i + 1
         /\ \A k \in 1..Len(SubSeq(t, i, j)) : SubSeq(t, i, j)[k] = t[i + k - 1]
OBVIOUS

LEMMA EmptyPart ==
  ASSUME NEW t \in Seq(Int), NEW i \in Nat \ {0}, NEW j \in Int, j <= Len(t), j < i
  PROVE  SubSeq(t, i, j) = <<>>
<1>1. SubSeq(t, i, j) \in Seq(Int) /\ Len(SubSeq(t, i, j)) = 0
  BY PartFacts
<1> QED
  BY <1>1

LEMMA WholePart ==
  ASSUME NEW t \in Seq(Int)
  PROVE  SubSeq(t, 1, Len(t)) = t
<1>1. Len(t) \in Nat
  OBVIOUS
<1>2. PICK u : u = SubSeq(t, 1, Len(t))
  OBVIOUS
<1>3. u \in Seq(Int) /\ Len(u) = Len(t) /\ \A k \in 1..Len(u) : u[k] = t[1 + k - 1]
  BY <1>1, <1>2, PartFacts
<1>4. \A k \in 1..Len(u) : u[k] = t[k]
  BY <1>3
<1> QED
  BY <1>2, <1>3, <1>4, SameString

\* A character more.
LEMMA AppendPart ==
  ASSUME NEW t \in Seq(Int), NEW i \in Nat \ {0}, NEW j \in Nat, i <= j + 1, j < Len(t)
  PROVE  Append(SubSeq(t, i, j), t[j + 1]) = SubSeq(t, i, j + 1)
<1>1. PICK u : u = SubSeq(t, i, j)
  OBVIOUS
<1>2. PICK v : v = SubSeq(t, i, j + 1)
  OBVIOUS
<1>3. PICK m \in Nat : m = Len(t)
  OBVIOUS
<1>4. /\ u \in Seq(Int) /\ Len(u) = (j + 1) - i
      /\ \A k \in 1..Len(u) : u[k] = t[i + k - 1]
  <2>1. j \in Int /\ j <= Len(t)
    BY <1>3
  <2>2. /\ SubSeq(t, i, j) \in Seq(Int)
        /\ Len(SubSeq(t, i, j)) = IF j < i THEN 0 ELSE j - i + 1
        /\ \A k \in 1..Len(SubSeq(t, i, j)) : SubSeq(t, i, j)[k] = t[i + k - 1]
    BY <2>1, PartFacts
  <2> QED
    BY <1>1, <2>2
<1>5. /\ v \in Seq(Int) /\ Len(v) = (j + 2) - i
      /\ \A k \in 1..Len(v) : v[k] = t[i + k - 1]
  <2>1. j + 1 \in Int /\ j + 1 <= Len(t)
    BY <1>3
  <2> QED
    BY <1>2, <2>1, PartFacts
<1>6. t[j + 1] \in Int
  <2>1. j + 1 \in 1..Len(t)
    BY <1>3
  <2> QED
    BY <2>1
<1>7. PICK w : w = Append(u, t[j + 1])
  OBVIOUS
<1>8. /\ w \in Seq(Int) /\ Len(w) = Len(u) + 1
      /\ \A k \in 1..Len(u) : w[k] = u[k]
      /\ w[Len(u) + 1] = t[j + 1]
  BY <1>4, <1>6, <1>7
<1>9. Len(w) = Len(v)
  BY <1>4, <1>5, <1>8
<1>10. ASSUME NEW k \in 1..Len(w) PROVE w[k] = v[k]
  <2>1. k \in 1..((j + 2) - i)
    BY <1>5, <1>9
  <2>2. v[k] = t[i + k - 1]
    BY <1>5, <1>9
  <2>3. CASE k <= (j + 1) - i
    <3>1. k \in 1..((j + 1) - i)
      BY <2>1, <2>3
    <3> QED
      BY <1>4, <1>8, <2>2, <3>1
  <2>4. CASE k > (j + 1) - i
    <3>1. k = ((j + 1) - i) + 1 /\ i + k - 1 = j + 1
      BY <2>1, <2>4
    <3> QED
      BY <1>4, <1>8, <2>2, <3>1
  <2>5. k \in Int /\ (j + 1) - i \in Int
    OBVIOUS
  <2> QED
    BY <2>3, <2>4, <2>5
<1>11. w = v
  BY <1>5, <1>8, <1>9, <1>10, SameString
<1> QED
  BY <1>1, <1>2, <1>7, <1>11

-----------------------------------------------------------------------------
(* LEFT$, RIGHT$ and MID$. *)

\* The first and the last character of the part that is asked for.
From ==
  CASE function = "left"  -> 1
    [] function = "right" -> Len(text) - Part!Shorter(number, Len(text)) + 1
    [] OTHER -> number
To ==
  CASE function = "left"  -> Part!Shorter(number, Len(text))
    [] function = "right" -> Len(text)
    [] OTHER -> IF number1 = Part!None THEN Len(text)
                ELSE Part!Shorter(number + number1 - 1, Len(text))

Parts == {"left", "right", "mid"}
Copying ==
  labelP = "copy" =>
    /\ from \in Nat \ {0} /\ countP \in Nat \ {0} /\ From \in 1..from
    /\ from + countP - 1 = To /\ To <= Len(text)
    /\ resultP = SubSeq(text, From, from - 1)
Searching ==
  labelP = "compare" =>
    /\ yP \in 1..Len(key) /\ resultP \in Nat \ {0} /\ tries \in Nat \ {0}
    /\ tries + resultP = Len(text) - Len(key) + 2
    /\ \A j \in (yP + 1)..Len(key) : key[j] = text[resultP - 1 + j]
    /\ \A i \in 1..(resultP - 1) : ~Part!FoundAt(i)
Extracting ==
  /\ function \in Parts \cup {"instr"} /\ text \in Seq(Int) /\ Len(text) < CharTop
  /\ function \in Parts => number \in Int /\ labelP \in {"start", "copy", "done", "error"}
  /\ function = "mid" => number1 = Part!None \/ number1 \in Int
  /\ function \in {"left", "right"} => number1 = Part!None
  /\ function = "instr" => key \in Seq(Int) /\ labelP \in {"start", "compare", "done", "error"}
  /\ function \in Parts /\ labelP = "copy" =>
       /\ Part!Fits(number)
       /\ function = "mid" => number # 0 /\ (number1 = Part!None \/ Part!Fits(number1))
  /\ Copying /\ Searching /\ Part!AsTested

LEMMA ExtractingInit ==
  ASSUME Part!SubstringAssumption, Writable PROVE Part!Init => Extracting
<1> SUFFICES ASSUME Part!Init PROVE Extracting
  OBVIOUS
<1>1. text \in Seq(Int) /\ Len(text) < CharTop /\ labelP = "start"
  BY DEF Part!Init, Part!SubstringAssumption, Writable
<1>2. Copying /\ Searching /\ Part!AsTested
  BY <1>1 DEF Copying, Searching, Part!AsTested
<1>3. CASE function \in Parts
  BY <1>1, <1>2, <1>3 DEF Part!Init, Part!SubstringAssumption, Extracting, Parts
<1>4. CASE function = "instr"
  BY <1>1, <1>2, <1>4 DEF Part!Init, Writable, Extracting, Parts
<1> QED
  BY <1>3, <1>4 DEF Part!Init, Parts

\* From and To are those of the string and the numbers, which stay.
LEMMA SameLimits ==
  ASSUME UNCHANGED <<function, text, key, number, number1>>
  PROVE  /\ From' = From /\ To' = To
         /\ \A i : Part!FoundAt(i)' = Part!FoundAt(i)
BY DEF From, To, Part!FoundAt, Part!Shorter

\* What is done: the part from From to To.
PartDone == resultP = SubSeq(text, From, To)

\* The numbers picked before the copy.
LEMMA Limits ==
  ASSUME Part!SubstringAssumption, function \in Parts,
         text \in Seq(Int), Len(text) < CharTop, number \in Int, Part!Fits(number),
         function = "mid" =>
           number # 0 /\ (number1 = Part!None \/ (number1 \in Int /\ Part!Fits(number1)))
  PROVE  /\ From \in Nat \ {0} /\ To \in Int /\ To <= Len(text)
         /\ number \in Nat /\ (function = "mid" /\ number1 # Part!None => number1 \in Nat)
<1>1. Len(text) \in Nat /\ WordTop \in Nat /\ number \in Nat
  BY DEF Part!Fits, Part!SubstringAssumption
<1>2. function = "mid" /\ number1 # Part!None => number1 \in Nat
  BY DEF Part!Fits, Part!SubstringAssumption
<1>3. CASE function = "left"
  BY <1>1, <1>3 DEF From, To, Part!Shorter
<1>4. CASE function = "right"
  BY <1>1, <1>4 DEF From, To, Part!Shorter
<1>5. CASE function = "mid"
  BY <1>1, <1>2, <1>5 DEF From, To, Part!Shorter
<1> QED
  BY <1>1, <1>2, <1>3, <1>4, <1>5 DEF Parts

\* The parameters are right.
Asked ==
  /\ function \in Parts /\ text \in Seq(Int) /\ Len(text) < CharTop
  /\ number \in Int /\ Part!Fits(number)
  /\ function = "mid" =>
       number # 0 /\ (number1 = Part!None \/ (number1 \in Int /\ Part!Fits(number1)))
  /\ function \in {"left", "right"} => number1 = Part!None

LEMMA PartIsDone ==
  ASSUME Part!SubstringAssumption, Asked,
         UNCHANGED <<function, text, key, number, number1>>,
         labelP' = "done", resultP' = SubSeq(text, From, To)
  PROVE  Extracting'
<1>1. PartDone'
  BY SameLimits DEF PartDone
<1>2. Part!AsTested'
  BY <1>1 DEF Part!AsTested, PartDone, From, To, Asked, Parts
<1> QED
  BY <1>2 DEF Extracting, Asked, Copying, Searching, Parts

LEMMA CopyBegins ==
  ASSUME Part!SubstringAssumption, Asked,
         UNCHANGED <<function, text, key, number, number1>>,
         NEW c \in Nat, Part!Copy(From, c), From + c - 1 = To
  PROVE  Extracting'
<1>1. /\ From \in Nat \ {0} /\ To \in Int /\ To <= Len(text)
  BY Limits DEF Asked
<1>2. CASE c = 0
  <2>1. resultP' = <<>> /\ labelP' = "done"
    BY <1>2 DEF Part!Copy, Part!Empty
  <2>2. SubSeq(text, From, To) = <<>>
    <3>1. To < From /\ text \in Seq(Int)
      BY <1>1, <1>2 DEF Asked
    <3> QED
      BY <1>1, <3>1, EmptyPart
  <2> QED
    BY <2>1, <2>2, PartIsDone
<1>3. CASE c # 0
  <2>1. from' = From /\ countP' = c /\ labelP' = "copy" /\ resultP' = <<>>
    BY <1>3 DEF Part!Copy
  <2>2. SubSeq(text, From, From - 1) = <<>>
    <3>1. From - 1 \in Int /\ From - 1 < From /\ From - 1 <= Len(text) /\ text \in Seq(Int)
      BY <1>1, <1>3 DEF Asked
    <3> QED
      BY <1>1, <3>1, EmptyPart
  <2>3. From' = From /\ To' = To
    BY SameLimits
  <2>4. Copying'
    BY <1>1, <1>3, <2>1, <2>2, <2>3 DEF Copying
  <2> QED
    BY <2>1, <2>4 DEF Extracting, Asked, Searching, Part!AsTested, Parts, Part!Fits
<1> QED
  BY <1>2, <1>3

LEMMA PartStep ==
  ASSUME Part!SubstringAssumption, Extracting, function \in Parts, Part!Next
  PROVE  Extracting'
<1>1. /\ UNCHANGED <<function, text, key, number, number1>>
      /\ text \in Seq(Int) /\ Len(text) < CharTop /\ number \in Int
      /\ (function = "mid" => number1 = Part!None \/ number1 \in Int)
      /\ (function \in {"left", "right"} => number1 = Part!None)
  <2>1. UNCHANGED Part!given
    BY DEF Part!Next, Part!BadString, Part!Left, Part!Right, Part!Mid,
       Part!CopyCharacter, Part!SearchBegins, Part!Match, Part!Mismatch
  <2> QED
    BY <2>1 DEF Part!given, Extracting
<1>2. Part!BadString \/ Part!Left \/ Part!Right \/ Part!Mid \/ Part!CopyCharacter
  BY DEF Part!Next, Part!SearchBegins, Part!Match, Part!Mismatch, Extracting, Parts
<1>3. Len(text) \in Nat /\ WordTop \in Nat /\ CharTop \in Nat /\ CharTop < WordTop
      /\ Part!None \in Int /\ Part!None < 0
  BY <1>1 DEF Part!SubstringAssumption, Part!None
<1>4. CASE Part!BadString
  <2>1. labelP' = "error"
    BY <1>4 DEF Part!BadString
  <2>2. \/ ~Part!Fits(number) \/ (function = "mid" /\ number = 0)
        \/ (number1 # Part!None /\ ~Part!Fits(number1))
    BY <1>4 DEF Part!BadString
  <2>3. \A i \in Int : ~Part!Fits(i) => i < 0 \/ i >= WordTop
    BY <1>3 DEF Part!Fits
  <2>4. \/ number < 0 \/ number >= WordTop
        \/ function = "mid" /\ number = 0
        \/ number1 # Part!None /\ (number1 < 0 \/ number1 >= WordTop)
    BY <1>1, <2>2, <2>3 DEF Parts
  <2>5. Part!AsTested'
    BY <1>1, <2>1, <2>4 DEF Part!AsTested, Parts
  <2> QED
    BY <1>1, <2>1, <2>5 DEF Extracting, Copying, Searching, Parts
<1>5. CASE Part!Left
  <2>1. function = "left" /\ Part!Fits(number) /\ number \in Nat
    BY <1>3, <1>5 DEF Part!Left, Part!Fits
  <2>2. Asked
    BY <1>1, <2>1 DEF Asked
  <2>3. From = 1 /\ To = Part!Shorter(number, Len(text))
    BY <2>1 DEF From, To
  <2>4. CASE text = <<>>
    <3>1. resultP' = <<>> /\ labelP' = "done"
      BY <1>5, <2>4 DEF Part!Left, Part!Empty
    <3>2. To < From /\ To \in Int /\ To <= Len(text)
      BY <1>3, <2>1, <2>3, <2>4 DEF Part!Shorter
    <3>3. SubSeq(text, From, To) = <<>>
      BY <1>1, <2>3, <3>2, EmptyPart
    <3> QED
      BY <1>1, <2>2, <3>1, <3>3, PartIsDone
  <2>5. CASE text # <<>> /\ Len(text) <= number
    <3>1. resultP' = text /\ labelP' = "done"
      BY <1>5, <2>5 DEF Part!Left, Part!Whole
    <3>2. To = Len(text)
      BY <1>3, <2>1, <2>3, <2>5 DEF Part!Shorter
    <3>3. SubSeq(text, From, To) = text
      BY <1>1, <2>3, <3>2, WholePart
    <3> QED
      BY <1>1, <2>2, <3>1, <3>3, PartIsDone
  <2>6. CASE text # <<>> /\ ~(Len(text) <= number)
    <3>1. Part!Copy(From, number)
      BY <1>5, <2>3, <2>6 DEF Part!Left
    <3>2. From + number - 1 = To
      BY <1>3, <2>1, <2>3, <2>6 DEF Part!Shorter
    <3> QED
      BY <1>1, <2>1, <2>2, <3>1, <3>2, CopyBegins
  <2> QED
    BY <2>4, <2>5, <2>6
<1>6. CASE Part!Right
  <2>1. function = "right" /\ Part!Fits(number) /\ number \in Nat
    BY <1>3, <1>6 DEF Part!Right, Part!Fits
  <2>2. Asked
    BY <1>1, <2>1 DEF Asked
  <2>3. From = Len(text) - Part!Shorter(number, Len(text)) + 1 /\ To = Len(text)
    BY <2>1 DEF From, To
  <2>4. CASE text = <<>>
    <3>1. resultP' = <<>> /\ labelP' = "done"
      BY <1>6, <2>4 DEF Part!Right, Part!Empty
    <3>2. To < From /\ To \in Int /\ To <= Len(text) /\ From \in Nat \ {0}
      BY <1>3, <2>1, <2>3, <2>4 DEF Part!Shorter
    <3>3. SubSeq(text, From, To) = <<>>
      BY <1>1, <3>2, EmptyPart
    <3> QED
      BY <1>1, <2>2, <3>1, <3>3, PartIsDone
  <2>5. CASE text # <<>> /\ Len(text) <= number
    <3>1. resultP' = text /\ labelP' = "done"
      BY <1>6, <2>5 DEF Part!Right, Part!Whole
    <3>2. From = 1
      BY <1>3, <2>1, <2>3, <2>5 DEF Part!Shorter
    <3>3. SubSeq(text, From, To) = text
      BY <1>1, <2>3, <3>2, WholePart
    <3> QED
      BY <1>1, <2>2, <3>1, <3>3, PartIsDone
  <2>6. CASE text # <<>> /\ ~(Len(text) <= number)
    <3>1. From = Part!Skipped + 1
      <4>1. Part!Shorter(number, Len(text)) = number
        BY <1>3, <2>1, <2>6 DEF Part!Shorter
      <4> QED
        BY <2>3, <4>1 DEF Part!Skipped
    <3>2. Part!Copy(From, number)
      BY <1>6, <2>6, <3>1 DEF Part!Right
    <3>3. From + number - 1 = To
      BY <1>3, <2>1, <2>3, <3>1 DEF Part!Skipped
    <3> QED
      BY <1>1, <2>1, <2>2, <3>2, <3>3, CopyBegins
  <2> QED
    BY <2>4, <2>5, <2>6
<1>7. CASE Part!Mid
  <2>1. /\ function = "mid" /\ Part!Fits(number) /\ number \in Nat \ {0}
        /\ number # 0 /\ (number1 = Part!None \/ Part!Fits(number1))
    BY <1>3, <1>7 DEF Part!Mid, Part!Fits
  <2>2. Asked
    BY <1>1, <2>1 DEF Asked
  <2>3. /\ From = number
        /\ To = IF number1 = Part!None THEN Len(text)
                ELSE Part!Shorter(number + number1 - 1, Len(text))
    BY <2>1 DEF From, To
  <2>4. number1 # Part!None => number1 \in Nat
    BY <1>3, <2>1 DEF Part!Fits
  <2>5. CASE Len(text) < number
    <3>1. resultP' = <<>> /\ labelP' = "done"
      BY <1>7, <2>5 DEF Part!Mid, Part!Empty
    <3>2. To < From /\ To \in Int /\ To <= Len(text) /\ From \in Nat \ {0}
      BY <1>3, <2>1, <2>3, <2>4, <2>5 DEF Part!Shorter
    <3>3. SubSeq(text, From, To) = <<>>
      BY <1>1, <3>2, EmptyPart
    <3> QED
      BY <1>1, <2>2, <3>1, <3>3, PartIsDone
  <2>6. CASE ~(Len(text) < number)
    <3>1. PICK c : c = IF Part!Available >= Part!Wanted THEN Part!Wanted ELSE Part!Available
      OBVIOUS
    <3>2. Part!Copy(From, c)
      BY <1>7, <2>3, <2>6, <3>1 DEF Part!Mid
    <3>3. c \in Nat /\ From + c - 1 = To
      <4>1. PICK l \in Nat : l = Len(text)
        BY <1>3
      <4>2. number <= l /\ l < CharTop
        BY <1>1, <1>3, <2>1, <2>6, <4>1
      <4>3. CASE number1 = Part!None
        <5>1. c = IF l - number + 1 >= CharTop - 1 THEN CharTop - 1 ELSE l - number + 1
          BY <3>1, <4>1, <4>3 DEF Part!Available, Part!Wanted
        <5>2. c = l - number + 1
          BY <1>3, <2>1, <4>2, <5>1
        <5> QED
          BY <2>1, <2>3, <4>1, <4>2, <4>3, <5>2
      <4>4. CASE number1 # Part!None
        <5>1. c = IF l - number + 1 >= number1 THEN number1 ELSE l - number + 1
          BY <3>1, <4>1, <4>4 DEF Part!Available, Part!Wanted
        <5>2. To = IF number + number1 - 1 < l THEN number + number1 - 1 ELSE l
          BY <2>3, <4>1, <4>4 DEF Part!Shorter
        <5> QED
          BY <2>1, <2>3, <2>4, <4>1, <4>2, <4>4, <5>1, <5>2
      <4> QED
        BY <4>3, <4>4
    <3> QED
      BY <1>1, <2>2, <3>2, <3>3, CopyBegins
  <2> QED
    BY <2>5, <2>6
<1>8. CASE Part!CopyCharacter
  <2>1. /\ labelP = "copy" /\ from' = from + 1 /\ countP' = countP - 1
        /\ resultP' = Append(resultP, IF from <= Len(text) THEN text[from] ELSE 0)
        /\ labelP' = IF countP = 1 THEN "done" ELSE "copy"
    BY <1>8 DEF Part!CopyCharacter
  <2>2. /\ from \in Nat \ {0} /\ countP \in Nat \ {0} /\ From \in 1..from
        /\ from + countP - 1 = To /\ To <= Len(text)
        /\ resultP = SubSeq(text, From, from - 1)
    BY <2>1 DEF Extracting, Copying
  <2>3. Asked
    BY <1>1, <2>1 DEF Extracting, Asked, Parts
  <2>4. from <= Len(text) /\ from - 1 \in Nat /\ (from - 1) + 1 = from
        /\ from - 1 < Len(text) /\ From <= (from - 1) + 1 /\ From \in Nat \ {0}
    BY <1>3, <2>2
  <2>5. resultP' = SubSeq(text, From, from)
    <3>1. Append(SubSeq(text, From, from - 1), text[(from - 1) + 1])
            = SubSeq(text, From, (from - 1) + 1)
      BY <1>1, <2>4, AppendPart
    <3> QED
      BY <2>1, <2>2, <2>4, <3>1
  <2>6. CASE countP = 1
    <3>1. from = To /\ labelP' = "done"
      BY <2>1, <2>2, <2>6
    <3> QED
      BY <1>1, <2>3, <2>5, <3>1, PartIsDone
  <2>7. CASE countP # 1
    <3>1. From' = From /\ To' = To
      BY <1>1, SameLimits
    <3>2. labelP' = "copy" /\ from' - 1 = from
      BY <2>1, <2>2, <2>7
    <3>3. Copying'
      <4>1. resultP' = SubSeq(text', From', from' - 1)
        BY <1>1, <2>5, <3>1, <3>2
      <4>2. from' \in Nat \ {0} /\ countP' \in Nat \ {0} /\ From' \in 1..from'
            /\ from' + countP' - 1 = To' /\ To' <= Len(text')
        BY <1>1, <2>1, <2>2, <2>7, <3>1
      <4> QED
        BY <4>1, <4>2 DEF Copying
    <3> QED
      BY <1>1, <2>3, <3>2, <3>3 DEF Extracting, Asked, Searching, Part!AsTested,
         Parts, Part!Fits
  <2> QED
    BY <2>6, <2>7
<1> QED
  BY <1>2, <1>4, <1>5, <1>6, <1>7, <1>8

-----------------------------------------------------------------------------
(* INSTR. *)

\* Found is what the loop has compared: the key is there, or it is not at a
\* position where a character differs.
LEMMA FoundIs ==
  ASSUME text \in Seq(Int), key \in Seq(Int), NEW i \in Nat \ {0}
  PROVE  Part!FoundAt(i) <=> /\ i + Len(key) - 1 <= Len(text)
                        /\ \A j \in 1..Len(key) : key[j] = text[i - 1 + j]
<1>1. PICK l, m \in Nat : l = Len(key) /\ m = Len(text)
  OBVIOUS
<1>2. CASE i + l - 1 > m
  BY <1>1, <1>2 DEF Part!FoundAt
<1>3. CASE i + l - 1 <= m
  <2>1. PICK u : u = SubSeq(text, i, i + l - 1)
    OBVIOUS
  <2>2. /\ u \in Seq(Int) /\ Len(u) = l
        /\ \A k \in 1..l : u[k] = text[i + k - 1]
    <3>1. i + l - 1 \in Int /\ i + l - 1 <= Len(text)
      BY <1>1, <1>3
    <3>2. Len(u) = IF i + l - 1 < i THEN 0 ELSE i + l - 1 - i + 1
      BY <2>1, <3>1, PartFacts
    <3>3. Len(u) = l
      BY <3>2
    <3>4. u \in Seq(Int) /\ \A k \in 1..Len(u) : u[k] = text[i + k - 1]
      BY <2>1, <3>1, PartFacts
    <3> QED
      BY <3>3, <3>4
  <2>3. ASSUME NEW k \in 1..l PROVE i + k - 1 = i - 1 + k
    OBVIOUS
  <2>4. u = key <=> \A k \in 1..l : key[k] = text[i - 1 + k]
    <3>1. ASSUME u = key PROVE \A k \in 1..l : key[k] = text[i - 1 + k]
      BY <2>2, <2>3, <3>1
    <3>2. ASSUME \A k \in 1..l : key[k] = text[i - 1 + k] PROVE u = key
      <4>1. \A k \in 1..Len(u) : u[k] = key[k]
        BY <2>2, <2>3, <3>2
      <4> QED
        BY <1>1, <2>2, <4>1, SameString
    <3> QED
      BY <3>1, <3>2
  <2> QED
    BY <1>1, <1>3, <2>1, <2>4 DEF Part!FoundAt
<1> QED
  BY <1>1, <1>2, <1>3

LEMMA SearchStep ==
  ASSUME Part!SubstringAssumption, Extracting, function = "instr", Part!Next
  PROVE  Extracting'
<1>1. /\ UNCHANGED <<function, text, key, number, number1>>
      /\ text \in Seq(Int) /\ Len(text) < CharTop /\ key \in Seq(Int)
      /\ function' = "instr"
  <2>1. UNCHANGED Part!given
    BY DEF Part!Next, Part!BadString, Part!Left, Part!Right, Part!Mid,
       Part!CopyCharacter, Part!SearchBegins, Part!Match, Part!Mismatch
  <2> QED
    BY <2>1 DEF Part!given, Extracting
<1>2. Part!SearchBegins \/ Part!Match \/ Part!Mismatch
  BY DEF Part!Next, Part!BadString, Part!Left, Part!Right, Part!Mid,
     Part!CopyCharacter, Extracting
<1>3. PICK l, m \in Nat : l = Len(key) /\ m = Len(text)
  BY <1>1
<1>4. \A i : Part!FoundAt(i)' = Part!FoundAt(i)
  BY <1>1, SameLimits
<1>5. \A i \in Nat \ {0} :
        Part!FoundAt(i) <=> i + l - 1 <= m /\ \A j \in 1..l : key[j] = text[i - 1 + j]
  BY <1>1, <1>3, FoundIs
\* It is enough to show what is said about the label reached.
<1>6. ASSUME labelP' \in {"compare", "done", "error"}, Searching',
             labelP' = "done" =>
               /\ \A i \in 1..m : (resultP' = 0 \/ i < resultP') => ~Part!FoundAt(i)
               /\ resultP' # 0 => Part!FoundAt(resultP'),
             labelP' = "error" => key = <<>>
      PROVE  Extracting'
  <2>1. Part!AsTested'
    BY <1>1, <1>3, <1>4, <1>6 DEF Part!AsTested
  <2>2. Copying'
    BY <1>6 DEF Copying
  <2> QED
    BY <1>1, <1>6, <2>1, <2>2 DEF Extracting, Parts
<1>7. CASE Part!SearchBegins
  <2>1. CASE m < l
    <3>1. resultP' = 0 /\ labelP' = "done"
      BY <1>3, <1>7, <2>1 DEF Part!SearchBegins
    <3>2. \A i \in 1..m : ~Part!FoundAt(i)
      BY <1>5, <2>1
    <3> QED
      BY <1>6, <3>1, <3>2 DEF Searching
  <2>2. CASE ~(m < l) /\ key = <<>>
    <3>1. labelP' = "error"
      BY <1>3, <1>7, <2>2 DEF Part!SearchBegins
    <3> QED
      BY <1>6, <2>2, <3>1 DEF Searching
  <2>3. CASE ~(m < l) /\ key # <<>>
    <3>1. resultP' = 1 /\ yP' = l /\ labelP' = "compare" /\ tries' = m - l + 1
      BY <1>3, <1>7, <2>3 DEF Part!SearchBegins
    <3>2. l # 0
      BY <1>1, <1>3, <2>3
    <3>3. Searching'
      <4>1. /\ yP' \in 1..l /\ resultP' \in Nat \ {0} /\ tries' \in Nat \ {0}
            /\ tries' + resultP' = m - l + 2 /\ (yP' + 1)..l = {}
            /\ 1..(resultP' - 1) = {}
        BY <1>3, <2>3, <3>1, <3>2
      <4>2. Len(key') = l /\ Len(text') = m
        BY <1>1, <1>3
      <4> QED
        BY <4>1, <4>2 DEF Searching
    <3> QED
      BY <1>6, <3>1, <3>3
  <2> QED
    BY <2>1, <2>2, <2>3
<1>8. ASSUME labelP = "compare"
      PROVE  /\ yP \in 1..l /\ resultP \in Nat \ {0} /\ tries \in Nat \ {0}
             /\ tries + resultP = m - l + 2
             /\ \A j \in (yP + 1)..l : key[j] = text[resultP - 1 + j]
             /\ \A i \in 1..(resultP - 1) : ~Part!FoundAt(i)
  BY <1>3, <1>8 DEF Extracting, Searching
<1>9. Len(key') = l /\ Len(text') = m
  BY <1>1, <1>3
<1>10. CASE Part!Match
  <2>1. /\ labelP = "compare" /\ key[yP] = text[resultP - 1 + yP] /\ yP' = yP - 1
        /\ labelP' = (IF yP = 1 THEN "done" ELSE "compare")
        /\ resultP' = resultP /\ tries' = tries
    BY <1>10 DEF Part!Match, Part!Same
  <2>2. \A j \in yP..l : key[j] = text[resultP - 1 + j]
    <3>1. \A j \in yP..l : j = yP \/ j \in (yP + 1)..l
      BY <1>8, <2>1
    <3> QED
      BY <1>8, <2>1, <3>1
  <2>3. CASE yP = 1
    <3>1. Part!FoundAt(resultP)
      <4>1. resultP + l - 1 <= m
        BY <1>8, <2>1
      <4> QED
        BY <1>5, <1>8, <2>1, <2>2, <2>3, <4>1
    <3>2. \A i \in 1..m : i < resultP => ~Part!FoundAt(i)
      BY <1>8, <2>1
    <3> QED
      BY <1>6, <1>8, <2>1, <2>3, <3>1, <3>2 DEF Searching
  <2>4. CASE yP # 1
    <3>1. yP' \in 1..l /\ yP' + 1 = yP
      BY <1>8, <2>1, <2>4
    <3>2. Searching'
      BY <1>1, <1>4, <1>8, <1>9, <2>1, <2>2, <3>1 DEF Searching
    <3> QED
      BY <1>6, <2>1, <2>4, <3>2
  <2> QED
    BY <2>3, <2>4
<1>11. CASE Part!Mismatch
  <2>1. /\ labelP = "compare" /\ key[yP] # text[resultP - 1 + yP]
        /\ tries' = tries - 1
        /\ IF tries - 1 = 0
             THEN resultP' = 0 /\ labelP' = "done" /\ yP' = yP
             ELSE resultP' = resultP + 1 /\ yP' = l /\ labelP' = "compare"
    BY <1>3, <1>11 DEF Part!Mismatch, Part!Same, Part!Over
  <2>2. ~Part!FoundAt(resultP)
    BY <1>5, <1>8, <2>1
  <2>3. \A i \in 1..resultP : ~Part!FoundAt(i)
    <3>1. \A i \in 1..resultP : i = resultP \/ i \in 1..(resultP - 1)
      BY <1>8, <2>1
    <3> QED
      BY <1>8, <2>1, <2>2, <3>1
  <2>4. CASE tries - 1 = 0
    <3>1. \A i \in 1..m : i \in 1..resultP \/ i + l - 1 > m
      BY <1>8, <2>1, <2>4
    <3>2. \A i \in 1..m : ~Part!FoundAt(i)
      BY <1>5, <2>3, <3>1
    <3> QED
      BY <1>6, <2>1, <2>4, <3>2 DEF Searching
  <2>5. CASE tries - 1 # 0
    <3>1. resultP' = resultP + 1 /\ yP' = l /\ labelP' = "compare" /\ resultP' - 1 = resultP
      BY <1>8, <2>1, <2>5
    <3>2. /\ yP' \in 1..l /\ resultP' \in Nat \ {0} /\ tries' \in Nat \ {0}
          /\ tries' + resultP' = m - l + 2 /\ (yP' + 1)..l = {}
      BY <1>8, <2>1, <2>5, <3>1
    <3>3. Searching'
      <4>1. \A i \in 1..(resultP' - 1) : ~Part!FoundAt(i)'
        BY <1>4, <2>3, <3>1
      <4> QED
        BY <1>9, <3>2, <4>1 DEF Searching
    <3> QED
      BY <1>6, <3>1, <3>3
  <2> QED
    BY <2>4, <2>5
<1> QED
  BY <1>2, <1>7, <1>10, <1>11

Extracts == routine = "substring" => Part!TypeOK /\ Part!AsTested

\* string.asm:18-167, instr.asm:18-74: what LEFT$, RIGHT$, MID$ and INSTR read
\* is in the string, and what they give is the part, or the position, asked for.
THEOREM ExtractsAsTested == MCSpec => []Extracts
<1> DEFINE Inv == routine = "substring" => Extracting
<1>0. Part!SubstringAssumption /\ Writable
  BY MCNumbersAssumption
<1>1. ASSUME Extracting, [Part!Next]_(Part!vars) PROVE Extracting'
  <2>1. CASE UNCHANGED Part!vars
    BY <1>1, <2>1 DEF Part!vars, Extracting, Copying, Searching, Part!AsTested,
       Part!FoundAt, Part!Shorter,
                      From, To, Part!Fits
  <2>2. CASE Part!Next
    BY <1>0, <1>1, <2>2, PartStep, SearchStep DEF Extracting
  <2> QED
    BY <1>1, <2>1, <2>2
<1>2. Extracting => Part!TypeOK /\ Part!AsTested
  <2> SUFFICES ASSUME Extracting PROVE Part!TypeOK
    BY DEF Extracting
  <2>1. Len(text) \in Nat /\ function \in {"left", "right", "mid", "instr"}
        /\ labelP \in {"start", "copy", "compare", "done", "error"}
    BY DEF Extracting, Parts
  <2>2. ASSUME labelP = "copy"
        PROVE  from >= 1 /\ countP >= 1 /\ from + countP - 1 <= Len(text)
    BY <2>1, <2>2 DEF Extracting, Copying
  <2>3. ASSUME labelP = "compare"
        PROVE  yP \in 1..Len(key) /\ resultP - 1 + Len(key) <= Len(text)
    <3>1. PICK l \in Int : l = Len(key)
      BY <2>1, <2>3 DEF Extracting, Parts
    <3> QED
      BY <2>1, <2>3, <3>1 DEF Extracting, Searching
  <2> QED
    BY <2>1, <2>2, <2>3 DEF Part!TypeOK
<1>3. MCInit => Inv
  BY <1>0, ExtractingInit DEF MCInit
<1>4. Inv /\ [MCNext]_allVars => Inv'
  <2> SUFFICES ASSUME Inv, [MCNext]_allVars PROVE Inv'
    OBVIOUS
  <2>1. routine' = routine /\ (routine = "substring" => [Part!Next]_(Part!vars))
    BY DEF MCNext, allVars, extracting, Part!vars
  <2> QED
    BY <1>1, <2>1
<1>5. Inv => Extracts
  BY <1>2 DEF Extracts
<1> QED
  BY <1>3, <1>4, <1>5, PTL DEF MCSpec

-----------------------------------------------------------------------------

\* While another routine runs, Arithmetic rests at one of its beginnings.
LEMMA ArithmeticRuns == MCSpec => Spec
<1>1. MCInit => Init
  <2>1. 0 \in Word
    BY Constants DEF Word
  <2> QED
    BY <2>1 DEF MCInit, ArithmeticRests, Init, Operations
<1>2. [MCNext]_allVars => [Next]_vars
  BY DEF MCNext, allVars
<1> QED
  BY <1>1, <1>2, PTL DEF MCSpec, Spec

\* comparison.asm, string.asm, instr.asm, arithmetic.asm: the comparisons, LEFT$,
\* RIGHT$, MID$, INSTR and the shifts give what the generated tests assert, for
\* every width of the words and all strings the loops can count.
THEOREM AllOperatorsAsTested == MCSpec => []OperatorsAsTested
<1>1. ShiftsExact /\ Compares /\ Extracts => OperatorsAsTested
  BY DEF OperatorsAsTested, Compares, Extracts
<1> QED
  BY <1>1, ArithmeticRuns, ShiftsAreExact, ComparesAsTested, ExtractsAsTested, PTL

-----------------------------------------------------------------------------
(* Strings and numbers.  ConvertBits and ConvertPower are the Bits and Power *)
(* of Conversion, and numberS, textS, t1S and labelS its variables.          *)

\* The table of powers, and the words that Wrap gives (val.asm:183-203).
LEMMA ConvertWords ==
  ASSUME Convert!ConversionAssumption
  PROVE  /\ ConvertBits \in Nat /\ ConvertBits >= 5
         /\ \A i \in 0..ConvertBits : ConvertPower[i] \in Nat \ {0}
         /\ ConvertPower[0] = 1
         /\ \A i \in 1..ConvertBits : ConvertPower[i] = 2 * ConvertPower[i - 1]
         /\ Convert!Top \in Nat \ {0} /\ Convert!Half \in Nat \ {0}
         /\ Convert!Top = 2 * Convert!Half
         /\ \A n \in Int : Convert!Wrap(n) \in Convert!Word
         /\ \A n \in Convert!Word : Convert!Wrap(n) = n
<1>1. /\ ConvertBits \in Nat /\ ConvertBits >= 5
      /\ ConvertPower \in [0..ConvertBits -> Nat \ {0}] /\ ConvertPower[0] = 1
      /\ \A i \in 1..ConvertBits : ConvertPower[i] = 2 * ConvertPower[i - 1]
  BY DEF Convert!ConversionAssumption
<1>2. ConvertBits \in 1..ConvertBits /\ ConvertBits \in 0..ConvertBits
      /\ ConvertBits - 1 \in 0..ConvertBits
  BY <1>1
<1>3. /\ Convert!Top \in Nat \ {0} /\ Convert!Half \in Nat \ {0}
      /\ Convert!Top = 2 * Convert!Half
  BY <1>1, <1>2 DEF Convert!Top, Convert!Half
<1>4. /\ \A n \in Int : Convert!Wrap(n) \in Convert!Word
      /\ \A n \in Convert!Word : Convert!Wrap(n) = n
  BY <1>3 DEF Convert!Wrap, Convert!Word
<1> QED
  BY <1>1, <1>3, <1>4

\* Powers of two grow, and the first of them are known.
LEMMA ConvertPowers ==
  ASSUME Convert!ConversionAssumption
  PROVE  /\ \A i, k \in 0..ConvertBits : i < k => ConvertPower[i] < ConvertPower[k]
         /\ ConvertPower[1] = 2 /\ ConvertPower[2] = 4 /\ ConvertPower[3] = 8
         /\ ConvertPower[4] = 16 /\ ConvertPower[5] = 32
<1>1. /\ ConvertBits \in Nat /\ ConvertBits >= 5
      /\ \A i \in 0..ConvertBits : ConvertPower[i] \in Nat \ {0}
      /\ ConvertPower[0] = 1
      /\ \A i \in 1..ConvertBits : ConvertPower[i] = 2 * ConvertPower[i - 1]
  BY ConvertWords
<1>2. ASSUME NEW i \in 0..ConvertBits
      PROVE  \A k \in 0..ConvertBits : i < k => ConvertPower[i] < ConvertPower[k]
  <2> DEFINE W == {k \in 0..ConvertBits : i < k => ConvertPower[i] < ConvertPower[k]}
  <2>1. 0 \in W
    BY <1>1
  <2>2. ASSUME NEW k \in 1..ConvertBits, k - 1 \in W PROVE k \in W
    <3>1. k - 1 \in 0..ConvertBits /\ ConvertPower[k] = 2 * ConvertPower[k - 1]
      BY <1>1
    <3>2. ConvertPower[k - 1] < ConvertPower[k]
      BY <1>1, <3>1
    <3>3. CASE i = k - 1
      BY <1>1, <3>2, <3>3
    <3>4. CASE i # k - 1
      <4>1. i < k => ConvertPower[i] < ConvertPower[k - 1]
        BY <2>2, <3>4
      <4> QED
        BY <1>1, <3>1, <3>2, <4>1
    <3> QED
      BY <3>3, <3>4
  <2>3. \A k \in 0..ConvertBits : k \in W
    <3> HIDE DEF W
    <3> QED
      BY <1>1, <2>1, <2>2, UpTo
  <2> QED
    BY <2>3
<1>3. 1 \in 1..ConvertBits /\ 2 \in 1..ConvertBits /\ 3 \in 1..ConvertBits
      /\ 4 \in 1..ConvertBits /\ 5 \in 1..ConvertBits
  BY <1>1
<1>4. ConvertPower[1] = 2 * ConvertPower[0] /\ ConvertPower[2] = 2 * ConvertPower[1]
      /\ ConvertPower[3] = 2 * ConvertPower[2] /\ ConvertPower[4] = 2 * ConvertPower[3]
      /\ ConvertPower[5] = 2 * ConvertPower[4]
  BY <1>1, <1>3
<1> QED
  BY <1>1, <1>2, <1>4

\* Wrap takes off whole words.
LEMMA ConvertWrapIs ==
  ASSUME Convert!ConversionAssumption, NEW n \in Int
  PROVE  \E x \in Int : Convert!Wrap(n) = n + x * Convert!Top
<1> USE ConvertWords
<1>1. n = Convert!Top * (n \div Convert!Top) + (n % Convert!Top)
      /\ n \div Convert!Top \in Int
  <2>1. \A t \in Nat \ {0} : n = t * (n \div t) + (n % t) /\ n \div t \in Int
    OBVIOUS
  <2> QED
    BY <2>1
<1>2. PICK z \in Int : n = Convert!Top * z + Convert!Wrap(n)
  BY <1>1 DEF Convert!Wrap
<1>3. Convert!Wrap(n) = n + (-z) * Convert!Top
  <2>1. (-z) * Convert!Top = -(Convert!Top * z) /\ Convert!Top * z \in Int
    OBVIOUS
  <2> QED
    BY <1>2, <2>1 DEF Convert!Word
<1> QED
  BY <1>3

\* Numbers that whole words lie between are the same word.
LEMMA SameConverted ==
  ASSUME Convert!ConversionAssumption, NEW m \in Int, NEW n \in Int, NEW k \in Int,
         m = n + k * Convert!Top
  PROVE  Convert!Wrap(m) = Convert!Wrap(n)
<1> USE ConvertWords
<1>1. PICK x \in Int : Convert!Wrap(m) = m + x * Convert!Top
  BY ConvertWrapIs
<1>2. PICK y \in Int : Convert!Wrap(n) = n + y * Convert!Top
  BY ConvertWrapIs
<1> DEFINE u == Convert!Wrap(m)
           v == Convert!Wrap(n)
           d == x + k - y
           T == Convert!Top
<1>3. u \in 0..(T - 1) /\ v \in 0..(T - 1) /\ T \in Nat \ {0} /\ d \in Int
  BY DEF Convert!Word
<1>4. u = v + d * T
  <2>1. d * T = x * T + k * T - y * T
    OBVIOUS
  <2>2. x * T \in Int /\ k * T \in Int /\ y * T \in Int
    OBVIOUS
  <2> QED
    BY <1>1, <1>2, <2>1, <2>2
<1> HIDE DEF u, v, d, T
<1>5. u = v
  <2>1. CASE d = 0
    <3>1. d * T = 0
      BY <1>3, <2>1
    <3> QED
      BY <1>3, <1>4, <3>1
  <2>2. CASE d >= 1
    <3>1. d * T = (d - 1) * T + T /\ (d - 1) * T >= 0
      BY <1>3, <2>2
    <3> QED
      BY <1>3, <1>4, <3>1
  <2>3. CASE d <= -1
    <3>1. d * T = -((-d - 1) * T) - T /\ (-d - 1) * T >= 0
      BY <1>3, <2>3
    <3> QED
      BY <1>3, <1>4, <3>1
  <2> QED
    BY <1>3, <2>1, <2>2, <2>3
<1> QED
  BY <1>5 DEF u, v

\* Digits may be wrapped one by one, and so may the sign.
LEMMA WrappedDigit ==
  ASSUME Convert!ConversionAssumption, NEW v \in Int, NEW B \in Int, NEW d \in Int
  PROVE  /\ Convert!Wrap(Convert!Wrap(v) * B + d) = Convert!Wrap(v * B + d)
         /\ Convert!Wrap(-Convert!Wrap(v)) = Convert!Wrap(-v)
<1> USE ConvertWords
<1>1. PICK x \in Int : Convert!Wrap(v) = v + x * Convert!Top
  BY ConvertWrapIs
<1>2. Convert!Wrap(v) \in Int
  BY DEF Convert!Word
<1>3. Convert!Wrap(v) * B + d = (v * B + d) + (x * B) * Convert!Top
  <2>1. (v + x * Convert!Top) * B = v * B + (x * B) * Convert!Top
    OBVIOUS
  <2>2. v * B \in Int /\ (x * B) * Convert!Top \in Int
    OBVIOUS
  <2> QED
    BY <1>1, <2>1, <2>2
<1>4. -Convert!Wrap(v) = -v + (-x) * Convert!Top
  <2>1. (-x) * Convert!Top = -(x * Convert!Top) /\ x * Convert!Top \in Int
    OBVIOUS
  <2> QED
    BY <1>1, <2>1
<1>5. /\ Convert!Wrap(v) * B + d \in Int /\ v * B + d \in Int /\ x * B \in Int
      /\ -Convert!Wrap(v) \in Int /\ -v \in Int /\ -x \in Int
  BY <1>2
<1>6. Convert!Wrap(Convert!Wrap(v) * B + d) = Convert!Wrap(v * B + d)
  BY <1>3, <1>5, SameConverted
<1>7. Convert!Wrap(-Convert!Wrap(v)) = Convert!Wrap(-v)
  BY <1>4, <1>5, SameConverted
<1> QED
  BY <1>6, <1>7

-----------------------------------------------------------------------------
(* Digits. *)

Marks(B) == {c \in 48..57 \cup 97..102 : Convert!DigitValue(c) < B}
Lower(c) == IF Convert!IsLetter(c) THEN c + 32 ELSE c

\* Every digit has a character of its own (str.asm:132-139).
LEMMA MarkOf ==
  ASSUME NEW d \in 0..15
  PROVE  /\ Convert!Character(d) \in 48..57 \cup 97..102 /\ Convert!Character(d) # 45
         /\ Convert!DigitValue(Convert!Character(d)) = d
         /\ Convert!Character(d) = 48 => d = 0
BY DEF Convert!Character, Convert!DigitValue, Convert!IsDigit

\* The test of a character in VAL( (val.asm:101-115).
Taken(u, B) == (Convert!IsDigit(u) \/ Convert!IsLetter(u)) /\ Convert!DigitOf(u) < B

\* VAL( takes the characters of the base up to F, in both cases, for their value
\* (val.asm:101-118).
LEMMA CharacterRead ==
  ASSUME NEW B \in Convert!Bases, NEW c \in 0..255, Convert!UpperCase(c) \notin 71..90
  PROVE  /\ Taken(Convert!UpperCase(c), B) <=> Lower(c) \in Marks(B)
         /\ Lower(c) \in Marks(B) =>
              Convert!DigitOf(Convert!UpperCase(c)) = Convert!DigitValue(Lower(c))
<1> DEFINE u == Convert!UpperCase(c)
<1> USE DEF Convert!UpperCase, Convert!IsDigit, Convert!IsLetter, Convert!DigitOf,
            Convert!DigitValue, Marks, Lower, Convert!Bases, Taken
<1>1. CASE c \in 48..57
  <2>1. u = c /\ Lower(c) = c /\ c % 16 = c - 48
    BY <1>1
  <2> QED
    BY <1>1, <2>1
<1>2. CASE c \in 65..70
  <2>1. u = c /\ Lower(c) = c + 32 /\ (c + 9) % 16 = c - 55
    BY <1>2
  <2> QED
    BY <1>2, <2>1
<1>3. CASE c \in 97..102
  <2>1. u = c - 32 /\ Lower(c) = c /\ (u + 9) % 16 = u - 55
    BY <1>3
  <2> QED
    BY <1>3, <2>1
<1>4. CASE c \notin 48..57 /\ c \notin 65..70 /\ c \notin 97..102
  <2>1. ~(Convert!IsDigit(u) \/ Convert!IsLetter(u)) /\ u \in 0..255
    BY <1>4
  <2>2. Lower(c) \notin 48..57 \cup 97..102
    BY <1>4
  <2> QED
    BY <2>1, <2>2
<1> QED
  BY <1>1, <1>2, <1>3, <1>4

\* The digits of a base stand for the values below it.
LEMMA MarksAre ==
  ASSUME NEW B \in Convert!Bases, NEW c \in Marks(B)
  PROVE  /\ c \in 0..255 /\ c # 45 /\ Lower(c) = c /\ Convert!UpperCase(c) \notin 71..90
         /\ Convert!DigitValue(c) \in 0..(B - 1)
BY DEF Convert!UpperCase, Convert!IsDigit, Convert!IsLetter, Convert!DigitValue, Marks,
       Lower, Convert!Bases

-----------------------------------------------------------------------------
(* The value of a string of digits. *)

\* The recursion has the values it names.
LEMMA ValueFacts ==
  ASSUME NEW B \in Int, NEW s \in Seq(Int)
  PROVE  /\ Convert!ValueAlong(B, s) \in [0..Len(s) -> Int]
         /\ Convert!ValueAlong(B, s)[0] = 0
         /\ \A i \in 1..Len(s) :
              Convert!ValueAlong(B, s)[i]
                = Convert!ValueAlong(B, s)[i - 1] * B + Convert!DigitValue(s[i])
<1> DEFINE n == Len(s)
           v(i) == Convert!DigitValue(s[i])
           With(x, i) == x * B + v(i)
           Solves(f) == f = [i \in 0..n |-> IF i = 0 THEN 0 ELSE With(f[i - 1], i)]
           g == [i \in 1..n |-> [x \in Int |-> x * B + v(i)]]
<1>1. n \in Nat /\ \A i \in 1..n : v(i) \in Int
  <2>1. n \in Nat /\ \A i \in 1..n : s[i] \in Int
    BY ElementType
  <2> QED
    BY <2>1 DEF Convert!DigitValue
<1> HIDE DEF v
<1>2. g \in [1..n -> [Int -> Int]]
  BY <1>1
<1>3. PICK f \in [0..n -> Int] : f[0] = 0 /\ \A i \in 1..n : f[i] = g[i][f[i - 1]]
  <2>1. n \in Nat /\ Steps(g, n, Int) /\ 0 \in Int
    BY <1>1, <1>2 DEF Steps
  <2> HIDE DEF n, g
  <2>2. \E f : Iteration(f, g, n, Int, 0)
    BY <2>1, Iterates
  <2> QED
    BY <2>2 DEF Iteration
<1>4. \A i \in 1..n : f[i - 1] \in Int /\ i - 1 \in 0..n /\ i \in 0..n
  BY <1>1
<1>5. \A i \in 1..n : f[i] = With(f[i - 1], i)
  BY <1>3, <1>4
<1> HIDE DEF With
<1>6. Solves(f)
  <2> DEFINE h == [i \in 0..n |-> IF i = 0 THEN 0 ELSE With(f[i - 1], i)]
  <2>1. \A i \in 0..n : i # 0 => i \in 1..n
    BY <1>1
  <2>2. \A i \in 0..n : f[i] = h[i]
    BY <1>3, <1>5, <2>1
  <2>3. f = h
    BY <2>2
  <2> QED
    BY <2>3
<1>7. Solves(Convert!ValueAlong(B, s))
  <2>1. Convert!ValueAlong(B, s) = CHOOSE u : Solves(u)
    BY DEF Convert!ValueAlong, With, v
  <2> HIDE DEF Solves
  <2> QED
    BY <1>6, <2>1
<1> DEFINE u == Convert!ValueAlong(B, s)
<1> HIDE DEF u
<1>8. u = [i \in 0..n |-> IF i = 0 THEN 0 ELSE With(u[i - 1], i)]
  BY <1>7 DEF u
<1>9. /\ u = [i \in 0..n |-> u[i]] /\ u[0] = 0
      /\ \A i \in 1..n : u[i] = With(u[i - 1], i)
  <2> DEFINE e(i) == IF i = 0 THEN 0 ELSE With(u[i - 1], i)
  <2>1. e(0) = 0 /\ \A i \in 1..n : e(i) = With(u[i - 1], i)
    OBVIOUS
  <2>2. u = [i \in 0..n |-> e(i)]
    BY <1>8
  <2> HIDE DEF e
  <2>3. u = [i \in 0..n |-> u[i]] /\ \A i \in 0..n : u[i] = e(i)
    BY <2>2, Zenon
  <2>4. 0 \in 0..n /\ \A i \in 1..n : i \in 0..n
    BY <1>1
  <2> QED
    BY <2>1, <2>3, <2>4
<1>10. \A i \in 0..n : u[i] = f[i]
  <2> DEFINE W == {i \in 0..n : u[i] = f[i]}
  <2>1. 0 \in W
    BY <1>1, <1>3, <1>9
  <2>2. \A i \in 1..n : i - 1 \in W => i \in W
    BY <1>4, <1>5, <1>9
  <2>3. \A i \in 0..n : i \in W
    <3> HIDE DEF W
    <3> QED
      BY <1>1, <2>1, <2>2, UpTo
  <2> QED
    BY <2>3
<1>11. u \in [0..n -> Int]
  BY <1>3, <1>9, <1>10
<1> QED
  BY <1>9, <1>11 DEF u, v, With

\* One digit more.
LEMMA ValueOfMore ==
  ASSUME NEW B \in Int, NEW s \in Seq(Int), NEW c \in Int
  PROVE  /\ Convert!ValueIn(B, <<>>) = 0 /\ Convert!ValueIn(B, s) \in Int
         /\ Convert!ValueIn(B, Append(s, c))
              = Convert!ValueIn(B, s) * B + Convert!DigitValue(c)
<1> DEFINE t == Append(s, c)
           n == Len(s)
           u == Convert!ValueAlong(B, s)
           w == Convert!ValueAlong(B, t)
           v(x) == Convert!DigitValue(x)
<1>1. t \in Seq(Int) /\ Len(t) = n + 1 /\ n \in Nat /\ t[n + 1] = c
      /\ \A i \in 1..n : t[i] = s[i]
  OBVIOUS
<1>2. u \in [0..n -> Int] /\ u[0] = 0 /\ \A i \in 1..n : u[i] = u[i - 1] * B + v(s[i])
  BY ValueFacts
<1>3. w[0] = 0 /\ \A i \in 1..Len(t) : w[i] = w[i - 1] * B + v(t[i])
  <2> HIDE DEF t
  <2> QED
    BY <1>1, ValueFacts
<1> HIDE DEF t, u, w, v
<1>4. \A i \in 0..n : w[i] = u[i]
  <2> DEFINE W == {i \in 0..n : w[i] = u[i]}
  <2>1. 0 \in W
    BY <1>1, <1>2, <1>3
  <2>2. ASSUME NEW i \in 1..n, i - 1 \in W PROVE i \in W
    <3>1. i \in 1..Len(t) /\ i \in 0..n /\ t[i] = s[i]
      BY <1>1
    <3>2. w[i] = w[i - 1] * B + v(t[i]) /\ u[i] = u[i - 1] * B + v(s[i])
          /\ w[i - 1] = u[i - 1]
      BY <1>2, <1>3, <2>2, <3>1
    <3> QED
      BY <3>1, <3>2
  <2>3. \A i \in 0..n : i \in W
    <3> HIDE DEF W
    <3> QED
      BY <1>1, <2>1, <2>2, UpTo
  <2> QED
    BY <2>3
<1>5. w[n + 1] = u[n] * B + v(c) /\ u[n] \in Int
  <2>1. n + 1 \in 1..Len(t) /\ (n + 1) - 1 = n /\ n \in 0..n
    BY <1>1
  <2>2. w[n + 1] = w[n] * B + v(c)
    BY <1>1, <1>3, <2>1
  <2> QED
    BY <1>2, <1>4, <2>1, <2>2
<1>6. Convert!ValueIn(B, <<>>) = 0
  <2>1. <<>> \in Seq(Int) /\ Len(<<>>) = 0
    OBVIOUS
  <2>2. Convert!ValueAlong(B, <<>>)[0] = 0
    BY <2>1, ValueFacts
  <2> QED
    BY <2>1, <2>2 DEF Convert!ValueIn
<1> QED
  BY <1>1, <1>5, <1>6 DEF Convert!ValueIn, t, u, w, v

-----------------------------------------------------------------------------
(* The powers of the base. *)

\* Products grow with their factors.
LEMMA TimesMore ==
  ASSUME NEW x \in Nat, NEW y \in Nat, NEW z \in Nat
  PROVE  /\ x * y \in Nat
         /\ y <= z => x * y <= x * z
         /\ x # 0 /\ x * y = x * z => y = z
         /\ x # 0 /\ y < z => x * y < x * z
<1>1. x * y \in Nat
  OBVIOUS
<1>2. ASSUME y < z, x # 0 PROVE x * y < x * z
  <2>1. PICK d \in Nat \ {0} : z = y + d
    <3>1. z - y \in Nat \ {0} /\ z = y + (z - y)
      BY <1>2
    <3> QED
      BY <3>1
  <2>2. x * z = x * y + x * d /\ x * d > 0 /\ x * d \in Nat
    BY <1>2, <2>1
  <2> QED
    BY <1>1, <2>2
<1>3. ASSUME z < y, x # 0 PROVE x * z < x * y
  <2>1. PICK d \in Nat \ {0} : y = z + d
    <3>1. y - z \in Nat \ {0} /\ y = z + (y - z)
      BY <1>3
    <3> QED
      BY <3>1
  <2>2. x * y = x * z + x * d /\ x * d > 0 /\ x * d \in Nat /\ x * z \in Nat
    BY <1>3, <2>1
  <2> QED
    BY <2>2
<1>4. y <= z => x * y <= x * z
  <2>1. CASE x = 0
    BY <2>1
  <2>2. CASE x # 0 /\ y = z
    BY <1>1, <2>2
  <2>3. CASE x # 0 /\ y < z
    <3>1. x * z \in Nat
      OBVIOUS
    <3> QED
      BY <1>1, <1>2, <2>3, <3>1
  <2> QED
    BY <2>1, <2>2, <2>3
<1>5. x # 0 /\ x * y = x * z => y = z
  <2>1. x * z \in Nat
    OBVIOUS
  <2> QED
    BY <1>1, <1>2, <1>3, <2>1
<1> QED
  BY <1>1, <1>2, <1>4, <1>5

\* The number of the shifts of MultiplyTemp1ByA (val.asm:185-211): either nothing
\* falls out, or the product is Half at least.
LEMMA ScaledUp ==
  ASSUME Convert!ConversionAssumption, NEW p \in Nat \ {0}, NEW B \in Convert!Bases
  PROVE  /\ ~Convert!Overflows(p, B) => Convert!Wrap(p * B) = p * B
         /\ Convert!Overflows(p, B) =>
              /\ Convert!Half <= p * B
              /\ p * B = Convert!Half => \E j \in 1..4 : B = ConvertPower[j]
<1> DEFINE Is(k) == ConvertPower[k] > B /\ \A j \in 0..(k - 1) : ConvertPower[j] <= B
           L == Convert!Length(B)
           P(i) == ConvertPower[i]
<1>0. B \in 2..16 /\ B \in Nat
  BY DEF Convert!Bases
<1>1. /\ ConvertBits \in Nat /\ ConvertBits >= 5 /\ P(0) = 1 /\ P(1) = 2 /\ P(2) = 4
      /\ P(3) = 8 /\ P(4) = 16 /\ P(5) = 32
      /\ \A i \in 0..ConvertBits : P(i) \in Nat \ {0}
      /\ \A i \in 1..ConvertBits : P(i) = 2 * P(i - 1)
      /\ Convert!Half \in Nat \ {0} /\ Convert!Top = 2 * Convert!Half
  BY ConvertWords, ConvertPowers
<1>2. \E k \in 0..ConvertBits : Is(k)
  <2>1. 2 \in 0..ConvertBits /\ 3 \in 0..ConvertBits /\ 4 \in 0..ConvertBits
        /\ 5 \in 0..ConvertBits
    BY <1>1
  <2>2. /\ 0..(2 - 1) = {0, 1} /\ 0..(3 - 1) = {0, 1, 2} /\ 0..(4 - 1) = {0, 1, 2, 3}
        /\ 0..(5 - 1) = {0, 1, 2, 3, 4}
    OBVIOUS
  <2>3. (B \in 2..3 => Is(2)) /\ (B \in 4..7 => Is(3)) /\ (B \in 8..15 => Is(4))
        /\ (B = 16 => Is(5))
    BY <1>1, <2>2
  <2>4. B \in 2..3 \/ B \in 4..7 \/ B \in 8..15 \/ B = 16
    BY <1>0
  <2> HIDE DEF Is
  <2> QED
    BY <2>1, <2>3, <2>4
<1>3. L \in 0..ConvertBits /\ Is(L)
  <2>1. L = CHOOSE k \in 0..ConvertBits : Is(k)
    BY DEF Convert!Length
  <2> HIDE DEF Is, L
  <2> QED
    BY <1>2, <2>1
<1> HIDE DEF L, P
<1>4. L \in 1..5
  <2>1. L # 0
    BY <1>0, <1>1, <1>3 DEF P
  <2>2. L <= 5
    <3>1. ASSUME L > 5 PROVE FALSE
      <4>1. 5 \in 0..(L - 1)
        BY <1>3, <3>1
      <4>2. P(5) <= B
        BY <1>3, <4>1 DEF P
      <4> QED
        BY <1>0, <1>1, <4>2
    <3> QED
      BY <1>3, <3>1
  <2> QED
    BY <1>3, <2>1, <2>2
<1>5. /\ L - 1 \in 0..4 /\ P(L) = 2 * P(L - 1) /\ P(L - 1) <= B /\ B < P(L)
      /\ P(L - 1) \in Nat \ {0} /\ P(L) \in Nat
  <2>1. L - 1 \in 0..4 /\ L \in 1..ConvertBits /\ L - 1 \in 0..(L - 1)
        /\ L - 1 \in 0..ConvertBits
    BY <1>1, <1>4
  <2> QED
    BY <1>0, <1>1, <1>3, <2>1 DEF P
<1>6. /\ p * P(L - 1) <= p * B /\ p * B < p * P(L) /\ p * B \in Nat
      /\ p * P(L - 1) \in Nat /\ p * P(L) = 2 * (p * P(L - 1))
  <2>1. p * P(L - 1) <= p * B /\ p * B < p * P(L) /\ p * B \in Nat /\ p * P(L - 1) \in Nat
    BY <1>0, <1>5, TimesMore
  <2>2. p * P(L) = 2 * (p * P(L - 1))
    BY <1>5
  <2> QED
    BY <2>1, <2>2
<1>7. Convert!Overflows(p, B) <=> p * P(L) >= Convert!Top
  BY DEF Convert!Overflows, L, P
<1>8. ~Convert!Overflows(p, B) => Convert!Wrap(p * B) = p * B
  <2>1. ~Convert!Overflows(p, B) => p * B \in Convert!Word
    BY <1>1, <1>6, <1>7 DEF Convert!Word
  <2> QED
    BY <2>1, ConvertWords
<1>9. ASSUME Convert!Overflows(p, B), p * B = Convert!Half
      PROVE  \E j \in 1..4 : B = ConvertPower[j]
  <2>1. p * P(L - 1) = p * B
    BY <1>1, <1>6, <1>7, <1>9
  <2>2. B = P(L - 1)
    BY <1>0, <1>5, <2>1, TimesMore
  <2>3. L - 1 # 0
    BY <1>0, <1>1, <2>2
  <2>4. L - 1 \in 1..4
    BY <1>5, <2>3
  <2> QED
    BY <2>2, <2>4 DEF P
<1>10. Convert!Overflows(p, B) => Convert!Half <= p * B
  BY <1>1, <1>6, <1>7
<1> QED
  BY <1>8, <1>9, <1>10

\* The product of two powers of two up to Half is one.
LEMMA PowerTimes ==
  ASSUME Convert!ConversionAssumption, NEW k \in 0..ConvertBits, NEW j \in 1..4,
         ConvertPower[k] * ConvertPower[j] <= Convert!Half
  PROVE  /\ k + j \in 0..(ConvertBits - 1)
         /\ ConvertPower[k + j] = ConvertPower[k] * ConvertPower[j]
<1> DEFINE P(i) == ConvertPower[i]
<1>1. /\ ConvertBits \in Nat /\ ConvertBits >= 5 /\ P(1) = 2 /\ P(2) = 4
      /\ P(3) = 8 /\ P(4) = 16
      /\ \A i \in 0..ConvertBits : P(i) \in Nat \ {0}
      /\ \A i \in 1..ConvertBits : P(i) = 2 * P(i - 1)
      /\ Convert!Half \in Nat \ {0} /\ Convert!Half = P(ConvertBits - 1)
      /\ \A i, l \in 0..ConvertBits : i < l => P(i) < P(l)
  BY ConvertWords, ConvertPowers DEF Convert!Half
<1> HIDE DEF P
<1>2. ASSUME NEW i \in 0..ConvertBits, 2 * P(i) <= Convert!Half
      PROVE  i + 1 \in 0..(ConvertBits - 1) /\ P(i + 1) = 2 * P(i)
  <2>1. ASSUME ~(i < ConvertBits - 1) PROVE FALSE
    <3>1. ConvertBits - 1 \in 0..ConvertBits
      BY <1>1
    <3>2. P(ConvertBits - 1) <= P(i) /\ P(i) \in Nat \ {0}
      <4>1. CASE i = ConvertBits - 1
        BY <1>1, <4>1
      <4>2. CASE ConvertBits - 1 < i
        BY <1>1, <3>1, <4>2
      <4> QED
        BY <1>1, <2>1, <4>1, <4>2
    <3> QED
      BY <1>1, <1>2, <3>2
  <2>2. i + 1 \in 0..(ConvertBits - 1) /\ i + 1 \in 1..ConvertBits /\ (i + 1) - 1 = i
    BY <1>1, <2>1
  <2> QED
    BY <1>1, <2>2
<1>3. P(k) \in Nat \ {0} /\ P(k) * P(j) <= Convert!Half
  BY <1>1 DEF P
<1>4. j = 1 \/ j = 2 \/ j = 3 \/ j = 4
  OBVIOUS
<1>5. 2 * P(k) <= Convert!Half
  BY <1>1, <1>3, <1>4
<1>6. k + 1 \in 0..(ConvertBits - 1) /\ P(k + 1) = 2 * P(k)
  BY <1>2, <1>5
<1>7. j # 1 => k + 2 \in 0..(ConvertBits - 1) /\ P(k + 2) = 4 * P(k)
  <2>1. j # 1 => 2 * P(k + 1) <= Convert!Half
    BY <1>1, <1>3, <1>4, <1>6
  <2>2. k + 1 \in 0..ConvertBits /\ (k + 1) + 1 = k + 2
    BY <1>1, <1>6
  <2>3. j # 1 => k + 2 \in 0..(ConvertBits - 1) /\ P(k + 2) = 2 * P(k + 1)
    BY <1>2, <2>1, <2>2
  <2> QED
    BY <1>3, <1>6, <2>3
<1>8. j \in 3..4 => k + 3 \in 0..(ConvertBits - 1) /\ P(k + 3) = 8 * P(k)
  <2>1. j \in 3..4 => 2 * P(k + 2) <= Convert!Half
    BY <1>1, <1>3, <1>4, <1>7
  <2>2. j \in 3..4 => k + 2 \in 0..ConvertBits /\ (k + 2) + 1 = k + 3
    BY <1>1, <1>7
  <2>3. j \in 3..4 => k + 3 \in 0..(ConvertBits - 1) /\ P(k + 3) = 2 * P(k + 2)
    BY <1>2, <2>1, <2>2
  <2> QED
    BY <1>3, <1>7, <2>3
<1>9. j = 4 => k + 4 \in 0..(ConvertBits - 1) /\ P(k + 4) = 16 * P(k)
  <2>1. j = 4 => 2 * P(k + 3) <= Convert!Half
    BY <1>1, <1>3, <1>4, <1>8
  <2>2. j = 4 => k + 3 \in 0..ConvertBits /\ (k + 3) + 1 = k + 4
    BY <1>1, <1>8
  <2>3. j = 4 => k + 4 \in 0..(ConvertBits - 1) /\ P(k + 4) = 2 * P(k + 3)
    BY <1>2, <2>1, <2>2
  <2> QED
    BY <1>3, <1>8, <2>3
<1>10. k + j \in 0..(ConvertBits - 1) /\ P(k + j) = P(k) * P(j)
  BY <1>1, <1>3, <1>4, <1>6, <1>7, <1>8, <1>9
<1> QED
  BY <1>10 DEF P

-----------------------------------------------------------------------------
(* Sign and digits of a string. *)

Sign == IF Convert!Negative THEN 1 ELSE 0

\* The sign, where there is one, is in front of the digits (val.asm:85-91).
LEMMA TextFacts ==
  ASSUME textS \in Seq(0..255)
  PROVE  /\ Sign \in {0, 1} /\ Len(textS) = Len(Convert!Written) + Sign
         /\ Len(textS) \in Nat /\ Convert!Written \in Seq(0..255)
         /\ \A i \in 1..Len(Convert!Written) : Convert!Written[i] = textS[i + Sign]
         /\ textS = <<>> \/ textS = <<45>> <=> Convert!Written = <<>>
         /\ Convert!Digits \in Seq(Int) /\ Len(Convert!Digits) = Len(Convert!Written)
         /\ \A i \in 1..Len(Convert!Written) :
              Convert!Digits[i] = Lower(Convert!Written[i])
<1> DEFINE w == Convert!Written
           n == Len(w)
<1>1. /\ Sign \in {0, 1} /\ Len(textS) = n + Sign /\ w \in Seq(0..255)
      /\ \A i \in 1..n : w[i] = textS[i + Sign]
      /\ Len(textS) \in Nat
  <2>1. CASE Convert!Negative
    BY <2>1 DEF Convert!Written, Sign, Convert!Negative
  <2>2. CASE ~Convert!Negative
    BY <2>2 DEF Convert!Written, Sign
  <2> QED
    BY <2>1, <2>2
<1>2. textS = <<>> \/ textS = <<45>> <=> w = <<>>
  <2>1. CASE textS = <<>>
    BY <2>1 DEF Convert!Written, Convert!Negative
  <2>2. CASE textS # <<>> /\ Head(textS) = 45
    <3>1. w = Tail(textS)
      BY <2>2 DEF Convert!Written, Convert!Negative, Convert!Minus
    <3>2. textS = <<45>> => Tail(textS) = <<>>
      OBVIOUS
    <3>3. ASSUME Tail(textS) = <<>> PROVE textS = <<45>>
      <4>1. Len(Tail(textS)) = Len(textS) - 1 /\ Len(textS) \in Nat /\ textS[1] = 45
        BY <2>2
      <4>2. Len(Tail(textS)) = 0
        <5>1. Len(<<>>) = 0
          OBVIOUS
        <5> QED
          BY <3>3, <5>1, Zenon
      <4>3. Len(textS) = 1
        BY <4>1, <4>2
      <4> QED
        BY <4>1, <4>3
    <3> QED
      BY <2>2, <3>1, <3>2, <3>3
  <2>3. CASE textS # <<>> /\ Head(textS) # 45
    <3>1. w = textS /\ textS # <<45>>
      BY <2>3 DEF Convert!Written, Convert!Negative, Convert!Minus
    <3> QED
      BY <2>3, <3>1
  <2> QED
    BY <2>1, <2>2, <2>3
<1>3. Convert!Digits = [i \in DOMAIN w |-> Lower(w[i])]
  BY DEF Convert!Digits, Convert!LowerCase, Lower
<1> HIDE DEF w
<1>4. n \in Nat /\ DOMAIN w = 1..n /\ \A i \in 1..n : Lower(w[i]) \in Int
  <2>1. w \in Seq(0..255)
    BY <1>1
  <2>2. n \in Nat /\ DOMAIN w = 1..n /\ \A i \in 1..n : w[i] \in 0..255
    <3>1. \A S : \A s \in Seq(S) : Len(s) \in Nat /\ DOMAIN s = 1..Len(s)
      OBVIOUS
    <3>2. \A i \in 1..n : w[i] \in 0..255
      BY <2>1, ElementType
    <3> QED
      BY <2>1, <3>1, <3>2
  <2>3. \A c \in 0..255 : Lower(c) \in Int
    BY DEF Lower
  <2> QED
    BY <2>2, <2>3
<1>5. /\ Convert!Digits \in Seq(Int) /\ Len(Convert!Digits) = n
      /\ \A i \in 1..n : Convert!Digits[i] = Lower(w[i])
  <2>1. Convert!Digits \in [1..n -> Int]
    BY <1>3, <1>4
  <2>2. Convert!Digits \in Seq(Int)
    BY <1>4, <2>1, FunctionIsSeq
  <2>3. Len(Convert!Digits) = n
    BY <1>4, <2>1, <2>2
  <2> QED
    BY <1>3, <1>4, <2>2, <2>3
<1> QED
  BY <1>1, <1>2, <1>5 DEF w

\* A digit behind the string is a digit behind the written ones (str.asm:141-151).
LEMMA OneCharacterMore ==
  ASSUME textS \in Seq(0..255), NEW c \in 0..255, c # 45, textS' = Append(textS, c)
  PROVE  /\ Convert!Negative' <=> Convert!Negative
         /\ Convert!Written' = Append(Convert!Written, c)
         /\ textS' \in Seq(0..255) /\ Len(textS') = Len(textS) + 1
<1>1. /\ textS' # <<>> /\ (textS = <<>> => Head(textS') = c)
      /\ (textS # <<>> => Head(textS') = Head(textS)
                          /\ Tail(textS') = Append(Tail(textS), c))
  OBVIOUS
<1>2. Convert!Negative' <=> Convert!Negative
  BY <1>1 DEF Convert!Negative, Convert!Minus
<1>3. Convert!Written' = Append(Convert!Written, c)
  <2>1. CASE Convert!Negative
    BY <1>1, <1>2, <2>1 DEF Convert!Written, Convert!Negative
  <2>2. CASE ~Convert!Negative
    BY <1>2, <2>2 DEF Convert!Written
  <2> QED
    BY <2>1, <2>2
<1> QED
  BY <1>2, <1>3

-----------------------------------------------------------------------------
(* STR$: the number n in base B.  d are the powers on the stack, x is the    *)
(* digit in X and r what is left of the number.                              *)

Places(B, d) ==
  /\ d \in Seq(Convert!Word \ {0}) /\ Len(d) \in 1..ConvertBits /\ d[Len(d)] = 1
  /\ \A i \in 1..(Len(d) - 1) : d[i] = B * d[i + 1]

\* While powers are stacked, the last of them, up to the number m, is known.
Scaling(m, B, d) ==
  /\ Places(B, d) /\ (d[1] <= m \/ d[1] = 1)
  /\ ConvertPower[Len(d) - 1] <= d[1]
  /\ \A j \in 1..4 :
       B = ConvertPower[j] =>
         \E e \in 0..ConvertBits : e = j * (Len(d) - 1) /\ d[1] = ConvertPower[e]

\* The digits so far have the value v, and there are l of them.
Writing(m, B, d, v, l, x, r) ==
  /\ Places(B, d) /\ l + Len(d) <= ConvertBits
  /\ m = (v * B + x) * d[1] + r
  /\ x * d[1] + r < B * d[1]
  /\ d[1] = 1 => x = 0
  /\ l = 0 => v = 0 /\ (m # 0 => d[1] <= m)

\* The powers on the stack, and those under the first.
LEMMA PlacesFacts ==
  ASSUME Convert!ConversionAssumption, NEW B \in Convert!Bases, NEW d, Places(B, d)
  PROVE  /\ Len(d) \in Nat \ {0} /\ Len(d) <= ConvertBits /\ d # <<>>
         /\ Head(d) = d[1] /\ d[1] \in Nat \ {0} /\ d[1] \in Convert!Word
         /\ Len(d) = 1 => d[1] = 1
         /\ d[1] # 1 => /\ Places(B, Tail(d)) /\ d[1] = B * Tail(d)[1]
                        /\ Len(Tail(d)) = Len(d) - 1 /\ Tail(d)[1] \in Nat \ {0}
<1>1. /\ d \in Seq(Convert!Word \ {0}) /\ Len(d) \in 1..ConvertBits /\ d[Len(d)] = 1
      /\ \A i \in 1..(Len(d) - 1) : d[i] = B * d[i + 1]
  BY DEF Places
<1>2. ConvertBits \in Nat /\ Convert!Word \ {0} \subseteq Nat \ {0}
  BY ConvertWords DEF Convert!Word
<1>3. /\ Len(d) \in Nat \ {0} /\ Len(d) <= ConvertBits /\ d # <<>> /\ Head(d) = d[1]
      /\ 1 \in 1..Len(d)
  <2>1. Len(d) \in Nat \ {0} /\ Len(d) <= ConvertBits /\ 1 \in 1..Len(d)
    BY <1>1, <1>2
  <2>2. d # <<>>
    <3>1. Len(<<>>) = 0
      OBVIOUS
    <3> QED
      BY <2>1, <3>1
  <2> QED
    BY <1>1, <2>1, <2>2
<1>4. d[1] \in Convert!Word \ {0} /\ d[1] \in Nat \ {0} /\ d[1] \in Convert!Word
  <2>1. d[1] \in Convert!Word \ {0}
    BY <1>1, <1>3, ElementType
  <2> QED
    BY <1>2, <2>1
<1>5. ASSUME d[1] # 1
      PROVE  /\ Places(B, Tail(d)) /\ d[1] = B * Tail(d)[1]
             /\ Len(Tail(d)) = Len(d) - 1 /\ Tail(d)[1] \in Nat \ {0}
  <2> DEFINE t == Tail(d)
             W == Convert!Word \ {0}
  <2>1. Len(d) >= 2
    BY <1>1, <1>3, <1>5
  <2>2. /\ t \in Seq(W) /\ Len(t) = Len(d) - 1
        /\ \A i \in 1..Len(t) : t[i] = d[i + 1]
    <3> HIDE DEF W
    <3>1. d \in Seq(W) /\ d # <<>>
      BY <1>1, <1>3 DEF W
    <3> QED
      BY <3>1
  <2> HIDE DEF t
  <2>3. Len(t) \in 1..ConvertBits /\ Len(t) \in Nat
    BY <1>2, <1>3, <2>1, <2>2
  <2>4. t[Len(t)] = 1
    <3>1. Len(t) \in 1..Len(t) /\ Len(t) + 1 = Len(d)
      BY <1>3, <2>2, <2>3
    <3> QED
      BY <1>1, <2>2, <3>1
  <2>5. ASSUME NEW i \in 1..(Len(t) - 1) PROVE t[i] = B * t[i + 1]
    <3>1. i \in 1..Len(t) /\ i + 1 \in 1..Len(t) /\ i + 1 \in 1..(Len(d) - 1)
      BY <1>3, <2>2, <2>3
    <3>2. d[i + 1] = B * d[(i + 1) + 1]
      BY <1>1, <3>1
    <3>3. t[i] = d[i + 1] /\ t[i + 1] = d[(i + 1) + 1]
      BY <2>2, <3>1
    <3> QED
      BY <3>2, <3>3
  <2>6. d[1] = B * t[1] /\ t[1] \in W
    <3>1. 1 \in 1..(Len(d) - 1) /\ 1 \in 1..Len(t)
      BY <1>3, <2>1, <2>2
    <3>2. d[1] = B * d[1 + 1] /\ t[1] = d[1 + 1]
      BY <1>1, <2>2, <3>1
    <3>3. t[1] \in W
      BY <2>2, <3>1, ElementType
    <3> QED
      BY <3>2, <3>3
  <2>7. Places(B, t)
    BY <2>2, <2>3, <2>4, <2>5 DEF Places
  <2> QED
    BY <1>2, <2>2, <2>6, <2>7 DEF t
<1> QED
  BY <1>1, <1>3, <1>4, <1>5

\* Another power up to the number still has its place (str.asm:74-90).
LEMMA ScalingStep ==
  ASSUME Convert!ConversionAssumption, NEW B \in Convert!Bases,
         NEW m \in 0..Convert!Half, NEW d, Scaling(m, B, d), B * d[1] <= m
  PROVE  /\ Scaling(m, B, <<B * d[1]>> \o d) /\ (<<B * d[1]>> \o d)[1] = B * d[1]
         /\ B * d[1] \in Nat \ {0}
<1> DEFINE p == B * d[1]
           e == <<p>> \o d
           n == Len(d)
           W == Convert!Word \ {0}
<1>1. /\ d \in Seq(W) /\ n \in 1..ConvertBits /\ d[n] = 1
      /\ \A i \in 1..(n - 1) : d[i] = B * d[i + 1]
      /\ ConvertPower[n - 1] <= d[1]
  BY DEF Scaling, Places
<1>2. /\ ConvertBits \in Nat /\ ConvertBits >= 5 /\ Convert!Half \in Nat \ {0}
      /\ Convert!Top = 2 * Convert!Half /\ Convert!Half = ConvertPower[ConvertBits - 1]
      /\ \A i \in 0..ConvertBits : ConvertPower[i] \in Nat \ {0}
      /\ \A i \in 1..ConvertBits : ConvertPower[i] = 2 * ConvertPower[i - 1]
      /\ \A i, k \in 0..ConvertBits : i < k => ConvertPower[i] < ConvertPower[k]
  BY ConvertWords, ConvertPowers DEF Convert!Half
<1>3. /\ d[1] \in Nat \ {0} /\ n \in Nat \ {0} /\ n <= ConvertBits
      /\ B \in Nat /\ B >= 2
  <2>1. d[1] \in Nat \ {0} /\ n \in Nat \ {0} /\ n <= ConvertBits
    BY PlacesFacts DEF Scaling
  <2>2. B \in Nat /\ B >= 2
    BY DEF Convert!Bases
  <2> QED
    BY <2>1, <2>2
<1>4. p \in Nat \ {0} /\ 2 * d[1] <= p /\ p <= Convert!Half
  <2>1. d[1] * 2 <= d[1] * B /\ d[1] * B \in Nat
    BY <1>3, TimesMore
  <2>2. B * d[1] = d[1] * B /\ d[1] * 2 = 2 * d[1]
    BY <1>3
  <2>3. p \in Nat /\ 2 * d[1] <= p
    BY <2>1, <2>2
  <2>4. p # 0
    BY <1>3, <2>3
  <2>5. p <= Convert!Half
    BY <1>2, <2>3
  <2> QED
    BY <2>3, <2>4, <2>5
<1> HIDE DEF p
<1>5. p \in W
  BY <1>2, <1>4 DEF Convert!Word
<1>6. ConvertPower[n] <= p /\ n \in 0..(ConvertBits - 1)
  <2>1. n - 1 \in 0..ConvertBits /\ n \in 0..ConvertBits
    BY <1>2, <1>3
  <2>2. ConvertPower[n] = 2 * ConvertPower[n - 1] /\ ConvertPower[n - 1] \in Nat
    BY <1>1, <1>2, <2>1
  <2>3. ConvertPower[n] <= p
    BY <1>1, <1>3, <1>4, <2>2
  <2>4. ~(ConvertBits - 1 < n)
    <3>1. ConvertBits - 1 \in 0..ConvertBits
      BY <1>2
    <3>2. ConvertBits - 1 < n => ConvertPower[ConvertBits - 1] < ConvertPower[n]
      BY <1>2, <2>1, <3>1
    <3>3. ConvertPower[n] \in Nat
      BY <1>2, <2>1
    <3> QED
      BY <1>2, <1>4, <2>3, <3>2, <3>3
  <2> QED
    BY <1>2, <1>3, <2>3, <2>4
<1>7. /\ e \in Seq(W) /\ Len(e) = n + 1 /\ e[1] = p
      /\ \A i \in 1..n : e[i + 1] = d[i]
  <2> HIDE DEF W
  <2>1. \A i \in 1..(n + 1) : e[i] = IF i = 1 THEN p ELSE d[i - 1]
    BY <1>1, <1>5
  <2>2. e \in Seq(W) /\ Len(e) = n + 1
    BY <1>1, <1>5
  <2>3. e[1] = p
    BY <1>3, <2>1
  <2>4. ASSUME NEW i \in 1..n PROVE e[i + 1] = d[i]
    <3>1. i + 1 \in 1..(n + 1) /\ i + 1 # 1 /\ (i + 1) - 1 = i
      BY <1>3
    <3> QED
      BY <2>1, <3>1
  <2> QED
    BY <2>2, <2>3, <2>4
<1> HIDE DEF e
<1>8. Places(B, e)
  <2>1. Len(e) \in 1..ConvertBits /\ e[Len(e)] = 1
    <3>1. n \in 1..n /\ n + 1 \in 1..ConvertBits
      <4>1. ConvertBits \in Nat /\ n \in Nat \ {0} /\ n \in 0..(ConvertBits - 1)
        BY <1>2, <1>3, <1>6
      <4> HIDE DEF n
      <4> QED
        BY <4>1
    <3> QED
      BY <1>1, <1>7, <3>1
  <2>2. ASSUME NEW i \in 1..(Len(e) - 1) PROVE e[i] = B * e[i + 1]
    <3>1. i \in 1..n
      BY <1>3, <1>7
    <3>2. e[i + 1] = d[i]
      BY <1>7, <3>1
    <3>3. CASE i = 1
      BY <1>7, <3>2, <3>3 DEF p
    <3>4. CASE i # 1
      <4>1. i - 1 \in 1..(n - 1) /\ i - 1 \in 1..n /\ (i - 1) + 1 = i
        BY <1>3, <3>1, <3>4
      <4>2. e[(i - 1) + 1] = d[i - 1] /\ d[i - 1] = B * d[(i - 1) + 1]
        BY <1>1, <1>7, <4>1
      <4> QED
        BY <3>2, <4>1, <4>2
    <3> QED
      BY <3>3, <3>4
  <2> QED
    BY <1>7, <2>1, <2>2 DEF Places
<1>9. ASSUME NEW j \in 1..4, B = ConvertPower[j]
      PROVE  \E k \in 0..ConvertBits : k = j * (Len(e) - 1) /\ e[1] = ConvertPower[k]
  <2>1. PICK k \in 0..ConvertBits : k = j * (n - 1) /\ d[1] = ConvertPower[k]
    BY <1>9 DEF Scaling
  <2>2. p = ConvertPower[k] * ConvertPower[j]
    BY <1>3, <1>9, <2>1 DEF p
  <2>3. k + j \in 0..(ConvertBits - 1) /\ ConvertPower[k + j] = p
    BY <1>4, <2>2, PowerTimes
  <2>4. k + j = j * ((n + 1) - 1)
    BY <1>3, <2>1
  <2> QED
    BY <1>2, <1>7, <2>3, <2>4
<1>10. ConvertPower[Len(e) - 1] <= e[1] /\ e[1] <= m
  <2>1. Len(e) - 1 = n
    BY <1>3, <1>7
  <2> QED
    BY <1>6, <1>7, <2>1 DEF p
<1>11. Scaling(m, B, e)
  BY <1>8, <1>9, <1>10 DEF Scaling
<1> QED
  BY <1>4, <1>7, <1>11 DEF e, p

\* When no other power follows, the first digit is a digit of the base.
LEMMA WritingBegins ==
  ASSUME Convert!ConversionAssumption, NEW B \in Convert!Bases,
         NEW m \in 0..Convert!Half, NEW d, Scaling(m, B, d),
         \/ m < B * d[1]
         \/ /\ Convert!Overflows(d[1], B)
            /\ \A j \in 1..4 : m = Convert!Half /\ B = ConvertPower[j]
                                 => (ConvertBits - 1) % j # 0
  PROVE  Writing(m, B, d, 0, 0, 0, m)
<1>1. Places(B, d) /\ d[1] \in Nat \ {0} /\ B \in Nat /\ B >= 2
  <2>1. Places(B, d) /\ d[1] \in Nat \ {0}
    BY PlacesFacts DEF Scaling
  <2>2. B \in Nat /\ B >= 2
    BY DEF Convert!Bases
  <2> QED
    BY <2>1, <2>2
<1>2. /\ Convert!Half \in Nat \ {0} /\ Convert!Half = ConvertPower[ConvertBits - 1]
      /\ ConvertBits \in Nat /\ ConvertBits >= 5
      /\ \A i, k \in 0..ConvertBits : i < k => ConvertPower[i] < ConvertPower[k]
      /\ \A i \in 0..ConvertBits : ConvertPower[i] \in Nat \ {0}
  BY ConvertWords, ConvertPowers DEF Convert!Half
<1>3. m < B * d[1]
  <2> SUFFICES ASSUME ~(m < B * d[1]) PROVE FALSE
    OBVIOUS
  <2>1. B * d[1] \in Nat /\ B * d[1] = d[1] * B
    BY <1>1
  <2>2. Convert!Overflows(d[1], B) /\ Convert!Half <= d[1] * B
    BY <1>1, ScaledUp
  <2>3. m = Convert!Half /\ d[1] * B = Convert!Half
    BY <1>2, <2>1, <2>2
  <2>4. PICK j \in 1..4 : B = ConvertPower[j]
    BY <1>1, <2>2, <2>3, ScaledUp
  <2>5. PICK e \in 0..ConvertBits : e = j * (Len(d) - 1) /\ d[1] = ConvertPower[e]
    BY <2>4 DEF Scaling
  <2>6. e + j \in 0..(ConvertBits - 1) /\ ConvertPower[e + j] = Convert!Half
    <3>1. ConvertPower[e] * ConvertPower[j] = Convert!Half
      BY <2>3, <2>4, <2>5
    <3> QED
      BY <1>2, <3>1, PowerTimes
  <2>7. e + j = ConvertBits - 1
    <3>1. e + j \in 0..ConvertBits /\ ConvertBits - 1 \in 0..ConvertBits
      BY <1>2, <2>6
    <3>2. ~(e + j < ConvertBits - 1)
      BY <1>2, <2>6, <3>1
    <3> QED
      BY <1>2, <2>6, <3>1, <3>2
  <2>8. (ConvertBits - 1) % j = 0
    <3>1. PICK n \in Nat : n = Len(d)
      BY PlacesFacts DEF Scaling
    <3>2. ConvertBits - 1 = j * n
      BY <2>5, <2>7, <3>1
    <3>3. j = 1 \/ j = 2 \/ j = 3 \/ j = 4
      OBVIOUS
    <3>4. (j * n) % j = 0
      BY <3>1, <3>3
    <3> QED
      BY <3>2, <3>4
  <2> QED
    BY <2>2, <2>3, <2>4, <2>8
<1>4. d[1] <= m \/ d[1] = 1
  BY DEF Scaling
<1>5. (0 * B + 0) * d[1] + m = m /\ 0 * d[1] + m = m
  BY <1>1
<1>6. m # 0 => d[1] <= m
  BY <1>1, <1>4
<1>7. 0 + Len(d) <= ConvertBits
  BY <1>1, PlacesFacts
<1> QED
  BY <1>3, <1>1, <1>5, <1>6, <1>7 DEF Writing

\* One subtraction (str.asm:103-116).
LEMMA SubtractStep ==
  ASSUME Convert!ConversionAssumption, NEW B \in Convert!Bases, NEW m \in Nat,
         NEW d, NEW v \in Int, NEW l \in Nat, NEW x \in Nat, NEW r \in Nat,
         Writing(m, B, d, v, l, x, r), d[1] # 1, r >= d[1]
  PROVE  Writing(m, B, d, v, l, x + 1, r - d[1]) /\ r - d[1] \in Nat
<1>1. PICK h \in Nat \ {0} : h = d[1]
  BY PlacesFacts DEF Writing
<1>2. B \in Nat
  BY DEF Convert!Bases
<1>3. m = (v * B + x) * h + r /\ x * h + r < B * h
  BY <1>1 DEF Writing
<1>4. (v * B + (x + 1)) * h + (r - h) = m /\ (x + 1) * h + (r - h) = x * h + r
  <2>1. PICK w \in Int : w = v * B
    BY <1>2
  <2>2. (w + (x + 1)) * h = (w + x) * h + h /\ (x + 1) * h = x * h + h
    BY <1>1, <2>1
  <2>3. (w + x) * h \in Int /\ x * h \in Int
    BY <1>1, <2>1
  <2> QED
    BY <1>1, <1>3, <2>1, <2>2, <2>3
<1>5. (x + 1) * h + (r - h) < B * h
  BY <1>3, <1>4
<1>6. Places(B, d) /\ l + Len(d) <= ConvertBits
      /\ (l = 0 => v = 0 /\ (m # 0 => d[1] <= m))
  BY DEF Writing
<1>7. m = (v * B + (x + 1)) * d[1] + (r - d[1]) /\ (x + 1) * d[1] + (r - d[1]) < B * d[1]
      /\ r - d[1] \in Nat
  BY <1>1, <1>4, <1>5
<1> QED
  BY <1>6, <1>7, Zenon DEF Writing

\* A digit begins as nothing.
LEMMA Associates ==
  ASSUME NEW w \in Int, NEW B \in Nat, NEW t \in Nat
  PROVE  (w * B + 0) * t = w * (B * t) /\ \A r \in Nat : 0 * t + r = r
OBVIOUS

\* The digit is written, the next power taken (str.asm:118-121).
LEMMA WriteStep ==
  ASSUME Convert!ConversionAssumption, NEW B \in Convert!Bases, NEW m \in Nat,
         NEW d, NEW v \in Int, NEW l \in Nat, NEW x \in Nat, NEW r \in Nat,
         Writing(m, B, d, v, l, x, r), d[1] # 1, r < d[1]
  PROVE  /\ x \in 0..(B - 1) /\ (l = 0 /\ m # 0 => x # 0)
         /\ Writing(m, B, Tail(d), v * B + x, l + 1, 0, r)
<1>1. PICK h \in Nat \ {0} : h = d[1]
  BY PlacesFacts DEF Writing
<1>2. B \in Nat
  BY DEF Convert!Bases
<1>3. /\ Places(B, Tail(d)) /\ Len(Tail(d)) = Len(d) - 1 /\ Len(d) \in Nat
      /\ h = B * Tail(d)[1] /\ Tail(d)[1] \in Nat \ {0}
  BY <1>1, PlacesFacts DEF Writing
<1>4. PICK t \in Nat \ {0} : t = Tail(d)[1]
  BY <1>3
<1>5. m = (v * B + x) * h + r /\ x * h + r < B * h /\ r < h /\ h = B * t
  BY <1>1, <1>3, <1>4 DEF Writing
<1>6. x \in 0..(B - 1)
  <2>1. x * h = h * x /\ B * h = h * B /\ h * x \in Nat /\ h * B \in Nat
    BY <1>1, <1>2
  <2>2. B <= x => h * B <= h * x
    BY <1>1, <1>2, TimesMore
  <2>3. h * x < h * B
    BY <1>5, <2>1
  <2> QED
    BY <1>2, <2>1, <2>2, <2>3
<1>7. l = 0 => v = 0 /\ (m # 0 => h <= m)
  BY <1>1 DEF Writing
<1>8. l = 0 /\ m # 0 => x # 0
  <2>1. l = 0 /\ x = 0 => m = r
    <3>1. (0 * B + 0) * h + r = r
      BY <1>1, <1>2
    <3> QED
      BY <1>5, <1>7, <3>1
  <2> QED
    BY <1>1, <1>5, <1>7, <2>1
<1>9. m = ((v * B + x) * B + 0) * t + r /\ 0 * t + r < B * t
  <2>1. PICK w \in Int : w = v * B + x
    BY <1>2
  <2>2. (w * B + 0) * t = w * h
    BY <1>2, <1>5, <2>1, Associates
  <2>3. 0 * t + r = r
    BY Associates
  <2> QED
    BY <1>5, <2>1, <2>2, <2>3
<1>10. (l + 1) + Len(Tail(d)) <= ConvertBits
  <2>1. l + Len(d) <= ConvertBits /\ ConvertBits \in Nat
    BY ConvertWords DEF Writing
  <2>2. PICK n \in Nat : n = Len(d)
    BY <1>3
  <2>3. Len(Tail(d)) = n - 1 /\ l + n <= ConvertBits
    BY <1>3, <2>1, <2>2
  <2>4. (l + 1) + (n - 1) = l + n
    BY <2>2
  <2> QED
    BY <2>3, <2>4
<1>11. l + 1 # 0
  OBVIOUS
<1> QED
  BY <1>3, <1>4, <1>6, <1>8, <1>9, <1>10, <1>11 DEF Writing

\* What is left is the last digit (str.asm:97-101, 125).
LEMMA LastStep ==
  ASSUME Convert!ConversionAssumption, NEW B \in Convert!Bases, NEW m \in Nat,
         NEW d, NEW v \in Int, NEW l \in Nat, NEW x \in Nat, NEW r \in Nat,
         Writing(m, B, d, v, l, x, r), d[1] = 1
  PROVE  /\ r \in 0..(B - 1) /\ (l = 0 /\ m # 0 => r # 0)
         /\ m = v * B + r /\ l + 1 <= ConvertBits
<1>1. x = 0 /\ m = (v * B + x) * 1 + r /\ x * 1 + r < B * 1
  BY DEF Writing
<1>2. B \in Nat
  BY DEF Convert!Bases
<1>3. m = v * B + r /\ r < B
  <2>1. PICK w \in Int : w = v * B
    BY <1>2
  <2>2. (w + 0) * 1 = w /\ 0 * 1 = 0 /\ B * 1 = B
    BY <1>2, <2>1
  <2> QED
    BY <1>1, <2>1, <2>2
<1>4. l = 0 => v = 0
  BY DEF Writing
<1>5. l = 0 => m = r
  <2>1. 0 * B + r = r
    BY <1>2
  <2> QED
    BY <1>3, <1>4, <2>1
<1>6. l + 1 <= ConvertBits
  <2>1. l + Len(d) <= ConvertBits /\ ConvertBits \in Nat /\ Len(d) \in Nat \ {0}
    BY ConvertWords, PlacesFacts DEF Writing
  <2> QED
    BY <2>1
<1> QED
  BY <1>2, <1>3, <1>5, <1>6

-----------------------------------------------------------------------------
(* The invariant. *)

Value == Convert!Magnitude(numberS)

\* The sign, and digits of the base with no zero in front.
Signed ==
  /\ Convert!Negative <=> numberS >= Convert!Half
  /\ Convert!Written \in Seq(Marks(base))
  /\ Convert!Written # <<>> /\ numberS # 0 => Convert!Written[1] # 48

Complete ==
  /\ Convert!Written # <<>> /\ Convert!ValueIn(base, Convert!Written) = Value
  /\ Len(Convert!Written) <= ConvertBits

\* The characters that VAL( has passed.
Passed == pos - 1 - Sign
Reading ==
  /\ Convert!Written # <<>> /\ Passed \in 0..Len(Convert!Written)
  /\ ~Convert!BeyondF =>
       /\ \A i \in 1..Passed : Convert!Digits[i] \in Marks(base)
       /\ t1S = Convert!Wrap(Convert!ValueAlong(base, Convert!Digits)[Passed])

Typed ==
  /\ numberS \in Convert!Word \cup {Convert!NoNumber} /\ base \in Convert!Bases
  /\ numberS # Convert!NoNumber => <<numberS, base>> \in Cases
  /\ textS \in Seq(0..255)
  /\ t1S \in Convert!Word /\ t3 \in Convert!Word /\ digit \in Nat /\ pos \in Nat \ {0}
  /\ divisors \in Seq(Convert!Word \ {0})
  /\ labelS \in {"str", "scale", "digits", "val", "read", "done", "error"}

Converting ==
  /\ Typed
  /\ labelS \in {"str", "scale", "digits"} => numberS # Convert!NoNumber
  /\ labelS = "str" => textS = <<>> /\ digit = 0
  /\ labelS = "scale" =>
       /\ Scaling(Value, base, divisors) /\ t1S = base * divisors[1]
       /\ digit = 0 /\ t3 = Value /\ Convert!Written = <<>>
  /\ labelS = "digits" =>
       Writing(Value, base, divisors, Convert!ValueIn(base, Convert!Written),
               Len(Convert!Written), digit, t3)
  /\ numberS # Convert!NoNumber =>
       /\ labelS # "error" /\ (labelS = "done" => t1S = numberS)
       /\ labelS # "str" => Signed
       /\ labelS \in {"val", "read", "done"} => Complete
  /\ labelS = "read" => Reading
  /\ Convert!ValueRead

-----------------------------------------------------------------------------
(* The actions. *)

\* The number and its magnitude (str.asm:52-62).
LEMMA ConvertingFacts ==
  ASSUME Convert!ConversionAssumption, Converting, numberS # Convert!NoNumber
  PROVE  /\ numberS \in Convert!Word /\ base \in Convert!Bases /\ base \in 2..16
         /\ Value \in 0..Convert!Half /\ (numberS # 0 => Value # 0)
         /\ 0 \in Convert!Word /\ 1 \in Convert!Word /\ base \in Convert!Word
<1>1. numberS \in Convert!Word /\ base \in Convert!Bases /\ base \in 2..16
  BY DEF Converting, Typed, Convert!Bases
<1>2. /\ Convert!Top \in Nat \ {0} /\ Convert!Half \in Nat \ {0}
      /\ Convert!Top = 2 * Convert!Half /\ Convert!Half >= 16
  <2>1. /\ ConvertBits \in Nat /\ ConvertBits >= 5 /\ ConvertPower[4] = 16
        /\ \A i, k \in 0..ConvertBits : i < k => ConvertPower[i] < ConvertPower[k]
        /\ Convert!Half \in Nat
    BY ConvertWords, ConvertPowers
  <2>2. ConvertPower[ConvertBits - 1] >= 16
    <3>1. CASE ConvertBits = 5
      BY <2>1, <3>1
    <3>2. CASE ConvertBits # 5
      <4>1. 4 \in 0..ConvertBits /\ ConvertBits - 1 \in 0..ConvertBits
            /\ 4 < ConvertBits - 1
        BY <2>1, <3>2
      <4>2. ConvertPower[4] < ConvertPower[ConvertBits - 1]
            /\ ConvertPower[ConvertBits - 1] \in Nat
        BY <2>1, <4>1, ConvertWords
      <4> QED
        BY <2>1, <4>2
    <3> QED
      BY <3>1, <3>2
  <2> QED
    BY <2>2, ConvertWords DEF Convert!Half
<1>3. 0 \in Convert!Word /\ 1 \in Convert!Word /\ base \in Convert!Word
  BY <1>1, <1>2 DEF Convert!Word
<1>4. Value \in 0..Convert!Half /\ (numberS # 0 => Value # 0)
  BY <1>1, <1>2 DEF Value, Convert!Magnitude, Convert!Word
<1> QED
  BY <1>1, <1>3, <1>4

\* What is there when a conversion to a string goes on.
LEMMA ConvertingStr ==
  ASSUME Typed', UNCHANGED <<numberS, base>>, numberS # Convert!NoNumber,
         labelS' \in {"scale", "digits", "val"},
         labelS' = "scale" =>
           /\ Scaling(Value, base, divisors') /\ t1S' = base * divisors'[1]
           /\ digit' = 0 /\ t3' = Value /\ Convert!Written' = <<>>,
         labelS' = "digits" =>
           Writing(Value, base, divisors', Convert!ValueIn(base, Convert!Written'),
                   Len(Convert!Written'), digit', t3'),
         Signed', labelS' = "val" => Complete'
  PROVE  Converting'
<1>1. numberS' = numberS /\ base' = base /\ Value' = Value
  BY DEF Value, Convert!Magnitude
<1>2. (Scaling(Value, base, divisors))' = Scaling(Value, base, divisors')
  BY <1>1 DEF Scaling, Places
<1>3. (Writing(Value, base, divisors, Convert!ValueIn(base, Convert!Written),
               Len(Convert!Written), digit, t3))'
        = Writing(Value, base, divisors', Convert!ValueIn(base, Convert!Written'),
                  Len(Convert!Written'), digit', t3')
  BY <1>1 DEF Writing, Places, Convert!ValueIn, Convert!ValueAlong
<1>4. Convert!ValueRead'
  BY <1>1 DEF Convert!ValueRead
<1>5. labelS' # "str" /\ labelS' # "read" /\ labelS' # "done" /\ labelS' # "error"
  OBVIOUS
<1> QED
  BY <1>1, <1>2, <1>3, <1>4, <1>5 DEF Converting

\* 1 is the first power (str.asm:46-70).
LEMMA StrBeginsStep ==
  ASSUME Convert!ConversionAssumption, Converting, Convert!StrBegins
  PROVE  Converting'
<1>1. /\ labelS = "str" /\ numberS # Convert!NoNumber /\ textS = <<>> /\ digit = 0
      /\ UNCHANGED <<numberS, base>> /\ labelS' = "scale" /\ divisors' = <<1>>
      /\ t1S' = base /\ t3' = Value /\ digit' = digit /\ pos' = pos
      /\ textS' = IF numberS >= Convert!Half THEN <<45>> ELSE <<>>
  BY DEF Converting, Convert!StrBegins, Convert!given, Value, Convert!Minus
<1>2. /\ numberS \in Convert!Word /\ base \in Convert!Bases /\ base \in 2..16
      /\ Value \in 0..Convert!Half
      /\ 0 \in Convert!Word /\ 1 \in Convert!Word /\ base \in Convert!Word
  BY <1>1, ConvertingFacts
<1>3. (Convert!Negative' <=> numberS >= Convert!Half) /\ Convert!Written' = <<>>
  <2>1. CASE numberS >= Convert!Half
    <3>1. textS' = <<45>>
      BY <1>1, <2>1
    <3>2. textS' # <<>> /\ Head(textS') = 45 /\ Tail(textS') = <<>>
      BY <3>1
    <3> QED
      BY <2>1, <3>2 DEF Convert!Negative, Convert!Written, Convert!Minus
  <2>2. CASE ~(numberS >= Convert!Half)
    BY <1>1, <2>2 DEF Convert!Negative, Convert!Written
  <2> QED
    BY <2>1, <2>2
<1>4. Scaling(Value, base, <<1>>) /\ base * <<1>>[1] = base
  <2>1. Places(base, <<1>>)
    <3>1. <<1>> \in Seq(Convert!Word \ {0}) /\ Len(<<1>>) = 1 /\ <<1>>[1] = 1
      BY <1>2
    <3>2. 1 \in 1..ConvertBits /\ 1..(1 - 1) = {}
      BY ConvertWords
    <3> QED
      BY <3>1, <3>2 DEF Places
  <2>2. ASSUME NEW j \in 1..4
        PROVE  \E e \in 0..ConvertBits :
                 e = j * (Len(<<1>>) - 1) /\ <<1>>[1] = ConvertPower[e]
    <3>1. 0 \in 0..ConvertBits /\ 0 = j * (1 - 1) /\ 1 = ConvertPower[0]
      BY ConvertWords
    <3> QED
      BY <3>1
  <2>3. ConvertPower[Len(<<1>>) - 1] <= <<1>>[1]
    <3>1. Len(<<1>>) - 1 = 0 /\ ConvertPower[0] = 1 /\ <<1>>[1] = 1
      BY ConvertWords
    <3> QED
      BY <3>1
  <2> QED
    BY <1>2, <2>1, <2>2, <2>3 DEF Scaling
<1>5. Signed'
  <2>1. <<>> \in Seq(Marks(base'))
    OBVIOUS
  <2>2. Convert!Half' = Convert!Half
    BY DEF Convert!Half
  <2> QED
    BY <1>1, <1>3, <2>1, <2>2 DEF Signed
<1>6. Typed'
  <2>1. Value \in Convert!Word
    BY <1>2, ConvertWords DEF Convert!Word
  <2>2. textS' \in Seq(0..255)
    <3>1. 45 \in 0..255 /\ <<>> \in Seq(0..255) /\ <<45>> = Append(<<>>, 45)
      OBVIOUS
    <3>2. <<45>> \in Seq(0..255)
      BY <3>1, AppendType
    <3> QED
      BY <1>1, <3>1, <3>2
  <2>3. divisors' \in Seq(Convert!Word \ {0})
    BY <1>1, <1>2
  <2> QED
    BY <1>1, <1>2, <2>1, <2>2, <2>3 DEF Converting, Typed, Convert!NoNumber, Convert!Word
<1> QED
  BY <1>1, <1>3, <1>4, <1>5, <1>6, ConvertingStr

\* The written part does not change.
LEMMA SameText ==
  ASSUME textS' = textS, UNCHANGED <<numberS, base>>
  PROVE  /\ Convert!Written' = Convert!Written /\ (Convert!Negative' <=> Convert!Negative)
         /\ (Signed' <=> Signed) /\ Value' = Value /\ Sign' = Sign
         /\ (Complete' <=> Complete) /\ Convert!Digits' = Convert!Digits
         /\ (Convert!BeyondF' <=> Convert!BeyondF)
BY DEF Convert!Written, Convert!Negative, Signed, Value, Convert!Magnitude, Sign, Complete,
       Convert!Digits, Convert!LowerCase, Convert!BeyondF, Convert!ValueIn, Convert!ValueAlong

\* Powers are stacked until one is above the number or overflows (str.asm:74-90).
LEMMA ScaleStep ==
  ASSUME Convert!ConversionAssumption, Convert!Readable, Converting,
         Convert!Scale \/ Convert!Scaled
  PROVE  Converting'
<1>1. /\ labelS = "scale" /\ numberS # Convert!NoNumber
      /\ Scaling(Value, base, divisors) /\ t1S = base * divisors[1]
      /\ digit = 0 /\ t3 = Value /\ Convert!Written = <<>> /\ Signed /\ Typed
  BY DEF Converting, Convert!Scale, Convert!Scaled
<1>2. /\ UNCHANGED <<numberS, base>> /\ textS' = textS /\ t3' = t3 /\ digit' = digit
      /\ pos' = pos
  BY DEF Convert!Scale, Convert!Scaled, Convert!given
<1>3. /\ numberS \in Convert!Word /\ base \in Convert!Bases /\ base \in 2..16
      /\ Value \in 0..Convert!Half
  BY <1>1, ConvertingFacts
<1>4. Convert!Written' = <<>> /\ Signed'
  BY <1>1, <1>2, SameText
<1>5. Convert!ValueIn(base, <<>>) = 0 /\ Len(<<>>) = 0
  <2>1. base \in Int /\ <<>> \in Seq(Int) /\ 0 \in Int
    BY <1>3
  <2> QED
    BY <2>1, ValueOfMore
<1>6. ASSUME NEW j \in 1..4, Value = Convert!Half, base = ConvertPower[j]
      PROVE  (ConvertBits - 1) % j # 0
  <2>1. numberS = Convert!Half
    BY <1>3, <1>6, ConvertWords DEF Value, Convert!Magnitude, Convert!Word
  <2>2. <<numberS, base>> \in Cases
    BY <1>1 DEF Typed
  <2>3. <<numberS, base>>[1] = numberS /\ <<numberS, base>>[2] = base
    OBVIOUS
  <2> QED
    BY <1>6, <2>1, <2>2, <2>3 DEF Convert!Readable
<1>7. CASE Convert!Scaled
  <2>1. Value < base * divisors[1]
    <3>1. ~(t3 >= t1S) /\ t1S \in Nat
      <4>1. ~(t3 >= t1S)
        BY <1>7 DEF Convert!Scaled, Convert!Reaches
      <4>2. t1S \in Convert!Word
        BY <1>1 DEF Typed
      <4> QED
        BY <4>1, <4>2, ConvertWords DEF Convert!Word
    <3> QED
      BY <1>1, <1>3, <3>1
  <2>2. Writing(Value, base, divisors, 0, 0, 0, Value)
    BY <1>1, <1>3, <2>1, WritingBegins
  <2>3. labelS' = "digits" /\ divisors' = divisors /\ t1S' = t1S
    BY <1>7 DEF Convert!Scaled
  <2>4. Typed'
    BY <1>1, <1>2, <2>3 DEF Typed
  <2> QED
    BY <1>1, <1>2, <1>4, <1>5, <2>2, <2>3, <2>4, ConvertingStr
<1>8. CASE Convert!Scale
  <2> DEFINE p == base * divisors[1]
             d == <<p>> \o divisors
  <2>1. /\ p <= Value /\ divisors' = d /\ t1S' = Convert!Wrap(p * base)
        /\ labelS' = IF Convert!Overflows(p, base) THEN "digits" ELSE "scale"
    <3>1. t3 >= t1S
      BY <1>8 DEF Convert!Scale, Convert!Reaches
    <3>2. t1S \in Nat
      BY <1>1, ConvertWords DEF Typed, Convert!Word
    <3> QED
      BY <1>1, <1>3, <1>8, <3>1, <3>2 DEF Convert!Scale
  <2>2. Scaling(Value, base, d) /\ d[1] = p /\ p \in Nat \ {0}
    BY <1>1, <1>3, <2>1, ScalingStep
  <2> HIDE DEF p, d
  <2>3. ~Convert!Overflows(p, base) => t1S' = base * d[1]
    <3>1. p * base = base * p
      BY <1>3, <2>2
    <3> QED
      BY <1>3, <2>1, <2>2, <3>1, ScaledUp
  <2>4. Convert!Overflows(p, base) => Writing(Value, base, d, 0, 0, 0, Value)
    BY <1>3, <1>6, <2>2, WritingBegins
  <2>5. Typed'
    <3>1. t1S' \in Convert!Word
      <4>1. p * base \in Int
        BY <1>3, <2>2
      <4> QED
        BY <2>1, <4>1, ConvertWords
    <3>2. divisors' \in Seq(Convert!Word \ {0})
      BY <2>1, <2>2 DEF Scaling, Places
    <3> QED
      BY <1>1, <1>2, <2>1, <3>1, <3>2 DEF Typed
  <2> QED
    BY <1>1, <1>2, <1>4, <1>5, <2>1, <2>2, <2>3, <2>4, <2>5, ConvertingStr
<1> QED
  BY <1>7, <1>8

\* A sequence of some things is one of more.
LEMMA SeqOfMore ==
  ASSUME NEW S, NEW T, S \subseteq T, NEW s \in Seq(S)
  PROVE  s \in Seq(T)
<1>1. Len(s) \in Nat /\ s \in [1..Len(s) -> S]
  OBVIOUS
<1>2. s \in [1..Len(s) -> T]
  BY <1>1
<1> QED
  BY <1>1, <1>2, FunctionIsSeq

\* The value when a digit is written (str.asm:118-151).
LEMMA DigitWritten ==
  ASSUME Convert!ConversionAssumption, Typed, Signed, UNCHANGED <<numberS, base>>,
         NEW x \in 0..(base - 1), textS' = Append(textS, Convert!Character(x)),
         Len(Convert!Written) = 0 /\ numberS # 0 => x # 0
  PROVE  /\ Signed' /\ textS' \in Seq(0..255)
         /\ Convert!Written \in Seq(0..255) /\ Convert!Written' # <<>>
         /\ Len(Convert!Written') = Len(Convert!Written) + 1
         /\ Convert!ValueIn(base, Convert!Written) \in Int
         /\ Convert!ValueIn(base, Convert!Written')
              = Convert!ValueIn(base, Convert!Written) * base + x
<1> DEFINE c == Convert!Character(x)
           w == Convert!Written
<1>1. base \in 2..16 /\ base \in Int /\ x \in 0..15 /\ x < base
  BY DEF Typed, Convert!Bases
<1>2. c \in 48..57 \cup 97..102 /\ c # 45 /\ Convert!DigitValue(c) = x /\ (c = 48 => x = 0)
  BY <1>1, MarkOf
<1> HIDE DEF c
<1>3. c \in 0..255 /\ c \in Int /\ c \in Marks(base)
  BY <1>1, <1>2 DEF Marks
<1>4. w \in Seq(0..255) /\ Convert!Half' = Convert!Half /\ textS \in Seq(0..255)
  BY TextFacts DEF Typed, Convert!Half
<1>5. /\ Convert!Negative' <=> Convert!Negative
      /\ Convert!Written' = Append(w, c) /\ textS' \in Seq(0..255)
  BY <1>2, <1>3, <1>4, OneCharacterMore DEF c
<1>6. w \in Seq(Marks(base)) /\ w \in Seq(Int)
  <2>1. 0..255 \subseteq Int
    OBVIOUS
  <2>2. w \in Seq(Int)
    BY <1>4, <2>1, SeqOfMore
  <2> QED
    BY <2>2 DEF Signed
<1> HIDE DEF w
<1>7. /\ Append(w, c) \in Seq(Marks(base)) /\ Append(w, c) # <<>>
      /\ Len(Append(w, c)) = Len(w) + 1
      /\ Append(w, c)[1] = IF w = <<>> THEN c ELSE w[1]
  <2> DEFINE S == Marks(base)
  <2>1. c \in S /\ w \in Seq(S)
    BY <1>3, <1>6
  <2> HIDE DEF S
  <2>2. /\ Append(w, c) \in Seq(S) /\ Append(w, c) # <<>>
        /\ Len(Append(w, c)) = Len(w) + 1
        /\ Append(w, c)[1] = IF w = <<>> THEN c ELSE w[1]
    BY <2>1
  <2> QED
    BY <2>2 DEF S
<1>8. numberS # 0 => Append(w, c)[1] # 48
  <2>1. CASE w = <<>>
    <3>1. Len(w) = 0
      BY <2>1
    <3> QED
      BY <1>2, <1>7, <2>1, <3>1 DEF w
  <2>2. CASE w # <<>>
    BY <1>7, <2>2 DEF Signed, w
  <2> QED
    BY <2>1, <2>2
<1>9. Signed'
  <2>1. Marks(base)' = Marks(base)
    BY DEF Marks
  <2> QED
    BY <1>4, <1>5, <1>7, <1>8, <2>1 DEF Signed, w
<1>10. /\ Convert!ValueIn(base, w) \in Int
       /\ Convert!ValueIn(base, Append(w, c)) = Convert!ValueIn(base, w) * base + x
  BY <1>1, <1>2, <1>3, <1>6, ValueOfMore
<1> QED
  BY <1>4, <1>5, <1>7, <1>9, <1>10 DEF w

\* What is there while digits are written.
LEMMA DigitsFacts ==
  ASSUME Convert!ConversionAssumption, Converting, labelS = "digits"
  PROVE  /\ numberS # Convert!NoNumber /\ Typed /\ Signed
         /\ base \in Convert!Bases /\ base \in Int
         /\ Value \in Nat /\ (numberS # 0 => Value # 0)
         /\ digit \in Nat /\ t3 \in Nat /\ t3 \in Convert!Word
         /\ Convert!ValueIn(base, Convert!Written) \in Int
         /\ Len(Convert!Written) \in Nat /\ Len(textS) <= Len(Convert!Written) + 1
         /\ Writing(Value, base, divisors, Convert!ValueIn(base, Convert!Written),
                    Len(Convert!Written), digit, t3)
         /\ Places(base, divisors) /\ Head(divisors) = divisors[1]
         /\ divisors[1] \in Nat \ {0}
<1>1. numberS # Convert!NoNumber /\ Typed /\ Signed
  BY DEF Converting
<1>2. /\ base \in Convert!Bases /\ base \in Int /\ Value \in Nat
      /\ (numberS # 0 => Value # 0)
  BY <1>1, ConvertingFacts, ConvertWords
<1>3. digit \in Nat /\ t3 \in Nat /\ t3 \in Convert!Word
  BY <1>1, ConvertWords DEF Typed, Convert!Word
<1>4. Writing(Value, base, divisors, Convert!ValueIn(base, Convert!Written),
              Len(Convert!Written), digit, t3)
  BY DEF Converting
<1>5. Convert!ValueIn(base, Convert!Written) \in Int
  <2>1. Convert!Written \in Seq(0..255) /\ 0..255 \subseteq Int
    BY <1>1, TextFacts DEF Typed
  <2> DEFINE w == Convert!Written
  <2> HIDE DEF w
  <2>2. w \in Seq(Int)
    <3>1. w \in Seq(0..255)
      BY <2>1 DEF w
    <3> QED
      BY <2>1, <3>1, SeqOfMore
  <2>3. 0 \in Int
    OBVIOUS
  <2> QED
    BY <1>2, <2>2, <2>3, ValueOfMore DEF w
<1>6. Len(Convert!Written) \in Nat /\ Len(textS) <= Len(Convert!Written) + 1
  <2>1. /\ Sign \in {0, 1} /\ Len(textS) = Len(Convert!Written) + Sign
        /\ Convert!Written \in Seq(0..255)
    BY <1>1, TextFacts DEF Typed
  <2>2. \A S : \A s \in Seq(S) : Len(s) \in Nat
    OBVIOUS
  <2>3. PICK n \in Nat : n = Len(Convert!Written)
    BY <2>1, <2>2
  <2> QED
    BY <2>1, <2>3
<1>7. /\ Places(base, divisors) /\ Head(divisors) = divisors[1]
      /\ divisors[1] \in Nat \ {0}
  <2>1. Places(base, divisors)
    BY <1>4 DEF Writing
  <2> QED
    BY <1>2, <2>1, PlacesFacts
<1> QED
  BY <1>1, <1>2, <1>3, <1>4, <1>5, <1>6, <1>7

\* The power goes into what is left once more (str.asm:103-116).
LEMMA SubtractKeeps ==
  ASSUME Convert!ConversionAssumption, Converting, Convert!Subtract
  PROVE  Converting'
<1>1. labelS = "digits"
  BY DEF Convert!Subtract
<1> USE <1>1, DigitsFacts
<1>2. /\ UNCHANGED <<numberS, base>> /\ textS' = textS /\ divisors' = divisors
      /\ labelS' = "digits" /\ t1S' = t1S /\ pos' = pos
      /\ digit' = digit + 1 /\ t3' = t3 - divisors[1]
      /\ divisors[1] # 1 /\ t3 >= divisors[1]
  BY DEF Convert!Subtract, Convert!given
<1>3. /\ Writing(Value, base, divisors, Convert!ValueIn(base, Convert!Written),
                 Len(Convert!Written), digit + 1, t3 - divisors[1])
      /\ t3 - divisors[1] \in Nat
  BY <1>2, SubtractStep
<1>4. Convert!Written' = Convert!Written /\ Signed'
  BY <1>2, SameText
<1>5. Typed'
  <2>1. t3' \in Convert!Word
    <3>1. t3 \in 0..(Convert!Top - 1) /\ Convert!Top \in Nat /\ divisors[1] \in Nat
      BY ConvertWords DEF Convert!Word
    <3>2. t3 - divisors[1] \in 0..(Convert!Top - 1)
      BY <1>3, <3>1
    <3> QED
      BY <1>2, <3>2 DEF Convert!Word
  <2> QED
    BY <1>2, <2>1 DEF Typed
<1> QED
  BY <1>2, <1>3, <1>4, <1>5, ConvertingStr

\* The power no longer goes in: its digit is written (str.asm:118-121).
LEMMA WriteDigitKeeps ==
  ASSUME Convert!ConversionAssumption, Converting, Convert!WriteDigit
  PROVE  Converting'
<1>1. labelS = "digits"
  BY DEF Convert!WriteDigit
<1> USE <1>1, DigitsFacts
<1>2. /\ UNCHANGED <<numberS, base>> /\ textS' = Append(textS, Convert!Character(digit))
      /\ divisors' = Tail(divisors) /\ labelS' = "digits" /\ t1S' = t1S /\ pos' = pos
      /\ digit' = 0 /\ t3' = t3 /\ divisors[1] # 1 /\ t3 < divisors[1]
  BY DEF Convert!WriteDigit, Convert!given
<1> DEFINE v == Convert!ValueIn(base, Convert!Written)
           l == Len(Convert!Written)
<1>3. /\ digit \in 0..(base - 1) /\ (l = 0 /\ Value # 0 => digit # 0)
      /\ Writing(Value, base, Tail(divisors), v * base + digit, l + 1, 0, t3)
  BY <1>2, WriteStep
<1>4. /\ Signed' /\ textS' \in Seq(0..255) /\ Len(Convert!Written') = l + 1
      /\ Convert!ValueIn(base, Convert!Written') = v * base + digit
  <2> HIDE DEF v
  <2>1. l = 0 /\ numberS # 0 => digit # 0
    BY <1>3
  <2> QED
    BY <1>2, <1>3, <2>1, DigitWritten DEF v
<1> HIDE DEF v, l
<1>5. Typed'
  <2>1. divisors' \in Seq(Convert!Word \ {0})
    BY <1>2, <1>3 DEF Writing, Places
  <2> QED
    BY <1>2, <1>4, <2>1 DEF Typed
<1> QED
  BY <1>2, <1>3, <1>4, <1>5, ConvertingStr

\* The last digit completes the string (str.asm:97-128).
LEMMA StrEndsStep ==
  ASSUME Convert!ConversionAssumption, Converting, Convert!StrEnds
  PROVE  Converting'
<1>1. labelS = "digits"
  BY DEF Convert!StrEnds
<1> USE <1>1, DigitsFacts
<1>2. /\ UNCHANGED <<numberS, base>> /\ textS' = Append(textS, Convert!Character(t3))
      /\ divisors' = <<>> /\ labelS' = "val" /\ t1S' = t1S /\ pos' = pos
      /\ digit' = digit /\ t3' = t3 /\ divisors[1] = 1
  BY DEF Convert!StrEnds, Convert!given
<1> DEFINE v == Convert!ValueIn(base, Convert!Written)
           l == Len(Convert!Written)
<1>3. /\ t3 \in 0..(base - 1) /\ (l = 0 /\ Value # 0 => t3 # 0)
      /\ Value = v * base + t3 /\ l + 1 <= ConvertBits
  BY <1>2, LastStep
<1>4. /\ Signed' /\ textS' \in Seq(0..255) /\ Len(Convert!Written') = l + 1
      /\ Convert!Written' # <<>>
      /\ Convert!ValueIn(base, Convert!Written') = v * base + t3
  <2> HIDE DEF v
  <2>1. l = 0 /\ numberS # 0 => t3 # 0
    BY <1>3
  <2> QED
    BY <1>2, <1>3, <2>1, DigitWritten DEF v
<1> HIDE DEF v, l
<1>5. Complete'
  <2>1. Value' = Value /\ ConvertBits' = ConvertBits
    BY <1>2 DEF Value, Convert!Magnitude
  <2>2. Convert!ValueIn(base, Convert!Written)' = Convert!ValueIn(base, Convert!Written')
    BY <1>2 DEF Convert!ValueIn, Convert!ValueAlong
  <2> QED
    BY <1>3, <1>4, <2>1, <2>2 DEF Complete
<1>6. Typed'
  <2>1. divisors' \in Seq(Convert!Word \ {0})
    BY <1>2
  <2> QED
    BY <1>2, <1>4, <2>1 DEF Typed
<1> QED
  BY <1>2, <1>4, <1>5, <1>6, ConvertingStr

\* What is there when a string is being read.
LEMMA ConvertingVal ==
  ASSUME Converting, Typed', UNCHANGED <<numberS, base, textS>>,
         labelS \in {"val", "read"}, labelS' \in {"read", "done", "error"},
         labelS' = "read" => Reading', Convert!ValueRead',
         numberS # Convert!NoNumber =>
           labelS' # "error" /\ (labelS' = "done" => t1S' = numberS)
  PROVE  Converting'
<1>1. /\ numberS' = numberS /\ base' = base
      /\ labelS' # "str" /\ labelS' # "scale" /\ labelS' # "digits"
      /\ labelS # "str" /\ Convert!NoNumber' = Convert!NoNumber
  BY DEF Convert!NoNumber
<1>2. (Signed' <=> Signed) /\ (Complete' <=> Complete)
  BY SameText
<1>3. numberS # Convert!NoNumber => Signed /\ Complete
  BY DEF Converting
<1> QED
  BY <1>1, <1>2, <1>3 DEF Converting

\* A numeral is a string of digits of the base.
LEMMA NumeralIs ==
  ASSUME NEW s, NEW B
  PROVE  Convert!Numeral(s, B) <=> s # <<>> /\ \A i \in DOMAIN s : s[i] \in Marks(B)
BY DEF Convert!Numeral, Marks

\* The characters of the string and what they stand for.
LEMMA TextRead ==
  ASSUME Typed
  PROVE  /\ base \in Convert!Bases /\ base \in Int /\ textS \in Seq(0..255)
         /\ Len(Convert!Written) \in Nat /\ Len(textS) = Len(Convert!Written) + Sign
         /\ Sign \in {0, 1}
         /\ (textS = <<>> \/ textS = <<45>> <=> Convert!Written = <<>>)
         /\ Convert!Digits \in Seq(Int) /\ Len(Convert!Digits) = Len(Convert!Written)
         /\ DOMAIN Convert!Digits = 1..Len(Convert!Written)
         /\ \A i \in 1..Len(Convert!Written) :
              /\ textS[i + Sign] \in 0..255 /\ i + Sign \in DOMAIN textS
              /\ Convert!Written[i] = textS[i + Sign]
              /\ Convert!Digits[i] = Lower(textS[i + Sign])
<1>1. textS \in Seq(0..255) /\ base \in Convert!Bases /\ base \in Int
  BY DEF Typed, Convert!Bases
<1>2. /\ Sign \in {0, 1} /\ Len(textS) = Len(Convert!Written) + Sign
      /\ Convert!Written \in Seq(0..255)
      /\ \A i \in 1..Len(Convert!Written) : Convert!Written[i] = textS[i + Sign]
      /\ (textS = <<>> \/ textS = <<45>> <=> Convert!Written = <<>>)
      /\ Convert!Digits \in Seq(Int) /\ Len(Convert!Digits) = Len(Convert!Written)
      /\ \A i \in 1..Len(Convert!Written) :
           Convert!Digits[i] = Lower(Convert!Written[i])
  BY <1>1, TextFacts
<1>3. \A S : \A s \in Seq(S) : /\ Len(s) \in Nat /\ DOMAIN s = 1..Len(s)
                               /\ \A i \in 1..Len(s) : s[i] \in S
  OBVIOUS
<1>4. PICK n \in Nat : n = Len(Convert!Written)
  BY <1>2, <1>3
<1>5. DOMAIN Convert!Digits = 1..n /\ DOMAIN textS = 1..(n + Sign)
  BY <1>1, <1>2, <1>3, <1>4
<1>6. ASSUME NEW i \in 1..n PROVE textS[i + Sign] \in 0..255 /\ i + Sign \in DOMAIN textS
  <2>1. i + Sign \in 1..Len(textS) /\ i + Sign \in 1..(n + Sign)
    BY <1>2, <1>4
  <2> QED
    BY <1>1, <1>5, <2>1, ElementType
<1> QED
  BY <1>1, <1>2, <1>4, <1>5, <1>6

\* A string that STR$ has made holds digits of the base.
LEMMA Plain ==
  ASSUME Typed, Signed
  PROVE  /\ ~Convert!BeyondF /\ Convert!Digits = Convert!Written
         /\ \A i \in 1..Len(Convert!Written) :
              Convert!Digits[i] \in Marks(base) /\ Lower(textS[i + Sign]) \in Marks(base)
<1> USE TextRead
<1>1. ASSUME NEW i \in 1..Len(Convert!Written)
      PROVE  /\ Convert!Written[i] \in Marks(base)
             /\ Lower(textS[i + Sign]) = Convert!Written[i]
             /\ Convert!UpperCase(textS[i + Sign]) \notin 71..90
  <2>1. Convert!Written[i] \in Marks(base)
    BY ElementType DEF Signed
  <2> QED
    BY <2>1, MarksAre
<1>2. Convert!Digits = Convert!Written
  <2>1. /\ \A i \in 1..Len(Convert!Written) : Convert!Digits[i] = Convert!Written[i]
        /\ Convert!Written \in Seq(Marks(base))
    BY <1>1 DEF Signed
  <2> DEFINE d == Convert!Digits
             w == Convert!Written
  <2>2. d \in Seq(Int) /\ w \in Seq(Marks(base)) /\ Len(d) = Len(w)
        /\ \A i \in 1..Len(w) : d[i] = w[i]
    BY <2>1
  <2> HIDE DEF d, w
  <2>3. d = [i \in 1..Len(d) |-> d[i]] /\ w = [i \in 1..Len(w) |-> w[i]]
    BY <2>2
  <2>4. d = w
    BY <2>2, <2>3
  <2> QED
    BY <2>4 DEF d, w
<1>3. ASSUME NEW i \in DOMAIN textS, Convert!UpperCase(textS[i]) \in 71..90 PROVE FALSE
  <2>1. i \in 1..Len(textS)
    <3>1. \A S : \A s \in Seq(S) : DOMAIN s = 1..Len(s)
      OBVIOUS
    <3> QED
      BY <3>1
  <2>2. PICK n \in Nat : n = Len(Convert!Written)
    OBVIOUS
  <2>3. CASE i > Sign
    <3>1. i - Sign \in 1..Len(Convert!Written) /\ (i - Sign) + Sign = i
      BY <2>1, <2>2, <2>3
    <3> QED
      BY <1>1, <1>3, <3>1
  <2>4. CASE ~(i > Sign)
    <3>1. i = 1 /\ Convert!Negative
      BY <2>1, <2>4 DEF Sign
    <3>2. textS[1] = 45
      BY <3>1 DEF Convert!Negative, Convert!Minus
    <3> QED
      BY <1>3, <3>1, <3>2 DEF Convert!UpperCase
  <2> QED
    BY <2>3, <2>4
<1>4. ~Convert!BeyondF
  BY <1>3 DEF Convert!BeyondF
<1> QED
  BY <1>1, <1>2, <1>4

\* VAL( passes the sign, or refuses an empty string (val.asm:71-92).
LEMMA ValBeginsStep ==
  ASSUME Convert!ConversionAssumption, Converting,
         Convert!ValBegins \/ Convert!ValEmpty
  PROVE  Converting'
<1>1. /\ labelS = "val" /\ UNCHANGED <<numberS, base, textS>> /\ Typed
      /\ t3' = t3 /\ divisors' = divisors /\ digit' = digit
  BY DEF Convert!ValBegins, Convert!ValEmpty, Convert!given, Converting
<1>2. /\ Convert!Written' = Convert!Written /\ Sign' = Sign
      /\ Convert!Digits' = Convert!Digits /\ (Convert!Negative' <=> Convert!Negative)
  BY <1>1, SameText
<1>3. Len(Convert!Written) \in Nat /\ Sign \in {0, 1}
      /\ (textS = <<>> \/ textS = <<45>> <=> Convert!Written = <<>>)
  BY <1>1, TextRead
<1>4. CASE Convert!ValBegins
  <2>1. /\ labelS' = "read" /\ t1S' = 0 /\ pos' = IF Convert!Negative THEN 2 ELSE 1
        /\ Convert!Written # <<>>
    BY <1>3, <1>4 DEF Convert!ValBegins, Convert!Minus
  <2>2. Passed' = 0
    BY <1>2, <2>1 DEF Passed, Sign
  <2>3. 0 \in Convert!Word /\ Convert!Wrap(0) = 0
    BY ConvertWords DEF Convert!Word
  <2>4. (Convert!ValueAlong(base, Convert!Digits))'[0] = 0
    <3>1. Convert!ValueAlong(base, Convert!Digits)[0] = 0
      BY <1>1, TextRead, ValueFacts
    <3> QED
      BY <1>1, <1>2, <3>1 DEF Convert!ValueAlong
  <2>5. Reading'
    <3>1. 1..0 = {} /\ 0 \in 0..Len(Convert!Written)
      BY <1>3
    <3>2. Convert!Wrap(0)' = Convert!Wrap(0)
      BY DEF Convert!Wrap, Convert!Top
    <3> QED
      BY <1>2, <2>1, <2>2, <2>3, <2>4, <3>1, <3>2 DEF Reading
  <2>6. Typed'
    BY <1>1, <2>1, <2>3 DEF Typed
  <2>7. Convert!ValueRead'
    BY <2>1 DEF Convert!ValueRead
  <2> QED
    BY <1>1, <2>1, <2>5, <2>6, <2>7, ConvertingVal
<1>5. CASE Convert!ValEmpty
  <2>1. /\ labelS' = "error" /\ t1S' = t1S /\ pos' = pos /\ Convert!Written = <<>>
    BY <1>3, <1>5 DEF Convert!ValEmpty, Convert!Minus
  <2>2. ~(numberS # Convert!NoNumber)
    BY <1>1, <2>1 DEF Converting, Complete
  <2>3. ~Convert!Numeral(Convert!Digits, base)
    <3>1. Len(Convert!Digits) = 0 /\ Convert!Digits \in Seq(Int)
      BY <1>1, <2>1, TextRead
    <3>2. \A s \in Seq(Int) : Len(s) = 0 => s = <<>>
      OBVIOUS
    <3> QED
      BY <3>1, <3>2, NumeralIs
  <2>4. Convert!ValueRead'
    <3>1. Convert!Numeral(Convert!Digits, base)' <=> Convert!Numeral(Convert!Digits, base)
      BY <1>1, <1>2 DEF Convert!Numeral
    <3> QED
      BY <2>1, <2>3, <3>1 DEF Convert!ValueRead
  <2>5. Typed'
    BY <1>1, <2>1 DEF Typed
  <2> QED
    BY <1>1, <2>1, <2>2, <2>4, <2>5, ConvertingVal
<1> QED
  BY <1>4, <1>5

\* One more character multiplies the value and adds its own, or ends it (val.asm:96-129).
LEMMA ReadStep ==
  ASSUME Convert!ConversionAssumption, Converting, Convert!ValStep
  PROVE  Converting'
<1> DEFINE c == Convert!UpperCase(textS[pos])
           l == Lower(textS[pos])
           i == Passed + 1
           n == Len(Convert!Written)
           v == Convert!ValueAlong(base, Convert!Digits)
           Accepted == Taken(c, base)
<1>1. /\ labelS = "read" /\ UNCHANGED <<numberS, base, textS>> /\ Typed /\ Reading
      /\ t3' = t3 /\ divisors' = divisors /\ digit' = digit /\ pos <= Len(textS)
  BY DEF Convert!ValStep, Convert!given, Converting
<1>2. IF Accepted
      THEN /\ t1S' = Convert!Wrap(t1S * base + Convert!DigitOf(c)) /\ pos' = pos + 1
           /\ labelS' = "read"
      ELSE labelS' = "error" /\ t1S' = t1S /\ pos' = pos
  BY <1>1 DEF Convert!ValStep, Convert!Following, Taken
<1>3. /\ Convert!Written' = Convert!Written /\ Sign' = Sign /\ Convert!Digits' = Convert!Digits
      /\ (Convert!BeyondF' <=> Convert!BeyondF)
  BY <1>1, SameText
<1>4. /\ base \in Convert!Bases /\ base \in 2..16 /\ n \in Nat /\ Len(textS) = n + Sign
      /\ Sign \in {0, 1} /\ pos \in Nat /\ t1S \in Convert!Word /\ t1S \in Int
  <2>1. base \in 2..16 /\ pos \in Nat /\ t1S \in Convert!Word /\ t1S \in Int
    BY <1>1, ConvertWords DEF Typed, Convert!Bases, Convert!Word
  <2> QED
    BY <1>1, <2>1, TextRead
<1>5. i \in 1..n /\ i + Sign = pos /\ Passed = i - 1 /\ i - 1 \in 0..n
  <2>1. Passed \in 0..n
    BY <1>1 DEF Reading
  <2> QED
    BY <1>1, <1>4, <2>1 DEF Passed
<1>6. /\ textS[pos] \in 0..255 /\ pos \in DOMAIN textS /\ Convert!Digits[i] = l
      /\ Convert!Digits \in Seq(Int) /\ Len(Convert!Digits) = n
      /\ DOMAIN Convert!Digits = 1..n
  BY <1>1, <1>5, TextRead
<1>7. c \notin 71..90 =>
        /\ Accepted <=> l \in Marks(base)
        /\ l \in Marks(base) => Convert!DigitOf(c) = Convert!DigitValue(l)
  <2> SUFFICES ASSUME c \notin 71..90
               PROVE  /\ Accepted <=> l \in Marks(base)
                      /\ l \in Marks(base) => Convert!DigitOf(c) = Convert!DigitValue(l)
    OBVIOUS
  <2>1. base \in Convert!Bases /\ textS[pos] \in 0..255
    BY <1>4, <1>6
  <2> QED
    BY <2>1, CharacterRead
<1>8. ~Convert!BeyondF => c \notin 71..90
  BY <1>6 DEF Convert!BeyondF
<1>9. /\ v[i - 1] \in Int /\ v[i] = v[i - 1] * base + Convert!DigitValue(l)
  <2>1. base \in Int
    BY <1>4
  <2> QED
    BY <1>5, <1>6, <2>1, ValueFacts
<1> HIDE DEF c, l, i, n, v, Accepted
<1>10. CASE Accepted
  <2>1. /\ t1S' = Convert!Wrap(t1S * base + Convert!DigitOf(c)) /\ pos' = pos + 1
        /\ labelS' = "read"
    BY <1>2, <1>10
  <2>2. Passed' = i /\ i \in 0..n
    <3>1. pos + 1 - 1 - Sign = i
      BY <1>4, <1>5
    <3>2. i \in 0..n
      BY <1>5
    <3>3. Passed' = pos' - 1 - Sign'
      BY DEF Passed
    <3>4. pos' - 1 - Sign' = pos + 1 - 1 - Sign
      <4>1. Sign' = Sign /\ pos' = pos + 1
        BY <1>3, <2>1
      <4> QED
        BY <1>4, <4>1
    <3> QED
      BY <3>1, <3>2, <3>3, <3>4
  <2>3. Convert!DigitOf(c) \in Int
    <3>1. c \in 0..255
      BY <1>6 DEF c, Convert!UpperCase
    <3> QED
      BY <3>1 DEF Convert!DigitOf
  <2>4. Typed'
    <3>1. t1S' \in Convert!Word
      <4>1. t1S * base + Convert!DigitOf(c) \in Int
        BY <1>4, <2>3
      <4> QED
        BY <2>1, <4>1, ConvertWords
    <3> QED
      BY <1>1, <1>4, <2>1, <3>1 DEF Typed
  <2>5. ASSUME ~Convert!BeyondF
        PROVE  /\ \A k \in 1..i : Convert!Digits[k] \in Marks(base)
               /\ t1S' = Convert!Wrap(v[i])
    <3>1. l \in Marks(base) /\ Convert!DigitOf(c) = Convert!DigitValue(l)
      BY <1>7, <1>8, <1>10, <2>5
    <3>2. /\ \A k \in 1..Passed : Convert!Digits[k] \in Marks(base)
          /\ t1S = Convert!Wrap(v[i - 1])
      BY <1>1, <1>5, <2>5 DEF Reading, v
    <3>3. \A k \in 1..i : k = i \/ k \in 1..Passed
      BY <1>5
    <3>4. Convert!Wrap(Convert!Wrap(v[i - 1]) * base + Convert!DigitOf(c))
            = Convert!Wrap(v[i - 1] * base + Convert!DigitOf(c))
      <4>1. \A x, B, d \in Int :
              Convert!Wrap(Convert!Wrap(x) * B + d) = Convert!Wrap(x * B + d)
        BY WrappedDigit
      <4>2. base \in Int
        BY <1>4
      <4> QED
        BY <1>9, <2>3, <4>1, <4>2
    <3> QED
      BY <1>6, <1>9, <2>1, <3>1, <3>2, <3>3, <3>4
  <2>6. Reading'
    <3>1. (Convert!ValueAlong(base, Convert!Digits))' = v
      BY <1>1, <1>3 DEF v, Convert!ValueAlong
    <3>2. \A x : Convert!Wrap(x)' = Convert!Wrap(x')
      BY DEF Convert!Wrap, Convert!Top
    <3>3. Convert!Written # <<>>
      BY <1>1 DEF Reading
    <3>4. Marks(base)' = Marks(base)
      BY <1>1 DEF Marks
    <3>5. Passed' \in 0..Len(Convert!Written)
      BY <2>2 DEF n
    <3>6. (~Convert!BeyondF)' =>
            /\ (\A k \in 1..Passed : Convert!Digits[k] \in Marks(base))'
            /\ t1S' = Convert!Wrap(Convert!ValueAlong(base, Convert!Digits)[Passed])'
      BY <1>1, <1>3, <2>2, <2>5, <3>1, <3>2, <3>4
    <3> QED
      BY <1>3, <3>3, <3>5, <3>6 DEF Reading
  <2>7. Convert!ValueRead'
    BY <2>1 DEF Convert!ValueRead
  <2> QED
    BY <1>1, <2>1, <2>4, <2>6, <2>7, ConvertingVal
<1>11. CASE ~Accepted
  <2>1. labelS' = "error" /\ t1S' = t1S /\ pos' = pos
    BY <1>2, <1>11
  <2>2. ASSUME ~Convert!BeyondF PROVE l \notin Marks(base)
    BY <1>7, <1>8, <1>11, <2>2
  <2>3. ~(numberS # Convert!NoNumber)
    <3> SUFFICES ASSUME numberS # Convert!NoNumber PROVE FALSE
      OBVIOUS
    <3>1. Signed
      BY <1>1 DEF Converting
    <3>2. ~Convert!BeyondF /\ l \in Marks(base)
      BY <1>1, <1>5, <3>1, Plain DEF l, n
    <3> QED
      BY <2>2, <3>2
  <2>4. ~Convert!BeyondF => ~Convert!Numeral(Convert!Digits, base)
    BY <1>5, <1>6, <2>2, NumeralIs
  <2>5. Convert!ValueRead'
    <3>1. Convert!Numeral(Convert!Digits, base)' <=> Convert!Numeral(Convert!Digits, base)
      BY <1>1, <1>3 DEF Convert!Numeral
    <3> QED
      BY <1>3, <2>1, <2>4, <3>1 DEF Convert!ValueRead
  <2>6. Typed'
    BY <1>1, <2>1 DEF Typed
  <2> QED
    BY <1>1, <2>1, <2>3, <2>5, <2>6, ConvertingVal
<1> QED
  BY <1>10, <1>11

\* At the end the sign is put back (val.asm:130-143).
LEMMA ReadEnds ==
  ASSUME Convert!ConversionAssumption, Converting, Convert!ValEnds
  PROVE  Converting'
<1> DEFINE n == Len(Convert!Written)
           v == Convert!ValueIn(base, Convert!Digits)
<1>1. /\ labelS = "read" /\ UNCHANGED <<numberS, base, textS>> /\ Typed /\ Reading
      /\ t3' = t3 /\ divisors' = divisors /\ digit' = digit /\ pos > Len(textS)
      /\ labelS' = "done" /\ pos' = pos
      /\ t1S' = IF Convert!Negative THEN Convert!Wrap(-t1S) ELSE t1S
  BY DEF Convert!ValEnds, Convert!given, Converting
<1>2. /\ Convert!Digits' = Convert!Digits /\ (Convert!Negative' <=> Convert!Negative)
      /\ (Convert!BeyondF' <=> Convert!BeyondF)
  BY <1>1, SameText
<1>3. /\ n \in Nat /\ Len(textS) = n + Sign /\ Sign \in {0, 1} /\ pos \in Nat
      /\ t1S \in Convert!Word /\ t1S \in Int /\ base \in Int
      /\ Convert!Digits \in Seq(Int) /\ Len(Convert!Digits) = n
      /\ DOMAIN Convert!Digits = 1..n
  <2>1. pos \in Nat /\ t1S \in Convert!Word /\ t1S \in Int
    BY <1>1, ConvertWords DEF Typed, Convert!Word
  <2> QED
    BY <1>1, <2>1, TextRead
<1>4. Passed = n
  <2>1. Passed \in 0..n
    BY <1>1 DEF Reading
  <2> QED
    BY <1>1, <1>3, <2>1 DEF Passed
<1>5. v \in Int
  BY <1>3, ValueFacts DEF Convert!ValueIn
<1>6. v = Convert!ValueAlong(base, Convert!Digits)[n]
  BY <1>3 DEF Convert!ValueIn
<1> HIDE DEF n, v
<1>7. ~Convert!BeyondF => /\ \A k \in 1..n : Convert!Digits[k] \in Marks(base)
                          /\ t1S = Convert!Wrap(v)
  BY <1>1, <1>4, <1>6 DEF Reading
<1>8. ~Convert!BeyondF =>
        /\ Convert!Numeral(Convert!Digits, base)
        /\ t1S' = Convert!Wrap((IF Convert!Negative THEN -1 ELSE 1) * v)
  <2>1. Convert!Written # <<>>
    BY <1>1 DEF Reading
  <2>2. Convert!Digits # <<>>
    <3>1. Convert!Digits = <<>> => Convert!Written = <<>>
      <4>1. Convert!Digits = <<>> => n = 0
        <5>1. Len(<<>>) = 0
          OBVIOUS
        <5> QED
          BY <1>3, <5>1
      <4>2. Convert!Written \in Seq(0..255)
        BY <1>1, TextFacts DEF Typed
      <4>3. \A s \in Seq(0..255) : Len(s) = 0 => s = <<>>
        OBVIOUS
      <4> QED
        BY <4>1, <4>2, <4>3 DEF n
    <3> QED
      BY <2>1, <3>1
  <2>3. Convert!Wrap(-Convert!Wrap(v)) = Convert!Wrap(-v)
    BY <1>3, <1>5, WrappedDigit
  <2>4. (-1) * v = -v /\ 1 * v = v
    BY <1>5
  <2> QED
    BY <1>1, <1>3, <1>7, <2>2, <2>3, <2>4, NumeralIs
<1>9. ASSUME numberS # Convert!NoNumber PROVE t1S' = numberS
  <2>1. Signed /\ Complete
    BY <1>1, <1>9 DEF Converting
  <2>2. ~Convert!BeyondF /\ v = Value
    BY <1>1, <2>1, Plain DEF Complete, v
  <2>3. /\ numberS \in 0..(Convert!Top - 1) /\ Convert!Top \in Nat
        /\ Convert!Half \in Nat
    BY <1>1, <1>9, ConvertWords DEF Typed, Convert!Word
  <2>4. CASE numberS >= Convert!Half
    <3>1. t1S' = Convert!Wrap((-1) * v) /\ v = Convert!Top - numberS
      BY <1>8, <2>1, <2>2, <2>4 DEF Signed, Value, Convert!Magnitude
    <3>2. (-1) * v = numberS + (-1) * Convert!Top
      BY <2>3, <3>1
    <3>3. Convert!Wrap((-1) * v) = Convert!Wrap(numberS)
      <4>1. (-1) * v \in Int /\ numberS \in Int /\ -1 \in Int
        BY <1>5, <2>3
      <4> QED
        BY <3>2, <4>1, SameConverted
    <3> QED
      BY <2>3, <3>1, <3>3, ConvertWords DEF Convert!Word
  <2>5. CASE ~(numberS >= Convert!Half)
    <3>1. t1S' = Convert!Wrap(1 * v) /\ v = numberS
      BY <1>8, <2>1, <2>2, <2>5 DEF Signed, Value, Convert!Magnitude
    <3>2. 1 * v = numberS
      BY <1>5, <3>1
    <3> QED
      BY <2>3, <3>1, <3>2, ConvertWords DEF Convert!Word
  <2> QED
    BY <2>4, <2>5
<1>10. Convert!ValueRead'
  <2>1. Convert!Numeral(Convert!Digits, base)' <=> Convert!Numeral(Convert!Digits, base)
    BY <1>1, <1>2 DEF Convert!Numeral
  <2>2. Convert!ValueIn(base, Convert!Digits)' = v
    BY <1>1, <1>2 DEF Convert!ValueIn, Convert!ValueAlong, v
  <2>3. \A x : Convert!Wrap(x)' = Convert!Wrap(x')
    BY DEF Convert!Wrap, Convert!Top
  <2> QED
    BY <1>1, <1>2, <1>8, <2>1, <2>2, <2>3 DEF Convert!ValueRead
<1>11. Typed'
  <2>1. t1S' \in Convert!Word
    <3>1. -t1S \in Int
      BY <1>3
    <3> QED
      BY <1>1, <1>3, <3>1, ConvertWords
  <2> QED
    BY <1>1, <2>1 DEF Typed
<1> QED
  BY <1>1, <1>9, <1>10, <1>11, ConvertingVal

\* Before a conversion.
LEMMA ConvertingInit ==
  ASSUME Convert!ConversionAssumption, Convert!Init
  PROVE  Converting
<1>1. /\ Cases \subseteq Convert!Word \X Convert!Bases
      /\ \A s \in Texts : s[1] \in Seq(0..255) /\ s[2] \in Convert!Bases
  BY DEF Convert!ConversionAssumption
<1>2. 0 \in Convert!Word /\ Convert!NoNumber \notin Convert!Word
  BY ConvertWords DEF Convert!Word, Convert!NoNumber
<1>3. /\ t1S = 0 /\ t3 = 0 /\ divisors = <<>> /\ digit = 0 /\ pos = 1
  BY DEF Convert!Init
<1>4. <<>> \in Seq(0..255) /\ <<>> \in Seq(Convert!Word \ {0})
  OBVIOUS
<1>5. CASE labelS = "str"
  <2>1. PICK x \in Cases : numberS = x[1] /\ base = x[2] /\ textS = <<>>
    BY <1>5 DEF Convert!Init
  <2>2. x = <<numberS, base>> /\ numberS \in Convert!Word /\ base \in Convert!Bases
    BY <1>1, <2>1
  <2>3. Typed
    BY <1>2, <1>3, <1>4, <1>5, <2>1, <2>2 DEF Typed
  <2>4. Convert!ValueRead
    BY <1>5 DEF Convert!ValueRead
  <2> QED
    BY <1>2, <1>3, <1>5, <2>1, <2>2, <2>3, <2>4 DEF Converting
<1>6. CASE labelS # "str"
  <2>1. labelS = "val" /\ numberS = Convert!NoNumber
        /\ \E s \in Texts : textS = s[1] /\ base = s[2]
    BY <1>6 DEF Convert!Init
  <2>2. Typed
    BY <1>1, <1>2, <1>3, <1>4, <2>1 DEF Typed
  <2>3. Convert!ValueRead
    BY <2>1 DEF Convert!ValueRead
  <2> QED
    BY <2>1, <2>2, <2>3 DEF Converting
<1> QED
  BY <1>5, <1>6

\* No step breaks the invariant.
LEMMA ConvertingNext ==
  ASSUME Convert!ConversionAssumption, Convert!Readable, Converting,
         [Convert!Next]_(Convert!vars)
  PROVE  Converting'
<1>1. CASE UNCHANGED Convert!vars
  <2>1. UNCHANGED <<numberS, base, textS, t1S, t3, divisors, digit, pos, labelS>>
    BY <1>1 DEF Convert!vars, Convert!given
  <2>2. Typed' <=> Typed
    BY <2>1 DEF Typed
  <2>3. /\ Convert!Written' = Convert!Written /\ (Signed' <=> Signed) /\ Value' = Value
        /\ (Complete' <=> Complete) /\ Sign' = Sign /\ Convert!Digits' = Convert!Digits
        /\ (Convert!BeyondF' <=> Convert!BeyondF)
        /\ (Convert!Negative' <=> Convert!Negative)
    BY <2>1, SameText
  <2>4. Scaling(Value, base, divisors)' <=> Scaling(Value, base, divisors)
    BY <2>1, <2>3 DEF Scaling, Places
  <2>5. Writing(Value, base, divisors, Convert!ValueIn(base, Convert!Written),
                Len(Convert!Written), digit, t3)'
        <=> Writing(Value, base, divisors, Convert!ValueIn(base, Convert!Written),
                    Len(Convert!Written), digit, t3)
    BY <2>1, <2>3 DEF Writing, Places, Convert!ValueIn, Convert!ValueAlong
  <2>6. Reading' <=> Reading
    BY <2>1, <2>3 DEF Reading, Passed, Marks, Convert!ValueAlong
  <2>7. Convert!ValueRead' <=> Convert!ValueRead
    BY <2>1, <2>3 DEF Convert!ValueRead, Convert!Numeral, Convert!ValueIn, Convert!ValueAlong
  <2> QED
    BY <2>1, <2>2, <2>3, <2>4, <2>5, <2>6, <2>7 DEF Converting
<1>2. CASE Convert!Next
  BY <1>2, StrBeginsStep, ScaleStep, SubtractKeeps, WriteDigitKeeps, StrEndsStep,
     ValBeginsStep, ReadStep, ReadEnds DEF Convert!Next
<1> QED
  BY <1>1, <1>2

\* What the invariant says of the strings and numbers.
LEMMA ConvertingShows ==
  ASSUME Convert!ConversionAssumption, Converting
  PROVE  /\ Convert!TypeOK /\ Convert!DigitsKept /\ Convert!RoundTrip /\ Convert!ValueRead
<1>1. Typed /\ Convert!ValueRead /\ ConvertBits \in Nat /\ ConvertBits >= 5
  BY ConvertWords DEF Converting
<1>2. Convert!DigitsKept
  <2> SUFFICES ASSUME labelS = "digits" PROVE Convert!DigitsKept
    BY DEF Convert!DigitsKept
  <2> QED
    BY DigitsFacts DEF Convert!DigitsKept, Writing, Value
<1>3. Convert!RoundTrip
  <2> SUFFICES ASSUME numberS # Convert!NoNumber PROVE Convert!RoundTrip
    BY DEF Convert!RoundTrip
  <2>1. ASSUME labelS \in {"val", "done"}
        PROVE  /\ \A i \in DOMAIN Convert!Written :
                    Convert!DigitValue(Convert!Written[i]) \in 0..(base - 1)
               /\ numberS # 0 => Convert!Written[1] # 48
    <3>1. Signed /\ Complete /\ base \in Convert!Bases
      BY <1>1, <2>1 DEF Converting, Typed
    <3>2. \A S : \A s \in Seq(S) : \A i \in DOMAIN s : s[i] \in S
      OBVIOUS
    <3>3. \A i \in DOMAIN Convert!Written : Convert!Written[i] \in Marks(base)
      BY <3>1, <3>2 DEF Signed
    <3> QED
      BY <3>1, <3>3, MarksAre DEF Signed, Complete
  <2>2. labelS # "error" /\ (labelS = "done" => t1S = numberS)
    BY DEF Converting
  <2> QED
    BY <2>1, <2>2 DEF Convert!RoundTrip
<1>4. numberS # Convert!NoNumber => Len(textS) + 1 <= ConvertBits + 2
  <2> SUFFICES ASSUME numberS # Convert!NoNumber PROVE Len(textS) + 1 <= ConvertBits + 2
    OBVIOUS
  <2>1. PICK n \in Nat : n = Len(Convert!Written)
    BY <1>1, TextRead
  <2>2. Len(textS) = n + Sign /\ Sign \in {0, 1}
    BY <1>1, <2>1, TextRead
  <2>3. n <= ConvertBits
    <3>1. CASE labelS = "str"
      <4>1. Len(textS) = 0
        BY <3>1 DEF Converting
      <4> QED
        BY <1>1, <2>1, <2>2, <4>1
    <3>2. CASE labelS = "scale"
      <4>1. Len(Convert!Written) = 0
        BY <3>2 DEF Converting
      <4> QED
        BY <1>1, <2>1, <4>1
    <3>3. CASE labelS = "digits"
      <4>1. n + Len(divisors) <= ConvertBits /\ Places(base, divisors)
            /\ base \in Convert!Bases
        BY <2>1, <3>3, DigitsFacts DEF Writing
      <4>2. Len(divisors) \in Nat
        BY <4>1, PlacesFacts
      <4> QED
        BY <1>1, <4>1, <4>2
    <3>4. CASE labelS \in {"val", "read", "done"}
      BY <2>1, <3>4 DEF Converting, Complete
    <3> QED
      BY <1>1, <3>1, <3>2, <3>3, <3>4 DEF Converting, Typed
  <2> QED
    BY <1>1, <2>2, <2>3
<1>5. Convert!TypeOK
  BY <1>1, <1>4 DEF Convert!TypeOK, Typed
<1> QED
  BY <1>1, <1>2, <1>3, <1>5

\* str.asm:31-151, val.asm:67-150: for every width of the words, every number in
\* every base but for the least one in a base it is a power of: the string has the
\* digits of the number, is no longer than the space it gets, and reads as the
\* number again; and a string is read for what it says, or refused.
THEOREM StringsReadBack == MCSpec => []NumbersReadBack
<1> DEFINE Inv == routine = "conversion" => Converting
<1>0. Convert!ConversionAssumption /\ Convert!Readable
  BY MCNumbersAssumption
<1>1. MCInit => Inv
  BY <1>0, ConvertingInit DEF MCInit
<1>2. Inv /\ [MCNext]_allVars => Inv'
  <2> SUFFICES ASSUME Inv, [MCNext]_allVars PROVE Inv'
    OBVIOUS
  <2>1. routine' = routine /\ (routine = "conversion" => [Convert!Next]_(Convert!vars))
    BY DEF MCNext, allVars, converting, Convert!vars
  <2> QED
    BY <1>0, <2>1, ConvertingNext
<1>3. Inv => NumbersReadBack
  BY <1>0, ConvertingShows DEF NumbersReadBack
<1> QED
  BY <1>1, <1>2, <1>3, PTL DEF MCSpec
=============================================================================
