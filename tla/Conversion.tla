---------------------------- MODULE Conversion ----------------------------
(***************************************************************************)
(* STR$( and VAL( (str.asm, val.asm): an integer to a string in a base     *)
(* from 2 to 16, by subtracting the powers of the base that lie on the     *)
(* 65816 stack, and back, by multiplying.  PRINT, LIST and ASSERT use the  *)
(* first of them too.                                                      *)
(*                                                                         *)
(* Characters are their codes; a string of base 2 is the longest there is. *)
(***************************************************************************)
EXTENDS Integers, Sequences

CONSTANTS
  Bits,         \* of a long word
  Power,        \* [0..Bits -> powers of two]
  Cases,        \* numbers and bases, converted and read back
  Strings       \* strings and bases that VAL( is given

Top == Power[Bits]
Half == Power[Bits - 1]
Word == 0..(Top - 1)
Bases == 2..16      \* VALGetBase
Minus == 45

ConversionAssumption ==
  /\ Bits \in Nat /\ Bits >= 5
  /\ Power \in [0..Bits -> Nat \ {0}] /\ Power[0] = 1
  /\ \A i \in 1..Bits : Power[i] = 2 * Power[i - 1]
  /\ Cases \subseteq Word \X Bases
  /\ \A s \in Strings : s[1] \in Seq(0..255) /\ s[2] \in Bases

\* The least integer in a base of which its magnitude is a power does not read
\* back: its first digit would be the base (str.asm:87). Of 32 bits that is base 2.
Readable ==
  \A c \in Cases : \A j \in 1..4 :
    c[1] = Half /\ c[2] = Power[j] => (Bits - 1) % j # 0

Wrap(n) == n % Top
Magnitude(w) == IF w >= Half THEN Top - w ELSE w

VARIABLES
  number, base, \* what is converted, or NoNumber
  text,         \* the temp string
  t1,           \* DTemp1: the next power of the base, the result of VAL(
  t3,           \* DTemp3: what is left of the number
  divisors,     \* powers on the stack, the largest first
  digit,        \* X: how often the present power went in
  pos,          \* DTemp3 of VAL(: the next character
  label

vars == <<number, base, text, t1, t3, divisors, digit, pos, label>>
given == <<number, base>>
NoNumber == -1

Init ==
  /\ t1 = 0 /\ t3 = 0 /\ divisors = <<>> /\ digit = 0 /\ pos = 1
  /\ \/ /\ \E c \in Cases : number = c[1] /\ base = c[2]
        /\ text = <<>> /\ label = "str"
     \/ /\ number = NoNumber
        /\ \E s \in Strings : text = s[1] /\ base = s[2]
        /\ label = "val"

-----------------------------------------------------------------------------
(* MultiplyTemp1ByA shifts the multiplicand once more than it adds it, and   *)
(* counts a bit that falls out there as an overflow too.                     *)

Length(m) == CHOOSE k \in 0..Bits : Power[k] > m /\ \A j \in 0..(k - 1) : Power[j] <= m
Overflows(v, m) == v * Power[Length(m)] >= Top

\* ConvertToString: the sign, and 1 as the first power.
StrBegins ==
  /\ label = "str"
  /\ text' = IF number >= Half THEN <<Minus>> ELSE <<>>
  /\ t3' = Magnitude(number)
  /\ divisors' = <<1>> /\ t1' = base
  /\ label' = "scale"
  /\ UNCHANGED <<given, digit, pos>>

\* _CTSMultiplySubtractor: powers up to the number go onto the stack.
ReachesMore(n, p) == n > p   \* mutant
Reaches(n, p) == n >= p
Scale ==
  /\ label = "scale" /\ Reaches(t3, t1)
  /\ divisors' = <<t1>> \o divisors
  /\ t1' = Wrap(t1 * base)
  /\ label' = IF Overflows(t1, base) THEN "digits" ELSE "scale"
  /\ UNCHANGED <<given, text, t3, digit, pos>>

Scaled ==
  /\ label = "scale" /\ ~Reaches(t3, t1)
  /\ label' = "digits"
  /\ UNCHANGED <<given, text, t1, t3, divisors, digit, pos>>

\* _CTSSubLoop
Subtract ==
  /\ label = "digits" /\ Head(divisors) # 1 /\ t3 >= Head(divisors)
  /\ t3' = t3 - Head(divisors) /\ digit' = digit + 1
  /\ UNCHANGED <<given, text, t1, divisors, pos, label>>

\* CTSOutputHexDigit: 0 to 9, a to f.
Character(d) == IF d < 10 THEN 48 + d ELSE 87 + d

WriteDigit ==
  /\ label = "digits" /\ Head(divisors) # 1 /\ t3 < Head(divisors)
  /\ text' = Append(text, Character(digit))
  /\ digit' = 0 /\ divisors' = Tail(divisors)
  /\ UNCHANGED <<given, t1, t3, pos, label>>

\* _CTSExit: what is left is the last digit. The string is read back.
StrEnds ==
  /\ label = "digits" /\ Head(divisors) = 1
  /\ text' = Append(text, Character(t3))
  /\ divisors' = <<>> /\ label' = "val"
  /\ UNCHANGED <<given, t1, t3, digit, pos>>

-----------------------------------------------------------------------------
(* StringToInteger. *)

Negative == text # <<>> /\ Head(text) = Minus

ValBegins ==
  /\ label = "val" /\ ~(text = <<>> \/ text = <<Minus>>)
  /\ t1' = 0 /\ pos' = IF Negative THEN 2 ELSE 1
  /\ label' = "read"
  /\ UNCHANGED <<given, text, t3, divisors, digit>>

ValEmpty ==
  /\ label = "val" /\ (text = <<>> \/ text = <<Minus>>)
  /\ label' = "error"
  /\ UNCHANGED <<given, text, t1, t3, divisors, digit, pos>>

UpperCase(c) == IF c \in 97..122 THEN c - 32 ELSE c
IsDigit(c) == c \in 48..57
IsLetter(c) == c \in 65..90

\* The digit of a character: its lower four bits, with nine more for a letter.
DigitOf(c) == IF IsLetter(c) THEN (c + 9) % 16 ELSE c % 16

Following(p) == p + 1
\* The carries of multiplication and addition are not looked at.
ValStep ==
  /\ label = "read" /\ pos <= Len(text)
  /\ LET c == UpperCase(text[pos])
     IN IF (IsDigit(c) \/ IsLetter(c)) /\ DigitOf(c) < base
          THEN /\ t1' = Wrap(t1 * base + DigitOf(c))
               /\ pos' = Following(pos) /\ label' = label
          ELSE /\ label' = "error" /\ UNCHANGED <<t1, pos>>
  /\ UNCHANGED <<given, text, t3, divisors, digit>>

ValEnds ==
  /\ label = "read" /\ pos > Len(text)
  /\ t1' = IF Negative THEN Wrap(-t1) ELSE t1
  /\ label' = "done"
  /\ UNCHANGED <<given, text, t3, divisors, digit, pos>>

Next ==
  \/ StrBegins \/ Scale \/ Scaled \/ Subtract \/ WriteDigit \/ StrEnds
  \/ ValBegins \/ ValEmpty \/ ValStep \/ ValEnds

Spec == Init /\ [][Next]_vars

-----------------------------------------------------------------------------
(* Properties. *)

\* str.asm:43: the space the string gets is enough, sign and length byte
\* included.
TypeOK ==
  /\ number \in Word \cup {NoNumber} /\ base \in Bases
  /\ text \in Seq(0..255) /\ (number # NoNumber => Len(text) + 1 <= Bits + 2)
  /\ t1 \in Word /\ t3 \in Word /\ digit \in Nat /\ pos \in Nat \ {0}
  /\ divisors \in Seq(Word \ {0})
  /\ label \in {"str", "scale", "digits", "val", "read", "done", "error"}

\* What is written, what is in the present digit and what is left are the number
\* at every step, with the powers still on the stack as the places of the digits
\* to come (str.asm:94-125).
Written == IF Negative THEN Tail(text) ELSE text
DigitValue(c) == IF IsDigit(c) THEN c - 48 ELSE c - 87
ValueAlong(b, s) == LET sum[i \in 0..Len(s)] ==
                          IF i = 0 THEN 0 ELSE sum[i - 1] * b + DigitValue(s[i])
                    IN  sum
ValueIn(b, s) == ValueAlong(b, s)[Len(s)]
DigitsKept ==
  label = "digits" =>
    Magnitude(number) = (ValueIn(base, Written) * base + digit) * Head(divisors) + t3

\* test_functions.py asserts that VAL( of STR$( is the number again; its string
\* has digits of the base only, and no zero in front (str.asm, val.asm).
RoundTrip ==
  number # NoNumber =>
    /\ label # "error"
    /\ label = "done" => t1 = number
    /\ label \in {"val", "done"} =>
         /\ \A i \in DOMAIN Written : DigitValue(Written[i]) \in 0..(base - 1)
         /\ number # 0 => Written[1] # 48

\* VAL( gives the number that the characters mean in the base, modulo the word,
\* and an error for other strings; letters beyond F count as
\* their code's last four bits and nine.
Numeral(s, b) ==
  /\ s # <<>> /\ \A i \in DOMAIN s : s[i] \in 48..57 \cup 97..102
                                     /\ DigitValue(s[i]) < b
LowerCase(s) == [i \in DOMAIN s |-> IF IsLetter(s[i]) THEN s[i] + 32 ELSE s[i]]
Digits == LowerCase(Written)
BeyondF == \E i \in DOMAIN text : UpperCase(text[i]) \in 71..90
ValueRead ==
  ~BeyondF /\ number = NoNumber =>
    /\ label = "done" => /\ Numeral(Digits, base)
                         /\ t1 = Wrap((IF Negative THEN -1 ELSE 1)
                                        * ValueIn(base, Digits))
    /\ label = "error" => ~Numeral(Digits, base)
=============================================================================
