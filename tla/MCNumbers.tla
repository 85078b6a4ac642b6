----------------------------- MODULE MCNumbers -----------------------------
(***************************************************************************)
(* The routines behind numbers and strings in one processor, one at a      *)
(* time: Arithmetic and instances of four modules.  The routines that do   *)
(* not run rest where nothing is claimed.                                  *)
(*                                                                         *)
(* Arithmetic: all operands of Bits bits.  Conversion: every number of     *)
(* eight bits in every base but for the least one in base 2, which does    *)
(* not read back, and strings at the limits of the ranges.  Counting:      *)
(* every loop of five bits but for the steps zero and half the words.      *)
(* Comparison: pairs of two halves of two bits; strings the shorter of     *)
(* which has up to half of what a byte counts.  Substring: numbers on both *)
(* sides of every limit.                                                   *)
(***************************************************************************)
EXTENDS Arithmetic, Sequences

VARIABLE routine

MCPower == [i \in 0..Bits |-> 2^i]

----------------------------------------------------------------------------
(* STR$ and VAL(: Texts are the Strings of Conversion; the names of its      *)
(* variables that others have too end in S.                                 *)

CONSTANTS ConvertBits, ConvertPower, Cases, Texts
VARIABLES numberS, base, textS, t1S, t3, divisors, digit, pos, labelS
converting == <<numberS, base, textS, t1S, t3, divisors, digit, pos, labelS>>

\* Minus, digits and letters, and the characters next to them.
Characters == {45, 47, 48, 49, 57, 58, 64, 65, 70, 91, 97, 102, 123}
MCConvertPower == [i \in 0..ConvertBits |-> 2^i]
MCCases == ((0..255) \X (2..16)) \ {<<128, 2>>}
MCTexts == (UNION {[1..n -> Characters] : n \in 0..2}) \X {2, 10, 16}
Convert == INSTANCE Conversion WITH
  Bits <- ConvertBits, Power <- ConvertPower, Strings <- Texts,
  number <- numberS, text <- textS, t1 <- t1S, label <- labelS

ConversionRests ==
  /\ numberS = 0 /\ base = 0 /\ textS = <<>> /\ t1S = 0 /\ t3 = 0 /\ divisors = <<>>
  /\ digit = 0 /\ pos = 0 /\ labelS = "rests"

----------------------------------------------------------------------------
(* FOR ... NEXT: CountHalf is the Half and place the label of Counting. *)

CONSTANTS CountHalf, Loops
VARIABLES start, target, step, index, value, place
counting == <<start, target, step, index, value, place>>

MCLoops == (0..31) \X (0..31) \X ((0..31) \ {0, 16})
Count == INSTANCE Counting WITH Half <- CountHalf, label <- place

CountingRests ==
  start = 0 /\ target = 0 /\ step = 0 /\ index = 0 /\ value = 0 /\ place = "rests"

----------------------------------------------------------------------------
(* Comparisons: relation is the op of Comparison, Pairs are its Strings, and *)
(* the names of the other variables that others have too end in C.           *)

CONSTANTS HalfTop, ByteTop, Numbers, Pairs
VARIABLES relation, kind, leftC, rightC, carry, yC, countC, valueC, labelC
comparing == <<relation, kind, leftC, rightC, carry, yC, countC, valueC, labelC>>

HalfWords == (0..3) \X (0..3)
MCNumberPairs == HalfWords \X HalfWords
OfLength(l) == UNION {[1..n -> {1, 2}] : n \in l}
MCPairs ==
  (OfLength(0..4) \X OfLength(0..5)) \cup (OfLength(0..5) \X OfLength(0..4))
Compare == INSTANCE Comparison WITH
  Strings <- Pairs, op <- relation, left <- leftC, right <- rightC, y <- yC,
  count <- countC, value <- valueC, label <- labelC

ComparisonRests ==
  /\ relation = "rests" /\ kind = "rests" /\ leftC = 0 /\ rightC = 0 /\ carry = FALSE
  /\ yC = 0 /\ countC = 0 /\ valueC = FALSE /\ labelC = "rests"

\* Strings of whole characters, the shorter of two no longer than the count of
\* the loop can say (comparison.asm:213).
Countable ==
  /\ Pairs \subseteq Seq(Int) \X Seq(Int)
  /\ \A p \in Pairs : Len(p[1]) <= ByteTop \div 2 \/ Len(p[2]) <= ByteTop \div 2

----------------------------------------------------------------------------
(* Parts of strings: function is the op of Substring, text its s, number and *)
(* number1 its n and n1, from its first; names that others have end in P.    *)

CONSTANTS WordTop, CharTop, Strings, Counts
VARIABLES
  function, text, key, number, number1, from, countP, resultP, tries, yP, labelP
extracting ==
  <<function, text, key, number, number1, from, countP, resultP, tries, yP, labelP>>

MCStrings == UNION {[1..l -> {65, 66}] : l \in 0..5}
MCCounts == -1..7 \cup {15, 16, 63, 64}
Part == INSTANCE Substring WITH
  ByteTop <- CharTop, op <- function, s <- text, n <- number, n1 <- number1,
  first <- from, count <- countP, result <- resultP, y <- yP, label <- labelP

SubstringRests ==
  /\ function = "rests" /\ text = <<>> /\ key = <<>> /\ number = 0 /\ number1 = 0
  /\ from = 0 /\ countP = 0 /\ resultP = <<>> /\ tries = 0 /\ yP = 0 /\ labelP = "rests"

\* Strings of whole characters.
Writable == Strings \subseteq Seq(Int)

----------------------------------------------------------------------------
ASSUME MCNumbersAssumption ==
  /\ Convert!ConversionAssumption /\ Convert!Readable /\ Count!CountingAssumption
  /\ Compare!ComparisonAssumption /\ Countable
  /\ Part!SubstringAssumption /\ Writable

ArithmeticRests ==
  /\ op = "*" /\ left = 0 /\ right = 0 /\ a = 0 /\ b = 0
  /\ t1 = 0 /\ sign = 0 /\ count = 0 /\ label = "begin"

MCInit ==
  /\ routine \in {"arithmetic", "conversion", "counting", "comparison", "substring"}
  /\ IF routine = "arithmetic" THEN Init ELSE ArithmeticRests
  /\ IF routine = "conversion" THEN Convert!Init ELSE ConversionRests
  /\ IF routine = "counting" THEN Count!Init ELSE CountingRests
  /\ IF routine = "comparison" THEN Compare!Init ELSE ComparisonRests
  /\ IF routine = "substring" THEN Part!Init ELSE SubstringRests

allVars == <<routine, vars, converting, counting, comparing, extracting>>

MCNext ==
  /\ UNCHANGED routine
  /\ \/ /\ routine = "arithmetic" /\ Next
        /\ UNCHANGED <<converting, counting, comparing, extracting>>
     \/ /\ routine = "conversion" /\ Convert!Next
        /\ UNCHANGED <<vars, counting, comparing, extracting>>
     \/ /\ routine = "counting" /\ Count!Next
        /\ UNCHANGED <<vars, converting, comparing, extracting>>
     \/ /\ routine = "comparison" /\ Compare!Next
        /\ UNCHANGED <<vars, converting, counting, extracting>>
     \/ /\ routine = "substring" /\ Part!Next
        /\ UNCHANGED <<vars, converting, counting, comparing>>

MCSpec == MCInit /\ [][MCNext]_allVars

----------------------------------------------------------------------------
(* Properties of the routines. *)

\* STR$ and VAL( read each other's strings, digit by digit (str.asm, val.asm).
NumbersReadBack ==
  routine = "conversion" =>
    Convert!TypeOK /\ Convert!DigitsKept /\ Convert!RoundTrip /\ Convert!ValueRead

\* The body of a FOR loop is run for the values up to its target (for.asm).
CountsToTarget == routine = "counting" => Count!TypeOK /\ Count!CountsToTarget

\* Comparison, LEFT$, RIGHT$, MID$, INSTR and the shifts are what the generated
\* tests assert (comparison.asm, string.asm, instr.asm, arithmetic.asm).
OperatorsAsTested ==
  /\ ShiftsExact
  /\ routine = "comparison" => Compare!TypeOK /\ Compare!AsTested
  /\ routine = "substring" => Part!TypeOK /\ Part!AsTested
=============================================================================
