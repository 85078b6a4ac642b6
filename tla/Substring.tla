----------------------------- MODULE Substring -----------------------------
(***************************************************************************)
(* LEFT$, RIGHT$, MID$ and INSTR (unary/string.asm, unary/instr.asm): the  *)
(* checks of the parameters, the arithmetic that picks the characters, and *)
(* the search.  The parameters have been evaluated; of an integer the high *)
(* word only has to be zero, so that a negative one is none.               *)
(***************************************************************************)
EXTENDS Integers, Sequences

CONSTANTS
  WordTop,      \* 2^16
  ByteTop,      \* 256
  Strings,
  Counts        \* integers

None == -2 * WordTop    \* the second number of MID$ left out

SubstringAssumption ==
  /\ ByteTop \in Nat /\ WordTop \in Nat /\ 1 < ByteTop /\ ByteTop < WordTop
  /\ \A s \in Strings : Len(s) < ByteTop
  /\ Counts \subseteq Int /\ None \notin Counts

VARIABLES
  op, s,        \* the function and its string
  key,          \* what INSTR searches for
  n, n1,        \* the numbers
  first, count, \* the characters to be copied: Y and DTemp1
  result,       \* the new string, or the position that INSTR is at
  tries,        \* DTemp3 of INSTR
  y,
  label

vars == <<op, s, key, n, n1, first, count, result, tries, y, label>>
given == <<op, s, key, n, n1>>
numbers == <<first, count>>

Init ==
  /\ s \in Strings
  /\ \/ op \in {"left", "right"} /\ n \in Counts /\ n1 = None /\ key = <<>>
     \/ op = "mid" /\ n \in Counts /\ n1 \in Counts \cup {None} /\ key = <<>>
     \/ op = "instr" /\ key \in Strings /\ n = 0 /\ n1 = None
  /\ first = 0 /\ count = 0 /\ tries = 0 /\ y = 0
  /\ result = IF op = "instr" THEN 0 ELSE <<>>
  /\ label = "start"

Fits(i) == i \in 0..(WordTop - 1)    \* "can't be high"

BadString ==
  /\ label = "start"
  /\ \/ op \in {"left", "right", "mid"} /\ ~Fits(n)
     \/ op = "mid" /\ n = 0
     \/ op = "mid" /\ n1 # None /\ ~Fits(n1)
  /\ label' = "error"
  /\ UNCHANGED <<given, numbers, result, tries, y>>

\* The whole string is returned, not a copy of it.
Whole == result' = s /\ label' = "done" /\ UNCHANGED numbers
Empty == result' = <<>> /\ label' = "done" /\ UNCHANGED numbers
Copy(i, c) ==
  IF c = 0 THEN Empty
  ELSE first' = i /\ count' = c /\ label' = "copy" /\ result' = <<>>

Left ==
  /\ label = "start" /\ op = "left" /\ Fits(n)
  /\ IF s = <<>> THEN Empty ELSE IF Len(s) <= n THEN Whole ELSE Copy(1, n)
  /\ UNCHANGED <<given, tries, y>>

Skipped == Len(s) - n
Right ==
  /\ label = "start" /\ op = "right" /\ Fits(n)
  /\ IF s = <<>> THEN Empty ELSE IF Len(s) <= n THEN Whole ELSE Copy(Skipped + 1, n)
  /\ UNCHANGED <<given, tries, y>>

Available == Len(s) - n + 1
Wanted == IF n1 = None THEN ByteTop - 1 ELSE n1
Mid ==
  /\ label = "start" /\ op = "mid" /\ Fits(n) /\ n # 0 /\ (n1 = None \/ Fits(n1))
  /\ IF Len(s) < n THEN Empty
     ELSE Copy(n, IF Available >= Wanted THEN Wanted ELSE Available)
  /\ UNCHANGED <<given, tries, y>>

\* _FND1Loop
CopyCharacter ==
  /\ label = "copy"
  /\ result' = Append(result, IF first <= Len(s) THEN s[first] ELSE 0)
  /\ first' = first + 1 /\ count' = count - 1
  /\ label' = IF count = 1 THEN "done" ELSE "copy"
  /\ UNCHANGED <<given, tries, y>>

-----------------------------------------------------------------------------
(* INSTR compares from the last character back; result is the position.      *)

SearchBegins ==
  /\ label = "start" /\ op = "instr"
  /\ CASE Len(s) < Len(key) -> result' = 0 /\ label' = "done" /\ UNCHANGED <<tries, y>>
       [] OTHER -> /\ tries' = Len(s) - Len(key) + 1
                   /\ IF key = <<>>
                        THEN label' = "error" /\ UNCHANGED <<result, y>>
                        ELSE /\ result' = 1 /\ y' = Len(key) /\ label' = "compare"
  /\ UNCHANGED <<given, numbers>>

Same == key[y] = s[result - 1 + y]
Match ==
  /\ label = "compare" /\ Same
  /\ y' = y - 1
  /\ label' = IF y = 1 THEN "done" ELSE "compare"
  /\ UNCHANGED <<given, numbers, result, tries>>

Over(t) == t = 0
Mismatch ==
  /\ label = "compare" /\ ~Same
  /\ tries' = tries - 1
  /\ IF Over(tries - 1)
       THEN result' = 0 /\ label' = "done" /\ y' = y
       ELSE result' = result + 1 /\ y' = Len(key) /\ label' = "compare"
  /\ UNCHANGED <<given, numbers>>

Next ==
  \/ BadString \/ Left \/ Right \/ Mid \/ CopyCharacter
  \/ SearchBegins \/ Match \/ Mismatch
Spec == Init /\ [][Next]_vars

-----------------------------------------------------------------------------
(* Properties. *)

\* What is copied and what is compared are characters of the string
\* (string.asm:163-167, instr.asm:39-58).
TypeOK ==
  /\ op \in {"left", "right", "mid", "instr"}
  /\ label \in {"start", "copy", "compare", "done", "error"}
  /\ label = "copy" => first >= 1 /\ count >= 1 /\ first + count - 1 <= Len(s)
  /\ label = "compare" => y \in 1..Len(key) /\ result - 1 + Len(key) <= Len(s)

Shorter(a, b) == IF a < b THEN a ELSE b
FoundAt(i) == i + Len(key) - 1 <= Len(s)
              /\ SubSeq(s, i, i + Len(key) - 1) = key

\* test_functions.py asserts what Python's slices and find give: s[:n], s[-n:],
\* s[n-1:][:n1], s.find(key)+1; parameters that are none are refused.
AsTested ==
  /\ label = "done" =>
       CASE op = "left"  -> result = SubSeq(s, 1, Shorter(n, Len(s)))
         [] op = "right" -> result = SubSeq(s, Len(s) - Shorter(n, Len(s)) + 1, Len(s))
         [] op = "mid"   ->
              result = SubSeq(s, n, IF n1 = None THEN Len(s)
                                    ELSE Shorter(n + n1 - 1, Len(s)))
         [] op = "instr" ->
              /\ \A i \in 1..Len(s) : (result = 0 \/ i < result) => ~FoundAt(i)
              /\ result # 0 => FoundAt(result)
  /\ label = "error" =>
       IF op = "instr" THEN key = <<>>
       ELSE \/ n < 0 \/ n >= WordTop
            \/ op = "mid" /\ n = 0
            \/ n1 # None /\ (n1 < 0 \/ n1 >= WordTop)
=============================================================================
