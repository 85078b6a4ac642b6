----------------------------- MODULE Counting -----------------------------
(***************************************************************************)
(* The count of FOR ... NEXT (for.asm) in words that wrap round: NEXT adds *)
(* the step, subtracts the index from the target and goes by the signs.    *)
(* The body is run once before anything is compared.  ControlFlow has the  *)
(* places FOR and NEXT jump to, DataPage the frame; the index is not       *)
(* assigned to in the body here, and target and step stay what they are.   *)
(***************************************************************************)
EXTENDS Integers

CONSTANTS
  Half,         \* half the number of long words
  Loops         \* starts, targets and steps

Top == 2 * Half
Word == 0..(Top - 1)

CountingAssumption ==
  /\ Half \in Nat \ {0}
  /\ Loops \subseteq Word \X Word \X Word

Wrap(n) == n % Top
Signed(w) == IF w >= Half THEN w - Top ELSE w
Negative(w) == w >= Half

VARIABLES
  start, target, step,  \* of the loop
  index,                \* its variable
  value,                \* the index in integers of any size, up to a bound
  label                 \* "body" or "out"

vars == <<start, target, step, index, value, label>>
loop == <<start, target, step>>

Init ==
  /\ \E l \in Loops : start = l[1] /\ target = l[2] /\ step = l[3]
  /\ index = start /\ value = Signed(start) /\ label = "body"

Stepped == Wrap(index + step)

\* Zero, or the sign of the step.
AgainLess(d) == d # 0 /\ Negative(d) = Negative(step)   \* mutant
Again(d) == d = 0 \/ Negative(d) = Negative(step)

\* Bounds the history variable; no loop that ends gets there.
MaxValue == 8 * Half
NextAgain ==
  /\ label = "body" /\ Again(Wrap(target - Stepped))
  /\ value \in -MaxValue..MaxValue
  /\ index' = Stepped /\ value' = value + Signed(step)
  /\ UNCHANGED <<loop, label>>

NextExit ==
  /\ label = "body" /\ ~Again(Wrap(target - Stepped))
  /\ index' = Stepped /\ value' = value + Signed(step)
  /\ label' = "out"
  /\ UNCHANGED loop

Next == NextAgain \/ NextExit
Spec == Init /\ [][Next]_vars

-----------------------------------------------------------------------------
(* Properties. *)

TypeOK ==
  /\ start \in Word /\ target \in Word /\ step \in Word /\ index \in Word
  /\ value \in Int /\ label \in {"body", "out"}

Size(n) == IF n < 0 THEN -n ELSE n
Past == IF Negative(step) THEN value < Signed(target) ELSE value > Signed(target)

\* Start and target are closer than half the words, a step included.
Near == Size(Signed(target) - Signed(start)) + Size(Signed(step)) < Half

\* The body is run for the start and for every value up to the target, the
\* target included, also when it is the largest or the least integer; the loop
\* is left with the first value past it (for.asm:171-195).
CountsToTarget ==
  Near => IF label = "body" THEN value = Signed(start) \/ ~Past ELSE Past
=============================================================================
