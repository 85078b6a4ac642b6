--------------------------- MODULE VariableStore ---------------------------
(***************************************************************************)
(* What BASIC's variables promise: names hold integers or arrays of        *)
(* integers, a statement changes one of them, and an array whose DIM came  *)
(* to nothing is there but holds nothing.                                  *)
(***************************************************************************)
EXTENDS Integers

CONSTANTS Names, Arrays, Values, Zero

VARIABLE contents

None == [kind |-> "none"]
Broken == [kind |-> "broken"]
Integer(v) == [kind |-> "integer", value |-> v]
Array(f) == [kind |-> "array", elements |-> f]

Init == contents = [n \in Names |-> None]

\* What a statement may make of one variable: old becomes new.
Appear(n, old, new) ==
  old = None /\ new = IF n \in Arrays THEN Broken ELSE Integer(Zero)

\* The first DIM that works makes the array; it is never made again.
Dim(old, new) ==
  /\ old = Broken /\ new.kind = "array"
  /\ \A i \in DOMAIN new.elements : new.elements[i] = Zero

LetInteger(old, new) ==
  /\ old.kind = "integer" /\ new.kind = "integer"
  /\ new.value \in Values

LetElement(old, new) ==
  /\ old.kind = "array" /\ new.kind = "array"
  /\ \E i \in DOMAIN old.elements : \E v \in Values :
       new.elements = [old.elements EXCEPT ![i] = v]

Statement ==
  LET old == contents
      new == contents'
  IN  \E n \in Names :
        /\ \/ Appear(n, old[n], new[n]) \/ Dim(old[n], new[n])
           \/ LetInteger(old[n], new[n]) \/ LetElement(old[n], new[n])
        /\ \A m \in Names \ {n} : new[m] = old[m]

Clear == contents' = [n \in Names |-> None]

Next == Statement \/ Clear

Spec == Init /\ [][Next]_contents
=============================================================================
