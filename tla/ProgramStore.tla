--------------------------- MODULE ProgramStore ---------------------------
(***************************************************************************)
(* What the line editor promises, without any memory: a program gives each *)
(* line number at most one body, and entering "number body" changes the    *)
(* body of that number (an empty body removes the line) and no other.      *)
(* LineEditor implements it.                                               *)
(***************************************************************************)
CONSTANTS
  Numbers,   \* the line numbers
  Bodies,    \* the tokenised bodies of lines
  NoLine     \* the body of a number that has no line (in Bodies)

VARIABLE program   \* [Numbers -> Bodies]

Init == program = [n \in Numbers |-> NoLine]

Enter(n, body) == program' = [program EXCEPT ![n] = body]

Next == \E n \in Numbers, body \in Bodies : Enter(n, body)

Spec == Init /\ [][Next]_program
=============================================================================
