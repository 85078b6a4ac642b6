--------------------------- MODULE MCControlFlow --------------------------
(* Small instances of ControlFlow: programs and commands.                 *)
EXTENDS ControlFlow

S(tok) == [tok |-> tok, arg |-> <<>>]
N(tok, n) == [tok |-> tok, arg |-> <<n>>]
Line(n, w) == [num |-> n, code |-> w]

\* The statements w in lines of k.
Lines(w, k) ==
  [l \in 1..((Len(w) + k - 1) \div k) |->
     Line(10 * l, SubSeq(w, k * (l - 1) + 1, IF k * l < Len(w) THEN k * l ELSE Len(w)))]

\* Every well nested sequence of n statements.
Pairs == {<<"repeat", "until">>, <<"while", "wend">>, <<"for", "next">>, <<"if", "endif">>}
RECURSIVE Nested(_)
Nested(n) ==
  IF n = 0 THEN {<<>>}
  ELSE {<<S("other")>> \o w : w \in Nested(n - 1)}
       \cup UNION {{<<S(p[1])>> \o a \o <<S(p[2])>> \o b :
                      p \in Pairs, a \in Nested(i), b \in Nested(n - 2 - i)} : i \in 0..(n - 2)}
       \cup UNION {{<<S("if")>> \o a \o <<S("else")>> \o b \o <<S("endif")>> :
                      a \in Nested(i), b \in Nested(n - 3 - i)} : i \in 0..(n - 3)}

\* Procedures, subroutines, jumps and THEN between and inside structures.
Calling == {
  <<Line(10, <<S("for"), N("proc", 1), S("next"), S("end")>>),
    Line(20, <<N("defproc", 1), S("local"), S("if"), N("gosub", 40), S("else")>>),
    Line(30, <<N("proc", 1), S("endif"), S("endproc")>>),
    Line(40, <<S("while"), S("then"), S("repeat"), S("until")>>),
    Line(50, <<S("wend"), S("return")>>)>>,
  <<Line(10, <<S("repeat"), N("gosub", 30), S("until")>>),
    Line(20, <<N("then", 10), S("end")>>),
    Line(30, <<S("if"), N("proc", 2), S("else")>>),
    Line(40, <<N("then", 40)>>), Line(45, <<S("endif"), S("return")>>),
    Line(50, <<N("defproc", 2), S("local"), S("for"), S("next"), S("local")>>),
    Line(60, <<S("endproc")>>)>>}

NestedSmall == {Lines(w, 2) : w \in Nested(6)} \cup Calling

\* Programs that leave their structures in every wrong way.
Messy == {
  <<Line(10, <<N("for", 1), N("gosub", 30), N("next", 2)>>),
    Line(20, <<N("next", 1), S("until"), S("return")>>),
    Line(30, <<S("if"), N("goto", 20), S("endif"), S("local"), S("return")>>)>>,
  <<Line(10, <<S("repeat"), N("goto", 30), S("while"), S("else")>>),
    Line(20, <<S("wend"), S("endproc"), S("clear")>>),
    Line(30, <<S("until"), S("while"), S("if"), N("proc", 1)>>),
    Line(40, <<N("defproc", 1), S("local"), S("next"), S("endproc")>>)>>,
  <<Line(10, <<S("repeat"), N("proc", 1), S("new")>>),
    Line(20, <<S("repeat"), S("other"), N("gosub", 10), S("until")>>),
    Line(30, <<N("defproc", 1), S("endproc")>>)>>}
OneOfEach == Messy \cup Calling

RunOnly == {<<S("run")>>}
Immediate == {<<S("run")>>, <<S("until")>>, <<S("next")>>, <<S("return")>>,
              <<S("endproc")>>, <<S("wend")>>, <<S("repeat"), N("gosub", 30)>>, <<N("proc", 1)>>,
              <<S("clear"), S("while")>>, <<S("new")>>}

\* Programs in which control cannot come back to where it was.
Straight == {
  <<Line(10, <<S("if"), N("gosub", 40), S("else"), N("proc", 1), S("endif")>>),
    Line(20, <<N("proc", 1), N("then", 30), N("gosub", 40)>>),
    Line(30, <<S("end")>>),
    Line(40, <<N("then", 50), N("proc", 1), S("return")>>),
    Line(50, <<S("local"), S("other"), S("return")>>),
    Line(60, <<N("defproc", 1), S("local"), S("if"), N("then", 90), S("else")>>),
    Line(70, <<N("gosub", 90), S("endif")>>),
    Line(80, <<S("endproc")>>),
    Line(90, <<S("other"), S("return")>>)>>}

WellBehaved == NestedSmall \cup Straight
NoEdits == {}
=============================================================================
