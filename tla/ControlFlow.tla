---------------------------- MODULE ControlFlow -----------------------------
(***************************************************************************)
(* How the interpreter moves through a program: the run loop (run.asm,     *)
(* basic.asm), the structures (if, for, repeat, while), GOTO, GOSUB, PROC, *)
(* and the BASIC stack their frames live on.                               *)
(*                                                                         *)
(* A program is a sequence of numbered lines, a line a sequence of         *)
(* statements [tok, arg].  IF ... THEN is the statement "then"; what       *)
(* follows THEN is the rest of its line.  A place is <<line, statement>>;  *)
(* line 0 is the token buffer, which holds what was typed at the prompt.   *)
(* Conditions and loop counts are not modelled: every branch is possible.  *)
(***************************************************************************)
EXTENDS Integers, Sequences, FiniteSets, SequencesExt

CONSTANTS
  Programs,    \* the programs that can be in memory
  Edits,       \* bound: the programs that can replace one another
  Commands,    \* what can be typed at the prompt
  MaxStack,    \* bound: frames on the BASIC stack
  MaxLocals,   \* bound: variables one PROC or LOCAL makes local
  MaxCpu       \* bound: words RUN leaves on the 65816 stack

ASSUME ProgramsAssumption ==
  /\ Programs \subseteq Seq([num : Nat \ {0},
                             code : Seq([tok : STRING, arg : Seq(Nat)])])
  /\ Edits \subseteq Programs
  /\ Commands \subseteq Seq([tok : STRING, arg : Seq(Nat)])
  /\ MaxStack \in Nat /\ MaxLocals \in Nat /\ MaxCpu \in Nat

VARIABLES
  prog,        \* the text at Block_ProgramStart
  erased,      \* NEW has zeroed its first link
  buffer,      \* Block_TokenBuffer up to its end marker
  mode,        \* "prompt", "run", or "lost": the code pointer has left the
               \* program and the buffer, and the model stops
  code,        \* DCodePtr: the place of the next statement
  lineNumber,  \* DLineNumber
  stack,       \* the frames between BASStack and DStack
  error,       \* the last message and the line it named
  cpu          \* words left on the 65816 stack since NextCommand reset it

vars == <<prog, erased, buffer, mode, code, lineNumber, stack, error, cpu>>
memory == <<prog, erased, buffer>>

NoError == [kind |-> "none", line |-> 0]

\* A place that is not the start of a statement: in the buffer before it was
\* typed over, or among the arguments of a PROC.
Nowhere == <<-1, 0>>

(***************************************************************************)
(* Program text.                                                           *)
(***************************************************************************)
Text(l) == IF l = 0 THEN buffer ELSE prog[l].code
Number(l) == IF l = 0 THEN 0 ELSE prog[l].num
IsPlace(p) == p[1] \in 0..Len(prog) /\ p[2] \in 1..(Len(Text(p[1])) + 1)
HasStatement(p) == IsPlace(p) /\ p[2] <= Len(Text(p[1]))
Statement(p) == Text(p[1])[p[2]]
After(p) == <<p[1], p[2] + 1>>
Back(p) == <<p[1], p[2] - 1>>

\* GOTO and GOSUB search the links from Block_ProgramStart.
LinesNumbered(n) ==
  IF erased THEN {}
  ELSE {l \in 1..Len(prog) : /\ prog[l].num = n
                             /\ \A k \in 1..(l - 1) : prog[k].num # n}

\* PROC takes the first line that begins with DEFPROC and the name.
LinesDefining(name) ==
  LET Defines(l) == /\ prog[l].code # <<>>
                    /\ prog[l].code[1] = [tok |-> "defproc", arg |-> name]
  IN  IF erased THEN {}
      ELSE {l \in 1..Len(prog) : Defines(l) /\ \A k \in 1..(l - 1) : ~Defines(k)}

(***************************************************************************)
(* The run loop.                                                           *)
(***************************************************************************)
\* (Nothing sets DLineNumber before the first command; memory starts as zeros.)
Init ==
  /\ prog \in Programs /\ erased = FALSE /\ buffer = <<>>
  /\ mode = "prompt" /\ code = <<0, 1>> /\ lineNumber = 0
  /\ stack = <<>> /\ error = NoError /\ cpu = 0

\* NextCommand: the 65816 stack is reset, the BASIC stack is not.
ToPrompt(e) ==
  mode' = "prompt" /\ error' = e /\ cpu' = 0 /\ UNCHANGED <<memory, code>>

ReportLast(kind) ==                                    \* mutant
  ToPrompt([kind |-> kind, line |-> code[1] - 1]) /\ UNCHANGED lineNumber

\* ErrorHandler names the line in DLineNumber.
Report(kind) ==
  ToPrompt([kind |-> kind, line |-> lineNumber]) /\ UNCHANGED lineNumber

Lose(s) ==
  /\ mode' = "lost" /\ stack' = s
  /\ UNCHANGED <<memory, code, lineNumber, error, cpu>>

\* Go on at p, with n as the line number.
Resume(p, n) ==
  IF p = Nowhere
    THEN mode' = "lost" /\ UNCHANGED <<memory, code, lineNumber, error, cpu>>
    ELSE code' = p /\ lineNumber' = n /\ UNCHANGED <<memory, mode, error, cpu>>

Continue == Resume(After(code), lineNumber)

\* FRun_NextLineNumber for line l, with c words on the 65816 stack.
StartLine(l, c) ==
  IF l \in 1..Len(prog)
    THEN /\ code' = <<l, 1>> /\ lineNumber' = Number(l) /\ cpu' = c
         /\ UNCHANGED <<memory, mode, error>>
    ELSE ToPrompt(error) /\ UNCHANGED lineNumber

\* What is typed overwrites the buffer, and every frame that points there.
Forgotten ==
  [i \in DOMAIN stack |->
     IF stack[i].kind \in {"if", "local"} \/ stack[i].at[1] # 0 THEN stack[i]
     ELSE [stack[i] EXCEPT !.at = Nowhere]]

\* RUNExecuteTokenBuffer.
TypeCommand(c) ==
  /\ mode = "prompt"
  /\ buffer' = c /\ code' = <<0, 1>> /\ lineNumber' = 0 /\ mode' = "run"
  /\ stack' = Forgotten /\ error' = NoError
  /\ UNCHANGED <<prog, erased, cpu>>

TypeLineOnly(p) ==                                     \* mutant
  /\ mode = "prompt"
  /\ prog' = p /\ erased' = FALSE /\ buffer' = <<>> /\ code' = <<0, 1>>
  /\ error' = NoError
  /\ UNCHANGED <<mode, lineNumber, cpu, stack>>

\* A numbered line edits the program, and everything is cleared.
TypeLine(p) ==
  /\ mode = "prompt"
  /\ prog' = p /\ erased' = FALSE /\ buffer' = <<>> /\ code' = <<0, 1>>
  /\ stack' = <<>> /\ error' = NoError
  /\ UNCHANGED <<mode, lineNumber, cpu>>

\* What is typed and comes to nothing: an empty line, or one that the tokeniser
\* or the test for line 0 refuses.  The message names the line that the last
\* command stopped in: only the next command sets DLineNumber to zero.
TypeNoCommand ==
  /\ mode = "prompt"
  /\ buffer' = <<>> /\ stack' = Forgotten
  /\ error' \in {NoError, [kind |-> "typed", line |-> lineNumber]}
  /\ UNCHANGED <<prog, erased, mode, code, lineNumber, cpu>>

\* Command_GOTO, for line number n.
GoTo(n) ==
  \/ \E l \in LinesNumbered(n) : Resume(<<l, 1>>, n)
  \/ LinesNumbered(n) = {} /\ Report("other")

Running == mode = "run"
At(tok) == Running /\ HasStatement(code) /\ Statement(code).tok = tok

\* _FRun_EndInstruction: line number 0 stands for the token buffer.
EndOfLine ==
  /\ Running /\ ~HasStatement(code)
  /\ IF lineNumber = 0 THEN ToPrompt(error) /\ UNCHANGED <<lineNumber, stack>>
     ELSE IF code[1] = 0 THEN Lose(stack)
     ELSE StartLine(code[1] + 1, cpu) /\ UNCHANGED stack

\* HWCheckBreak, before every statement.
Break == Running /\ Report("Break") /\ UNCHANGED stack

\* Any statement can fail before it changes anything here.
Fail ==
  /\ Running /\ HasStatement(code)
  /\ Report("other") /\ UNCHANGED stack

\* LET, PRINT and the others.  After NEW in a program, new variables are put
\* where the program was.
Other ==
  /\ At("other")
  /\ \/ Continue /\ UNCHANGED stack
     \/ erased /\ code[1] # 0 /\ Lose(stack)

End == At("end") /\ ToPrompt(error) /\ UNCHANGED <<lineNumber, stack>>

\* RUN is called as a subroutine, and branches back into the run loop.
Run ==
  /\ At("run") /\ cpu < MaxCpu                         \* bound
  /\ StartLine(IF erased THEN 0 ELSE 1, cpu + 1)
  /\ stack' = <<>>

\* CLEAR resets the stack; NEW also zeroes the first link, and goes on.
Clear == At("clear") /\ Continue /\ stack' = <<>>

New ==
  /\ At("new")
  /\ erased' = TRUE /\ stack' = <<>> /\ code' = After(code)
  /\ UNCHANGED <<prog, buffer, mode, lineNumber, error, cpu>>

(***************************************************************************)
(* The BASIC stack.                                                        *)
(***************************************************************************)
\* A frame that says where to go on; n is the variable of a FOR.
Frame(kind, p, n) == [kind |-> kind, at |-> p, line |-> lineNumber, var |-> n]
IfFrame == [kind |-> "if"]
LocalFrame == [kind |-> "local"]

Push(s, f) == Append(s, f)
Pop(s) == SubSeq(s, 1, Len(s) - 1)
HasRoom == Len(stack) < MaxStack                      \* bound

\* Every structure word looks at the word below DStack first.
TopIs(kind) == stack # <<>> /\ Last(stack).kind = kind
Unmatched(kind) == ~TopIs(kind) /\ Report("structure") /\ UNCHANGED stack

(***************************************************************************)
(* ScanForwardLevel(a, toks): from a, past whole structures, to a          *)
(* statement of toks at the same level.                                    *)
(***************************************************************************)
Opens == {"repeat", "while", "if", "for", "defproc"}       \* keyword+
Closes == {"wend", "until", "endif", "next", "endproc"}    \* keyword-

Precedes(a, b) == a[1] < b[1] \/ (a[1] = b[1] /\ a[2] < b[2])

FromSameLine(a) ==                                     \* mutant
  {<<a[1], i>> : i \in a[2]..Len(Text(a[1]))}

\* The statements of a's text from a on.  (The buffer has one line only.)
From(a) ==
  {b \in UNION {{<<l, i>> : i \in 1..Len(Text(l))} :
                l \in IF a[1] = 0 THEN {0} ELSE a[1]..Len(prog)} :
     ~Precedes(b, a)}

Level(a, b) ==
  LET path == {p \in From(a) : Precedes(p, b)} IN
  Cardinality({p \in path : Statement(p).tok \in Opens})
    - Cardinality({p \in path : Statement(p).tok \in Closes})

\* The first place where the level is 0 and the token is one of toks, unless a
\* keyword- has taken the level below 0 first.
ScanStops(a, toks) ==
  {b \in From(a) :
     /\ Statement(b).tok \in toks /\ Level(a, b) = 0
     /\ \A p \in From(a) : Precedes(p, b) =>
          /\ Level(a, p) >= 0
          /\ ~(Level(a, p) = 0 /\ Statement(p).tok \in toks)}

ScanForgets(a, toks, s, t) ==                          \* mutant
  \/ \E b \in ScanStops(a, toks) :
       /\ Resume(After(b), Number(b[1]))
       /\ stack' = IF Statement(b).tok = "else" THEN s ELSE t
  \/ /\ ScanStops(a, toks) = {}
     /\ \/ /\ ToPrompt([kind |-> "structure",
                        line |-> Number(IF a[1] = 0 THEN 0 ELSE Len(prog))])
           /\ UNCHANGED lineNumber /\ stack' = s
        \/ /\ a[1] = 0
           /\ \A p \in From(a) : Level(a, After(p)) >= 0
           /\ Lose(s)

\* Scan on from a with the stack s, and continue after what was found, with the
\* stack t unless that is an ELSE.  With no stop the line number is put back
\* and "Structure imbalance" reported; but in the buffer the end marker is not
\* the end: what follows it, words of an earlier and longer line, is taken for
\* a link and scanned.
Scan(a, toks, s, t) ==
  \/ \E b \in ScanStops(a, toks) :
       /\ Resume(After(b), Number(b[1]))
       /\ stack' = IF Statement(b).tok = "else" THEN s ELSE t
  \/ /\ ScanStops(a, toks) = {}
     /\ \/ Report("structure") /\ stack' = s
        \/ /\ a[1] = 0
           /\ \A p \in From(a) : Level(a, After(p)) >= 0
           /\ Lose(s)

(***************************************************************************)
(* IF, ELSE, ENDIF.                                                        *)
(***************************************************************************)
\* IF with THEN: go on, or skip the line, or go to the line after THEN.
Then ==
  /\ At("then")
  /\ \/ Statement(code).arg = <<>> /\ Continue
     \/ Resume(<<code[1], Len(Text(code[1])) + 1>>, lineNumber)
     \/ \E n \in ToSet(Statement(code).arg) : GoTo(n)
  /\ UNCHANGED stack

If ==
  /\ At("if") /\ HasRoom
  /\ \/ Continue /\ stack' = Push(stack, IfFrame)
     \/ Scan(After(code), {"else", "endif"}, Push(stack, IfFrame), stack)

Else ==
  /\ At("else")
  /\ \/ Unmatched("if")
     \/ TopIs("if") /\ Scan(After(code), {"endif"}, stack, Pop(stack))

EndIf ==
  /\ At("endif")
  /\ Unmatched("if") \/ (TopIs("if") /\ Continue /\ stack' = Pop(stack))

(***************************************************************************)
(* REPEAT, WHILE, FOR.                                                     *)
(***************************************************************************)
Repeat ==
  /\ At("repeat") /\ HasRoom
  /\ Continue /\ stack' = Push(stack, Frame("repeat", After(code), <<>>))

\* UNTIL leaves the frame when it loops.
Until ==
  /\ At("until")
  /\ \/ Unmatched("repeat")
     \/ /\ TopIs("repeat")
        /\ \/ Continue /\ stack' = Pop(stack)
           \/ Resume(Last(stack).at, Last(stack).line) /\ UNCHANGED stack

\* WHILE stacks its own place: WEND goes back to it, and drops the frame.
While ==
  /\ At("while")
  /\ \/ /\ HasRoom
        /\ Continue /\ stack' = Push(stack, Frame("while", code, <<>>))
     \/ Scan(After(code), {"wend"}, stack, stack)

ReturnKeepsLine(kind) ==                               \* mutant
  /\ TopIs(kind)
  /\ Resume(Last(stack).at, lineNumber) /\ stack' = Pop(stack)
ReturnKeepsFrame(kind) ==                              \* mutant
  /\ TopIs(kind)
  /\ Resume(Last(stack).at, Last(stack).line) /\ UNCHANGED stack

Return(kind) ==
  /\ TopIs(kind)
  /\ Resume(Last(stack).at, Last(stack).line) /\ stack' = Pop(stack)

WEnd == At("wend") /\ (Unmatched("while") \/ Return("while"))

\* FOR stacks the place of TO, after which NEXT evaluates limit and step again;
\* FOR itself evaluates them after it has stacked the frame, and can fail then.
For ==
  /\ At("for") /\ HasRoom
  /\ Continue \/ Report("other")
  /\ stack' = Push(stack, Frame("for", After(code), Statement(code).arg))

\* NEXT takes the frame off, evaluates, and puts it back if it loops.
NextLoop ==
  /\ At("next")
  /\ \/ Unmatched("for")
     \/ /\ TopIs("for") /\ Statement(code).arg \notin {<<>>, Last(stack).var}
        /\ Report("other") /\ UNCHANGED stack
     \/ /\ TopIs("for") /\ Statement(code).arg \in {<<>>, Last(stack).var}
        /\ \/ Continue /\ stack' = Pop(stack)
           \/ Report("other") /\ stack' = Pop(stack)
           \/ Resume(Last(stack).at, Last(stack).line) /\ UNCHANGED stack

(***************************************************************************)
(* GOTO, GOSUB, RETURN, ON ... GOTO.                                       *)
(***************************************************************************)
GotoStatement ==
  /\ At("goto") /\ \E n \in ToSet(Statement(code).arg) : GoTo(n)
  /\ UNCHANGED stack

GosubToItself ==                                       \* mutant
  /\ At("gosub") /\ HasRoom
  /\ \E n \in ToSet(Statement(code).arg) : GoTo(n)
  /\ stack' = Push(stack, Frame("gosub", code, <<>>))

\* The frame is stacked before the argument is looked at and the line looked for.
Gosub ==
  /\ At("gosub") /\ HasRoom
  /\ \/ Report("other")
     \/ \E n \in ToSet(Statement(code).arg) : GoTo(n)
  /\ stack' = Push(stack, Frame("gosub", After(code), <<>>))

ReturnStatement ==
  /\ At("return")
  /\ \/ ~TopIs("gosub") /\ Report("Return without Gosub") /\ UNCHANGED stack
     \/ Return("gosub")

(***************************************************************************)
(* PROC, LOCAL, ENDPROC.                                                   *)
(***************************************************************************)
Locals(k) == [i \in 1..k |-> LocalFrame]

ArgumentError(l) ==
  /\ ToPrompt([kind |-> "argument", line |-> Number(l)])
  /\ lineNumber' = Number(l)

\* The frame is stacked and DLineNumber is DEFPROC's before the arguments are
\* evaluated; an error there, or while the parameters are set, leaves it all.
\* The place stacked is behind the name until the arguments are evaluated.
Proc ==
  /\ At("proc") /\ HasRoom
  /\ LET found == LinesDefining(Statement(code).arg) IN
     \/ found = {} /\ Report("other") /\ UNCHANGED stack
     \/ \E l \in found, k \in 0..MaxLocals :
          /\ stack' = Push(stack, Frame("proc", After(code), <<>>)) \o Locals(k)
          /\ Resume(<<l, 2>>, Number(l)) \/ ArgumentError(l)
     \/ \E l \in found :
          /\ stack' = Push(stack, Frame("proc", Nowhere, <<>>))
          /\ ArgumentError(l)

\* DEFPROC has no handler of its own.
DefProc == At("defproc") /\ Report("other") /\ UNCHANGED stack

\* LOCAL stacks nothing for a string variable that is not set.  An error in the
\* list leaves what the variables before it have stacked.
Local ==
  /\ At("local") /\ HasRoom
  /\ \E k \in 0..MaxLocals : stack' = stack \o Locals(k)
  /\ Continue \/ Report("other")

\* LocalRestore takes every local frame off, whatever is below them.
LastOther == SelectLastInSeq(stack, LAMBDA f : f.kind # "local")

EndProc ==
  /\ At("endproc")
  /\ LET rest == SubSeq(stack, 1, LastOther) IN
     IF rest # <<>> /\ Last(rest).kind = "proc"
       THEN Resume(Last(rest).at, Last(rest).line) /\ stack' = Pop(rest)
       ELSE Report("structure") /\ stack' = rest

Step ==
  \/ EndOfLine \/ Break \/ Fail \/ Other \/ End \/ Run \/ Clear \/ New
  \/ Then \/ If \/ Else \/ EndIf \/ Repeat \/ Until \/ While \/ WEnd
  \/ For \/ NextLoop \/ GotoStatement \/ Gosub \/ ReturnStatement
  \/ Proc \/ DefProc \/ Local \/ EndProc

Next ==
  \/ \E c \in Commands : TypeCommand(c)
  \/ \E p \in Edits : TypeLine(p)
  \/ TypeNoCommand
  \/ Step

Spec == Init /\ [][Next]_vars

-----------------------------------------------------------------------------
(***************************************************************************)
(* Properties.                                                             *)
(***************************************************************************)
Places == Int \X Int
GoesOn == {"repeat", "while", "for", "gosub", "proc"}    \* frames with a place
Frames ==
  {IfFrame, LocalFrame}
    \cup [kind : GoesOn, at : Places, line : Nat, var : Seq(Nat)]

Messages ==
  {"none", "Break", "structure", "Return without Gosub", "argument", "other", "typed"}

\* The type of every variable (data.asm).
TypeOK ==
  /\ prog \in Programs /\ erased \in BOOLEAN
  /\ buffer \in Commands \cup {<<>>}
  /\ mode \in {"prompt", "run", "lost"}
  /\ code \in Places /\ lineNumber \in Nat
  /\ stack \in Seq(Frames)
  /\ error \in [kind : Messages, line : Nat]
  /\ cpu \in Nat

\* DLineNumber is the number of the line DCodePtr is in, 0 in the buffer.  Each
\* jump keeps the two in step by hand, and the end of a line tells the buffer
\* from the program by the number alone.
LineMatchesCode ==
  mode = "run" => IsPlace(code) /\ lineNumber = Number(code[1])

\* The frame f leads back to the statement that stacked it, and has its line.
SoundFrame(f) ==
  f.kind \in GoesOn /\ f.at # Nowhere =>
    LET from == IF f.kind = "while" THEN f.at ELSE Back(f.at) IN
    /\ HasStatement(from) /\ Statement(from).tok = f.kind
    /\ f.line = Number(from[1])

\* Every frame is sound: no edit, NEW, error or new command leaves one that
\* leads elsewhere, except the frames whose buffer has been typed over.  (The
\* stack outlives errors: NextCommand does not reset DStack.)
FramesSound == \A i \in DOMAIN stack : SoundFrame(stack[i])

\* When a statement fails the message names the line it is in, 0 for what was
\* typed, also when a scan has moved the line number on.  (An error among the
\* arguments of a PROC names the line of DEFPROC.  What is refused at the
\* prompt is not a statement: see TypeNoCommand for the line it is given.)
ErrorsNameTheirLine ==
  [][mode = "run" /\ error' \notin {error, NoError} /\ error'.kind # "argument"
       => error'.line = Number(code[1])]_vars

(***************************************************************************)
(* Nesting, as a reader of the program sees it.                            *)
(***************************************************************************)
Opener == [until |-> "repeat", wend |-> "while", endif |-> "if",
           next |-> "for", endproc |-> "defproc"]

\* What is open behind the statement x, where open is in front of it; "bad"
\* stays once one is closed that is not open.
Reading(open, x) ==
  IF x.tok \in Opens THEN Append(open, x.tok)
  ELSE IF x.tok \notin Closes THEN open
  ELSE IF open # <<>> /\ Last(open) = Opener[x.tok] THEN Front(open)
  ELSE Append(open, "bad")

\* What is open after each number of the statements w, and of the lines of P.
OpenAlong(open, w) ==
  LET after[i \in 0..Len(w)] ==
        IF i = 0 THEN open ELSE Reading(after[i - 1], w[i])
  IN  after

OpenAfterLines(P) ==
  LET after[l \in 0..Len(P)] ==
        IF l = 0 THEN <<>>
        ELSE OpenAlong(after[l - 1], P[l].code)[Len(P[l].code)]
  IN  after

OpenAt(P, p) == OpenAlong(OpenAfterLines(P)[p[1] - 1], P[p[1]].code)[p[2] - 1]

\* Structures are closed in the order they are opened, and a jump leads to a
\* line at its own level.
WellNested(P) ==
  /\ OpenAfterLines(P)[Len(P)] = <<>>
  /\ \A l \in DOMAIN P : \A i \in DOMAIN P[l].code :
       LET x    == P[l].code[i]
           open == OpenAt(P, <<l, i>>)
           OpenAtLine(n) == {OpenAt(P, <<k, 1>>) : k \in {k \in DOMAIN P : P[k].num = n}}
       IN
       /\ x.tok = "else" => open # <<>> /\ Last(open) = "if"
       /\ x.tok = "then" => OpenAt(P, <<l, Len(P[l].code) + 1>>) = open
       /\ x.tok \in {"goto", "then"} =>
            \A n \in ToSet(x.arg) : OpenAtLine(n) \subseteq {open}
       /\ x.tok = "gosub" => \A n \in ToSet(x.arg) : OpenAtLine(n) \subseteq {<<>>}
       /\ x.tok = "local" => open = <<"defproc">>
       /\ x.tok \in {"defproc", "run", "new", "clear"} => open = <<>>

NestedPrograms == {P \in Programs : WellNested(P)}

\* What is open above the frame f, where open is below it.
Within(open, f) ==
  CASE f.kind = "gosub" -> <<>>
    [] f.kind = "proc"  -> <<"defproc">>
    [] f.kind = "local" -> open
    [] OTHER            -> Append(open, f.kind)

\* The structures that the first i frames of s stand for.
Context(s) ==
  LET around[i \in 0..Len(s)] ==
        IF i = 0 THEN <<>> ELSE Within(around[i - 1], s[i])
  IN  around

\* In a well nested program that was RUN, the frames stacked since the last
\* GOSUB or PROC are the structures around the code pointer, and those below
\* are the structures around each call; the place in a frame is within what
\* is on the stack when it is gone back to.  (UNTIL and NEXT leave the frame.)
MirrorsNesting ==
  prog \in NestedPrograms /\ mode = "run" /\ code[1] # 0 =>
    /\ Context(stack)[Len(stack)] = OpenAt(prog, code)
    /\ \A i \in DOMAIN stack :
         stack[i].kind \in GoesOn =>
           LET left == IF stack[i].kind \in {"repeat", "for"} THEN i ELSE i - 1
           IN  Context(stack)[left] = OpenAt(prog, stack[i].at)

\* So a well nested program never meets a structure error, whatever its
\* conditions are.
NoStructureErrors ==
  prog \in NestedPrograms => error.kind # "structure"

\* No loops and no RUN; every jump and every call leads to a later line.
Forward(P) ==
  \A l \in DOMAIN P : \A i \in DOMAIN P[l].code :
    LET x == P[l].code[i] IN
    /\ x.tok \notin {"repeat", "while", "for", "run"}
    /\ x.tok \in {"goto", "then", "gosub"} => \A n \in ToSet(x.arg) : n > P[l].num
    /\ x.tok = "proc" =>
         \A k \in DOMAIN P : P[k].code[1] = [x EXCEPT !.tok = "defproc"] => k > l

\* A program that only leads forward comes back to the prompt: no return, end
\* of a procedure or scan for ELSE and ENDIF goes round.
Finishes == Forward(prog) /\ mode = "run" ~> mode = "prompt"

LiveSpec == Spec /\ WF_vars(Step)
=============================================================================
