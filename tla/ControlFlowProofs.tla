------------------------- MODULE ControlFlowProofs -------------------------
(***************************************************************************)
(* For every set of programs and commands: the type invariant, that the    *)
(* line number is that of the line the code pointer is in, that every      *)
(* frame on the BASIC stack leads back to the statement that stacked it,   *)
(* and that a message names the line it arose in.  For well nested         *)
(* programs that are RUN: the stack mirrors the nesting of the program at  *)
(* the code pointer, and no structure error is met.                        *)
(***************************************************************************)
EXTENDS ControlFlow, SequenceLemmas

\* The types of everything but the stack.
CoreOK ==
  /\ prog \in Programs /\ erased \in BOOLEAN
  /\ buffer \in Commands \cup {<<>>}
  /\ mode \in {"prompt", "run", "lost"}
  /\ code \in Places /\ lineNumber \in Nat
  /\ error \in [kind : Messages, line : Nat]
  /\ cpu \in Nat

\* The frames that may be on the stack, given the text in memory.
SoundFrames == {f \in Frames : SoundFrame(f)}

\* The inductive invariant: a jump to the place of a frame keeps the line number
\* right because the frame is sound, and a frame is sound because the line
\* number was right when it was stacked.
IInv == CoreOK /\ LineMatchesCode /\ stack \in Seq(SoundFrames)

Statements == [tok : STRING, arg : Seq(Nat)]

-----------------------------------------------------------------------------
(***************************************************************************)
(* The text.                                                               *)
(***************************************************************************)
\* Every line is a sequence of statements, and has a number.
LEMMA TextType ==
  ASSUME CoreOK, NEW l \in 0..Len(prog)
  PROVE  Text(l) \in Seq(Statements) /\ Number(l) \in Nat /\ Len(prog) \in Nat
<1> DEFINE LineSet == [num : Nat \ {0}, code : Seq(Statements)]
<1>1. prog \in Seq(LineSet) /\ Len(prog) \in Nat
  <2>1. Programs \subseteq Seq(LineSet)
    BY ProgramsAssumption DEF Statements
  <2> HIDE DEF LineSet
  <2>2. prog \in Seq(LineSet)
    BY <2>1 DEF CoreOK
  <2> QED
    BY <2>2
<1>2. buffer \in Seq(Statements)
  <2>1. Commands \subseteq Seq(Statements)
    BY ProgramsAssumption DEF Statements
  <2>2. <<>> \in Seq(Statements)
    BY EmptyType
  <2> QED
    BY <2>1, <2>2 DEF CoreOK
<1>3. CASE l = 0
  BY <1>1, <1>2, <1>3 DEF Text, Number
<1>4. CASE l # 0
  <2>1. l \in 1..Len(prog)
    BY <1>1, <1>4
  <2> HIDE DEF LineSet
  <2>2. prog[l] \in LineSet
    BY <1>1, <2>1, ElementType
  <2>3. prog[l].num \in Nat /\ prog[l].code \in Seq(Statements)
    BY <2>2 DEF LineSet
  <2> QED
    BY <1>1, <1>4, <2>3 DEF Text, Number
<1> QED
  BY <1>3, <1>4

\* A place that has a statement: what is there, and the place behind it.
LEMMA StatementPlace ==
  ASSUME CoreOK, NEW p \in Places, HasStatement(p)
  PROVE  /\ Statement(p) \in Statements
         /\ After(p) \in Places /\ IsPlace(After(p))
         /\ After(p)[1] = p[1] /\ Back(After(p)) = p
         /\ Number(p[1]) \in Nat
<1>1. p[1] \in 0..Len(prog) /\ p[2] \in Int /\ p[1] \in Int /\ p = <<p[1], p[2]>>
  BY DEF HasStatement, IsPlace, Places
<1>2. Text(p[1]) \in Seq(Statements) /\ Number(p[1]) \in Nat
  BY <1>1, TextType
<1>3. p[2] \in 1..Len(Text(p[1]))
  BY <1>1, <1>2 DEF HasStatement, IsPlace
<1>4. Statement(p) \in Statements
  BY <1>2, <1>3 DEF Statement
<1>5. After(p) = <<p[1], p[2] + 1>>
  BY DEF After
<1>6. After(p) \in Places /\ After(p)[1] = p[1] /\ After(p)[2] = p[2] + 1
  BY <1>1, <1>5 DEF Places
<1>7. IsPlace(After(p))
  BY <1>1, <1>2, <1>3, <1>6 DEF IsPlace
<1>8. Back(After(p)) = p
  BY <1>1, <1>6 DEF Back
<1> QED
  BY <1>2, <1>4, <1>6, <1>7, <1>8

-----------------------------------------------------------------------------
(***************************************************************************)
(* The building blocks of the actions.                                     *)
(***************************************************************************)
\* While the text stays, so do the sound frames.
LEMMA Combine ==
  ASSUME UNCHANGED memory, CoreOK', LineMatchesCode', stack' \in Seq(SoundFrames)
  PROVE  IInv'
<1>1. SoundFrames' = SoundFrames
  BY DEF memory, SoundFrames, SoundFrame, HasStatement, IsPlace, Statement,
         Text, Number
<1> QED
  BY <1>1 DEF IInv

LEMMA SoundNext ==
  ASSUME NEW f \in Frames, SoundFrame(f)'
  PROVE  f \in SoundFrames'
BY DEF SoundFrames, SoundFrame, HasStatement, IsPlace, Statement, Text, Number, Back

\* Going on at a place, with the number of its line.
LEMMA ResumeCore ==
  ASSUME CoreOK, mode = "run", NEW p, NEW n, Resume(p, n),
         p = Nowhere \/ (p \in Places /\ IsPlace(p) /\ n = Number(p[1]))
  PROVE  CoreOK' /\ LineMatchesCode' /\ UNCHANGED memory
<1>1. CASE p = Nowhere
  BY <1>1 DEF CoreOK, Resume, LineMatchesCode, memory
<1>2. CASE p # Nowhere
  <2>1. p[1] \in 0..Len(prog)
    BY <1>2 DEF IsPlace
  <2>2. Number(p[1]) \in Nat
    BY <2>1, TextType
  <2>3. CoreOK' /\ UNCHANGED memory
    BY <1>2, <2>2 DEF CoreOK, Resume, memory
  <2>4. LineMatchesCode'
    BY <1>2 DEF LineMatchesCode, Resume, memory, IsPlace, Number, Text
  <2> QED
    BY <2>3, <2>4
<1> QED
  BY <1>1, <1>2

LEMMA ContinueCore ==
  ASSUME IInv, mode = "run", HasStatement(code), Continue
  PROVE  CoreOK' /\ LineMatchesCode' /\ UNCHANGED memory
<1>1. CoreOK /\ code \in Places /\ lineNumber = Number(code[1])
  BY DEF IInv, CoreOK, LineMatchesCode
<1>2. After(code) \in Places /\ IsPlace(After(code)) /\ After(code)[1] = code[1]
  BY <1>1, StatementPlace
<1>3. lineNumber = Number(After(code)[1])
  BY <1>1, <1>2
<1> QED
  BY <1>1, <1>2, <1>3, ResumeCore DEF Continue

LEMMA ToPromptCore ==
  ASSUME CoreOK, NEW e \in [kind : Messages, line : Nat], ToPrompt(e),
         lineNumber' \in Nat
  PROVE  CoreOK' /\ LineMatchesCode' /\ UNCHANGED memory
BY DEF CoreOK, ToPrompt, LineMatchesCode, memory

LEMMA ReportCore ==
  ASSUME CoreOK, NEW kind \in Messages, Report(kind)
  PROVE  CoreOK' /\ LineMatchesCode' /\ UNCHANGED memory
<1>1. lineNumber \in Nat /\ lineNumber' = lineNumber
  BY DEF CoreOK, Report
<1>2. [kind |-> kind, line |-> lineNumber] \in [kind : Messages, line : Nat]
  BY <1>1
<1> QED
  BY <1>1, <1>2, ToPromptCore DEF Report

LEMMA LoseCore ==
  ASSUME CoreOK, NEW s, Lose(s)
  PROVE  CoreOK' /\ LineMatchesCode' /\ UNCHANGED memory /\ stack' = s
BY DEF CoreOK, Lose, LineMatchesCode, memory

LEMMA GoToCore ==
  ASSUME IInv, mode = "run", NEW n, GoTo(n)
  PROVE  CoreOK' /\ LineMatchesCode' /\ UNCHANGED memory
<1> USE DEF IInv
<1>1. CASE LinesNumbered(n) = {} /\ Report("other")
  BY <1>1, ReportCore DEF Messages
<1>2. ASSUME NEW l \in LinesNumbered(n), Resume(<<l, 1>>, n)
      PROVE  CoreOK' /\ LineMatchesCode' /\ UNCHANGED memory
  <2>1. l \in 1..Len(prog) /\ prog[l].num = n
    BY <1>2 DEF LinesNumbered
  <2>2. Text(l) \in Seq(Statements) /\ Len(prog) \in Nat
    BY <2>1, TextType, 0 \in 0..Len(prog)
  <2>3. <<l, 1>> \in Places /\ IsPlace(<<l, 1>>) /\ n = Number(<<l, 1>>[1])
    BY <2>1, <2>2 DEF Places, IsPlace, Number
  <2> QED
    BY <1>2, <2>3, ResumeCore
<1> QED
  BY <1>1, <1>2 DEF GoTo

-----------------------------------------------------------------------------
(***************************************************************************)
(* The stack.                                                              *)
(***************************************************************************)
LEMMA StackOps ==
  ASSUME NEW F, NEW s \in Seq(F)
  PROVE  /\ \A f \in F : Push(s, f) \in Seq(F)
         /\ s # <<>> => Pop(s) \in Seq(F) /\ Last(s) \in F
         /\ \A n \in 0..Len(s) : SubSeq(s, 1, n) \in Seq(F)
         /\ \A t \in Seq(F) : s \o t \in Seq(F)
         /\ <<>> \in Seq(F)
BY DEF Push, Pop, Last

\* What a statement finds when it is executed.
LEMMA AtFacts ==
  ASSUME IInv, NEW t, At(t)
  PROVE  /\ mode = "run" /\ HasStatement(code) /\ code \in Places
         /\ Statement(code).tok = t /\ Statement(code).arg \in Seq(Nat)
         /\ After(code) \in Places /\ IsPlace(After(code))
         /\ After(code)[1] = code[1] /\ Back(After(code)) = code
         /\ lineNumber = Number(code[1]) /\ lineNumber \in Nat
         /\ CoreOK /\ stack \in Seq(SoundFrames)
<1>1. mode = "run" /\ HasStatement(code) /\ Statement(code).tok = t
  BY DEF At, Running
<1>2. CoreOK /\ code \in Places /\ lineNumber \in Nat /\ lineNumber = Number(code[1])
  BY <1>1 DEF IInv, CoreOK, LineMatchesCode
<1>3. Statement(code) \in Statements
  BY <1>1, <1>2, StatementPlace
<1> QED
  BY <1>1, <1>2, <1>3, StatementPlace DEF IInv, Statements

\* The frame a statement stacks is sound.
LEMMA NewFrame ==
  ASSUME IInv, NEW t \in GoesOn, At(t), NEW v \in Seq(Nat)
  PROVE  /\ t # "while" => Frame(t, After(code), v) \in SoundFrames
         /\ t = "while" => Frame(t, code, v) \in SoundFrames
         /\ Frame(t, Nowhere, v) \in SoundFrames
<1>1. /\ HasStatement(code) /\ code \in Places /\ Statement(code).tok = t
      /\ After(code) \in Places /\ Back(After(code)) = code
      /\ lineNumber = Number(code[1]) /\ lineNumber \in Nat
  BY AtFacts
<1>2. Nowhere \in Places
  BY DEF Nowhere, Places
<1>3. \A p \in Places : Frame(t, p, v) \in Frames
  BY <1>1 DEF Frame, Frames
<1>4. ASSUME t # "while" PROVE SoundFrame(Frame(t, After(code), v))
  BY <1>1, <1>4 DEF SoundFrame, Frame
<1>5. ASSUME t = "while" PROVE SoundFrame(Frame(t, code, v))
  BY <1>1, <1>5 DEF SoundFrame, Frame
<1>6. SoundFrame(Frame(t, Nowhere, v))
  BY DEF SoundFrame, Frame
<1> QED
  BY <1>1, <1>2, <1>3, <1>4, <1>5, <1>6 DEF SoundFrames

\* A frame can be gone back to.
LEMMA FramePlace ==
  ASSUME CoreOK, NEW f \in SoundFrames, f.kind \in GoesOn
  PROVE  f.at = Nowhere
           \/ (f.at \in Places /\ IsPlace(f.at) /\ f.line = Number(f.at[1]))
<1> SUFFICES ASSUME f.at # Nowhere
             PROVE  f.at \in Places /\ IsPlace(f.at) /\ f.line = Number(f.at[1])
  OBVIOUS
<1>1. f.at \in Places
  BY DEF SoundFrames, Frames, GoesOn, IfFrame, LocalFrame
<1>2. SoundFrame(f)
  BY DEF SoundFrames
<1>3. CASE f.kind = "while"
  BY <1>1, <1>2, <1>3 DEF SoundFrame, HasStatement
<1>4. CASE f.kind # "while"
  <2>1. HasStatement(Back(f.at)) /\ f.line = Number(Back(f.at)[1])
    BY <1>2, <1>4 DEF SoundFrame
  <2>2. Back(f.at) \in Places /\ After(Back(f.at)) = f.at /\ Back(f.at)[1] = f.at[1]
    BY <1>1 DEF Back, After, Places
  <2>3. IsPlace(f.at)
    BY <2>1, <2>2, StatementPlace
  <2> QED
    BY <1>1, <2>1, <2>2, <2>3
<1> QED
  BY <1>3, <1>4

LEMMA TopFrame ==
  ASSUME IInv, mode = "run", NEW kind \in GoesOn, TopIs(kind),
         Resume(Last(stack).at, Last(stack).line)
  PROVE  CoreOK' /\ LineMatchesCode' /\ UNCHANGED memory
<1>1. CoreOK /\ stack \in Seq(SoundFrames)
  BY DEF IInv
<1>2. Last(stack) \in SoundFrames /\ Last(stack).kind \in GoesOn
  BY <1>1, StackOps DEF TopIs
<1> DEFINE f == Last(stack)
<1>3. f.at = Nowhere
        \/ (f.at \in Places /\ IsPlace(f.at) /\ f.line = Number(f.at[1]))
  BY <1>1, <1>2, FramePlace
<1> QED
  BY <1>1, <1>3, ResumeCore

LEMMA UnmatchedCore ==
  ASSUME IInv, NEW kind, Unmatched(kind)
  PROVE  CoreOK' /\ LineMatchesCode' /\ UNCHANGED memory /\ stack' = stack
<1>1. CoreOK /\ "structure" \in Messages
  BY DEF IInv, Messages
<1> QED
  BY <1>1, ReportCore DEF Unmatched

\* A scan goes on behind a statement of the text.
LEMMA ScanCore ==
  ASSUME IInv, mode = "run", NEW toks, NEW s, NEW t, HasStatement(code),
         Scan(After(code), toks, s, t)
  PROVE  /\ CoreOK' /\ LineMatchesCode' /\ UNCHANGED memory
         /\ stack' = s \/ stack' = t
<1>1. CoreOK /\ code \in Places /\ After(code)[1] = code[1] /\ IsPlace(code)
      /\ "structure" \in Messages
  BY StatementPlace DEF IInv, CoreOK, HasStatement, Messages
<1>2. ASSUME NEW b \in ScanStops(After(code), toks), Resume(After(b), Number(b[1]))
      PROVE  CoreOK' /\ LineMatchesCode' /\ UNCHANGED memory
  <2>1. b \in From(After(code))
    BY <1>2 DEF ScanStops
  <2>2. PICK l \in 0..Len(prog) : \E i \in 1..Len(Text(l)) : b = <<l, i>>
    <3>1. code[1] \in 0..Len(prog) /\ Len(prog) \in Nat
      BY <1>1, TextType DEF IsPlace
    <3> QED
      BY <1>1, <2>1, <3>1 DEF From
  <2>3. Text(l) \in Seq(Statements) /\ Len(prog) \in Nat
    BY <1>1, TextType
  <2>4. b \in Places /\ HasStatement(b)
    BY <2>2, <2>3 DEF Places, HasStatement, IsPlace
  <2>5. /\ After(b) \in Places /\ IsPlace(After(b)) /\ After(b)[1] = b[1]
    BY <1>1, <2>4, StatementPlace
  <2> QED
    BY <1>1, <1>2, <2>5, ResumeCore
<1>3. CASE Report("structure") /\ stack' = s
  BY <1>1, <1>3, ReportCore
<1>4. CASE Lose(s)
  BY <1>1, <1>4, LoseCore
<1> QED
  BY <1>2, <1>3, <1>4 DEF Scan

-----------------------------------------------------------------------------
(***************************************************************************)
(* The actions.                                                            *)
(***************************************************************************)
LEMMA NoErrorType == NoError \in [kind : Messages, line : Nat]
BY DEF NoError, Messages

LEMMA StartPlace == <<0, 1>> \in Places
BY DEF Places

LEMMA InitInv ==
  ASSUME Init
  PROVE  IInv
<1>1. CoreOK
  BY NoErrorType, StartPlace DEF Init, CoreOK
<1>2. LineMatchesCode
  BY DEF Init, LineMatchesCode
<1>3. stack \in Seq(SoundFrames)
  <2>1. <<>> \in Seq(SoundFrames)
    BY EmptyType
  <2> QED
    BY <2>1 DEF Init
<1> QED
  BY <1>1, <1>2, <1>3 DEF IInv

\* A frame that points into the program stays sound while the program stays.
LEMMA ProgramFrame ==
  ASSUME NEW f \in SoundFrames, prog' = prog,
         f.kind \in GoesOn => f.at[1] # 0
  PROVE  f \in SoundFrames'
<1>1. f \in Frames /\ SoundFrame(f)
  BY DEF SoundFrames
<1>2. ASSUME NEW q, q[1] # 0
      PROVE  /\ HasStatement(q)' <=> HasStatement(q)
             /\ Statement(q)' = Statement(q) /\ Number(q[1])' = Number(q[1])
  BY <1>2 DEF HasStatement, IsPlace, Statement, Text, Number
<1>3. SoundFrame(f)'
  <2>1. CASE f.kind \notin GoesOn \/ f.at = Nowhere
    BY <2>1 DEF SoundFrame
  <2>2. CASE f.kind \in GoesOn /\ f.at # Nowhere
    <3> DEFINE from == IF f.kind = "while" THEN f.at ELSE Back(f.at)
    <3>1. from[1] # 0
      BY <2>2 DEF Back
    <3>2. HasStatement(from) /\ Statement(from).tok = f.kind /\ f.line = Number(from[1])
      BY <1>1, <2>2 DEF SoundFrame
    <3>3. /\ HasStatement(from)' /\ Statement(from)'.tok = f.kind
          /\ f.line = Number(from[1])'
      <4> HIDE DEF from
      <4> QED
        BY <1>2, <3>1, <3>2
    <3> QED
      BY <3>3 DEF SoundFrame
  <2> QED
    BY <2>1, <2>2
<1> QED
  BY <1>1, <1>3, SoundNext

\* Typing over the buffer leaves the frames that point into the program.
LEMMA ForgottenType ==
  ASSUME IInv, prog' = prog
  PROVE  Forgotten \in Seq(SoundFrames')
<1>1. stack \in Seq(SoundFrames)
  BY DEF IInv
<1>2. ASSUME NEW i \in DOMAIN stack
      PROVE  Forgotten[i] \in SoundFrames'
  <2>1. PICK f \in SoundFrames : f = stack[i]
    BY <1>1, ElementType
  <2>2. f \in Frames
    BY DEF SoundFrames
  <2>3. CASE f.kind \in {"if", "local"} \/ f.at[1] # 0
    <3>1. Forgotten[i] = f
      BY <2>1, <2>3 DEF Forgotten
    <3> QED
      BY <2>3, <3>1, ProgramFrame DEF GoesOn
  <2>4. CASE f.kind \notin {"if", "local"} /\ f.at[1] = 0
    <3>1. PICK g : g = [f EXCEPT !.at = Nowhere]
      OBVIOUS
    <3>2. Forgotten[i] = g
      BY <2>1, <2>4, <3>1 DEF Forgotten
    <3>3. f \in [kind : GoesOn, at : Places, line : Nat, var : Seq(Nat)]
      BY <2>2, <2>4 DEF Frames, IfFrame, LocalFrame
    <3>4. g \in Frames /\ g.at = Nowhere
      BY <3>1, <3>3 DEF Frames, Nowhere, Places
    <3>5. SoundFrame(g)'
      BY <3>4 DEF SoundFrame
    <3> QED
      BY <3>2, <3>4, <3>5, SoundNext
  <2> QED
    BY <2>3, <2>4
<1>3. DOMAIN stack = 1..Len(stack) /\ Len(stack) \in Nat
  BY <1>1
<1>4. Forgotten \in [1..Len(stack) -> SoundFrames']
  <2>1. Forgotten = [i \in 1..Len(stack) |-> Forgotten[i]]
    BY <1>3 DEF Forgotten
  <2> QED
    BY <1>2, <1>3, <2>1
<1> QED
  BY <1>3, <1>4, FunctionIsSeq

LEMMA TypeCommandInv ==
  ASSUME IInv, NEW c \in Commands, TypeCommand(c)
  PROVE  IInv'
<1>1. CoreOK
  BY DEF IInv
<1>2. CoreOK'
  BY <1>1, NoErrorType, StartPlace DEF TypeCommand, CoreOK
<1>3. LineMatchesCode'
  <2>1. c \in Seq(Statements) /\ Len(prog) \in Nat
    BY <1>1, ProgramsAssumption, TextType, 0 \in 0..Len(prog) DEF Statements, CoreOK
  <2> QED
    BY <2>1 DEF TypeCommand, LineMatchesCode, IsPlace, Text, Number
<1>4. stack' \in Seq(SoundFrames')
  BY ForgottenType DEF TypeCommand
<1> QED
  BY <1>2, <1>3, <1>4 DEF IInv

LEMMA TypeNoCommandInv ==
  ASSUME IInv, TypeNoCommand
  PROVE  IInv'
<1>1. CoreOK
  BY DEF IInv
<1>2. error' \in [kind : Messages, line : Nat]
  <2>1. "typed" \in Messages /\ lineNumber \in Nat
    BY <1>1 DEF Messages, CoreOK
  <2> QED
    BY <2>1, NoErrorType DEF TypeNoCommand
<1>3. CoreOK'
  BY <1>1, <1>2 DEF TypeNoCommand, CoreOK
<1>4. LineMatchesCode'
  BY DEF TypeNoCommand, LineMatchesCode
<1>5. stack' \in Seq(SoundFrames')
  BY ForgottenType DEF TypeNoCommand
<1> QED
  BY <1>3, <1>4, <1>5 DEF IInv

LEMMA TypeLineInv ==
  ASSUME IInv, NEW p \in Programs, TypeLine(p)
  PROVE  IInv'
<1>1. CoreOK'
  BY NoErrorType, StartPlace DEF IInv, TypeLine, CoreOK
<1>2. LineMatchesCode'
  BY DEF TypeLine, LineMatchesCode
<1>3. stack' \in Seq(SoundFrames')
  <2>1. <<>> \in Seq(SoundFrames')
    BY EmptyType
  <2> QED
    BY <2>1 DEF TypeLine
<1> QED
  BY <1>1, <1>2, <1>3 DEF IInv

\* New zeroes a link; the text stays.
LEMMA NewInv ==
  ASSUME IInv, New
  PROVE  IInv'
<1>1. /\ CoreOK /\ mode = "run" /\ lineNumber = Number(code[1])
      /\ After(code) \in Places /\ IsPlace(After(code)) /\ After(code)[1] = code[1]
  BY AtFacts DEF New
<1>2. CoreOK'
  BY <1>1 DEF New, CoreOK
<1>3. LineMatchesCode'
  BY <1>1 DEF New, LineMatchesCode, IsPlace, Text, Number
<1>4. stack' \in Seq(SoundFrames')
  <2>1. <<>> \in Seq(SoundFrames')
    BY EmptyType
  <2> QED
    BY <2>1 DEF New
<1> QED
  BY <1>2, <1>3, <1>4 DEF IInv

LEMMA StartLineCore ==
  ASSUME CoreOK, mode = "run", NEW l \in Int, NEW c \in Nat, StartLine(l, c)
  PROVE  CoreOK' /\ LineMatchesCode' /\ UNCHANGED memory
<1>1. CASE l \in 1..Len(prog)
  <2>1. Text(l) \in Seq(Statements) /\ Number(l) \in Nat /\ Len(prog) \in Nat
    BY <1>1, TextType, 0 \in 0..Len(prog)
  <2>2. CoreOK' /\ UNCHANGED memory
    BY <1>1, <2>1 DEF StartLine, CoreOK, memory, Places
  <2>3. LineMatchesCode'
    BY <1>1, <2>1, <2>2 DEF StartLine, LineMatchesCode, IsPlace, Text, Number, memory
  <2> QED
    BY <2>2, <2>3
<1>2. CASE l \notin 1..Len(prog)
  <2>1. ToPrompt(error) /\ lineNumber' = lineNumber
    BY <1>2 DEF StartLine
  <2>2. error \in [kind : Messages, line : Nat] /\ lineNumber \in Nat
    BY DEF CoreOK
  <2> QED
    BY <2>1, <2>2, ToPromptCore
<1> QED
  BY <1>1, <1>2

\* What an action must show, besides what it does to the stack.
Stays == CoreOK' /\ LineMatchesCode' /\ UNCHANGED memory

LEMMA StaysInv ==
  ASSUME Stays, stack' \in Seq(SoundFrames)
  PROVE  IInv'
BY Combine DEF Stays

LEMMA BackToPrompt ==
  ASSUME CoreOK, ToPrompt(error), lineNumber' = lineNumber
  PROVE  Stays
<1>1. error \in [kind : Messages, line : Nat] /\ lineNumber \in Nat
  BY DEF CoreOK
<1> QED
  BY <1>1, ToPromptCore DEF Stays

LEMMA OtherReport ==
  ASSUME CoreOK, Report("other")
  PROVE  Stays
<1>1. "other" \in Messages
  BY DEF Messages
<1> QED
  BY <1>1, ReportCore DEF Stays

LEMMA EndOfLineInv ==
  ASSUME IInv, EndOfLine
  PROVE  IInv'
<1>1. CoreOK /\ stack \in Seq(SoundFrames) /\ mode = "run"
  BY DEF IInv, EndOfLine, Running
<1>2. CASE lineNumber = 0
  BY <1>1, <1>2, BackToPrompt, StaysInv DEF EndOfLine
<1>3. CASE lineNumber # 0 /\ code[1] = 0
  BY <1>1, <1>3, LoseCore, Combine DEF EndOfLine
<1>4. CASE lineNumber # 0 /\ code[1] # 0
  <2>1. code[1] + 1 \in Int /\ cpu \in Nat
    BY <1>1 DEF CoreOK, Places
  <2>2. StartLine(code[1] + 1, cpu) /\ stack' = stack
    BY <1>4 DEF EndOfLine
  <2> QED
    BY <1>1, <2>1, <2>2, StartLineCore, Combine
<1> QED
  BY <1>2, <1>3, <1>4

LEMMA BreakInv ==
  ASSUME IInv, Break \/ Fail
  PROVE  IInv'
<1>1. CoreOK /\ stack \in Seq(SoundFrames) /\ stack' = stack
  BY DEF IInv, Break, Fail
<1>2. "Break" \in Messages /\ "other" \in Messages
  BY DEF Messages
<1>3. Report("Break") \/ Report("other")
  BY DEF Break, Fail
<1> QED
  BY <1>1, <1>2, <1>3, ReportCore, Combine

LEMMA OtherInv ==
  ASSUME IInv, Other
  PROVE  IInv'
<1>1. CoreOK /\ stack \in Seq(SoundFrames) /\ mode = "run" /\ HasStatement(code)
  BY AtFacts DEF Other
<1>2. CASE Continue /\ stack' = stack
  BY <1>1, <1>2, ContinueCore, Combine
<1>3. CASE Lose(stack)
  BY <1>1, <1>3, LoseCore, Combine
<1> QED
  BY <1>2, <1>3 DEF Other

LEMMA EndInv ==
  ASSUME IInv, End
  PROVE  IInv'
BY AtFacts, BackToPrompt, StaysInv DEF End

LEMMA RunInv ==
  ASSUME IInv, Run
  PROVE  IInv'
<1>1. CoreOK /\ mode = "run" /\ stack' = <<>>
  BY AtFacts DEF Run
<1>2. PICK l \in {0, 1} : StartLine(l, cpu + 1)
  BY DEF Run
<1>3. cpu + 1 \in Nat /\ l \in Int
  BY <1>1 DEF CoreOK
<1>4. Stays
  BY <1>1, <1>2, <1>3, StartLineCore DEF Stays
<1>5. <<>> \in Seq(SoundFrames)
  BY EmptyType
<1> QED
  BY <1>1, <1>4, <1>5, StaysInv

LEMMA ClearInv ==
  ASSUME IInv, Clear
  PROVE  IInv'
<1>1. mode = "run" /\ HasStatement(code) /\ Continue /\ stack' = <<>>
  BY AtFacts DEF Clear
<1>2. Stays
  BY <1>1, ContinueCore DEF Stays
<1>3. <<>> \in Seq(SoundFrames)
  BY EmptyType
<1> QED
  BY <1>1, <1>2, <1>3, StaysInv

LEMMA JumpInv ==
  ASSUME IInv, Then \/ GotoStatement
  PROVE  IInv'
<1>1. /\ mode = "run" /\ HasStatement(code) /\ code \in Places
      /\ CoreOK /\ stack \in Seq(SoundFrames) /\ lineNumber = Number(code[1])
  BY AtFacts DEF Then, GotoStatement
<1>2. stack' = stack
  BY DEF Then, GotoStatement
<1>3. CASE Continue
  BY <1>1, <1>2, <1>3, ContinueCore, Combine
<1>4. CASE Resume(<<code[1], Len(Text(code[1])) + 1>>, lineNumber)
  <2>1. code[1] \in 0..Len(prog)
    BY <1>1 DEF HasStatement, IsPlace
  <2>2. Text(code[1]) \in Seq(Statements) /\ Len(prog) \in Nat
    BY <1>1, <2>1, TextType
  <2> DEFINE p == <<code[1], Len(Text(code[1])) + 1>>
  <2>3. p \in Places /\ IsPlace(p) /\ lineNumber = Number(p[1])
    BY <1>1, <2>1, <2>2 DEF Places, IsPlace
  <2>4. Stays
    <3> HIDE DEF p
    <3> QED
      BY <1>1, <1>4, <2>3, ResumeCore DEF p, Stays
  <2> QED
    BY <1>1, <1>2, <2>4, StaysInv
<1>5. CASE \E n : GoTo(n)
  BY <1>1, <1>2, <1>5, GoToCore, Combine
<1> QED
  BY <1>3, <1>4, <1>5 DEF Then, GotoStatement

-----------------------------------------------------------------------------
(***************************************************************************)
(* The structures.                                                         *)
(***************************************************************************)
LEMMA PlainFrames ==
  /\ IfFrame \in SoundFrames /\ LocalFrame \in SoundFrames
  /\ \A k \in Nat : Locals(k) \in Seq(SoundFrames)
<1>1. IfFrame \in SoundFrames /\ LocalFrame \in SoundFrames
  BY DEF IfFrame, LocalFrame, SoundFrames, Frames, SoundFrame, GoesOn
<1>2. \A k \in Nat : Locals(k) \in [1..k -> SoundFrames]
  BY <1>1 DEF Locals
<1> QED
  BY <1>1, <1>2, FunctionIsSeq

LEMMA IfInv ==
  ASSUME IInv, If
  PROVE  IInv'
<1>1. mode = "run" /\ HasStatement(code) /\ stack \in Seq(SoundFrames)
  BY AtFacts DEF If
<1>2. Push(stack, IfFrame) \in Seq(SoundFrames)
  BY <1>1, PlainFrames, StackOps
<1>3. CASE Continue /\ stack' = Push(stack, IfFrame)
  BY <1>1, <1>2, <1>3, ContinueCore, Combine
<1>4. CASE Scan(After(code), {"else", "endif"}, Push(stack, IfFrame), stack)
  <2>1. Stays /\ (stack' = Push(stack, IfFrame) \/ stack' = stack)
    BY <1>1, <1>4, ScanCore DEF Stays
  <2> QED
    BY <1>1, <1>2, <2>1, StaysInv
<1> QED
  BY <1>3, <1>4 DEF If

LEMMA UnmatchedInv ==
  ASSUME IInv, NEW kind, Unmatched(kind)
  PROVE  IInv'
BY UnmatchedCore, Combine DEF IInv

LEMMA ElseInv ==
  ASSUME IInv, Else \/ EndIf
  PROVE  IInv'
<1>1. mode = "run" /\ HasStatement(code) /\ stack \in Seq(SoundFrames)
  BY AtFacts DEF Else, EndIf
<1>2. CASE Unmatched("if")
  BY <1>2, UnmatchedInv
<1>3. ASSUME TopIs("if")
      PROVE  Pop(stack) \in Seq(SoundFrames)
  BY <1>1, <1>3, StackOps DEF TopIs
<1>4. CASE TopIs("if") /\ Scan(After(code), {"endif"}, stack, Pop(stack))
  <2>1. Stays /\ (stack' = stack \/ stack' = Pop(stack))
    BY <1>1, <1>4, ScanCore DEF Stays
  <2> QED
    BY <1>1, <1>3, <1>4, <2>1, StaysInv
<1>5. CASE TopIs("if") /\ Continue /\ stack' = Pop(stack)
  BY <1>1, <1>3, <1>5, ContinueCore, Combine
<1> QED
  BY <1>2, <1>4, <1>5 DEF Else, EndIf

LEMMA RepeatInv ==
  ASSUME IInv, Repeat
  PROVE  IInv'
<1>1. At("repeat") /\ "repeat" \in GoesOn /\ <<>> \in Seq(Nat) /\ "repeat" # "while"
  BY EmptyType DEF Repeat, GoesOn
<1>2. mode = "run" /\ HasStatement(code) /\ stack \in Seq(SoundFrames)
  BY <1>1, AtFacts
<1>3. Push(stack, Frame("repeat", After(code), <<>>)) \in Seq(SoundFrames)
  BY <1>1, <1>2, NewFrame, StackOps
<1> QED
  BY <1>2, <1>3, ContinueCore, Combine DEF Repeat

LEMMA UntilInv ==
  ASSUME IInv, Until
  PROVE  IInv'
<1>1. /\ mode = "run" /\ HasStatement(code) /\ stack \in Seq(SoundFrames)
      /\ "repeat" \in GoesOn
  BY AtFacts DEF Until, GoesOn
<1>2. CASE Unmatched("repeat")
  BY <1>2, UnmatchedInv
<1>3. CASE TopIs("repeat") /\ Continue /\ stack' = Pop(stack)
  <2>1. Pop(stack) \in Seq(SoundFrames)
    BY <1>1, <1>3, StackOps DEF TopIs
  <2> QED
    BY <1>1, <1>3, <2>1, ContinueCore, Combine
<1>4. CASE /\ TopIs("repeat") /\ stack' = stack
           /\ Resume(Last(stack).at, Last(stack).line)
  BY <1>1, <1>4, TopFrame, Combine
<1> QED
  BY <1>2, <1>3, <1>4 DEF Until

LEMMA WhileInv ==
  ASSUME IInv, While
  PROVE  IInv'
<1>1. At("while") /\ "while" \in GoesOn /\ <<>> \in Seq(Nat)
  BY EmptyType DEF While, GoesOn
<1>2. mode = "run" /\ HasStatement(code) /\ stack \in Seq(SoundFrames)
  BY <1>1, AtFacts
<1>3. CASE Continue /\ stack' = Push(stack, Frame("while", code, <<>>))
  <2>1. Push(stack, Frame("while", code, <<>>)) \in Seq(SoundFrames)
    BY <1>1, <1>2, NewFrame, StackOps
  <2> QED
    BY <1>2, <1>3, <2>1, ContinueCore, Combine
<1>4. CASE Scan(After(code), {"wend"}, stack, stack)
  <2>1. Stays /\ stack' = stack
    BY <1>2, <1>4, ScanCore DEF Stays
  <2> QED
    BY <1>2, <2>1, StaysInv
<1> QED
  BY <1>3, <1>4 DEF While

LEMMA ReturnInv ==
  ASSUME IInv, mode = "run", NEW kind \in GoesOn, Return(kind)
  PROVE  IInv'
<1>1. stack \in Seq(SoundFrames) /\ stack # <<>>
  BY DEF IInv, Return, TopIs
<1>2. Pop(stack) \in Seq(SoundFrames)
  BY <1>1, StackOps
<1> QED
  BY <1>2, TopFrame, Combine DEF Return

LEMMA WEndInv ==
  ASSUME IInv, WEnd \/ ReturnStatement
  PROVE  IInv'
<1>1. /\ mode = "run" /\ CoreOK /\ stack \in Seq(SoundFrames)
      /\ "while" \in GoesOn /\ "gosub" \in GoesOn
      /\ "Return without Gosub" \in Messages
  BY AtFacts DEF WEnd, ReturnStatement, GoesOn, Messages
<1>2. CASE Unmatched("while")
  BY <1>2, UnmatchedInv
<1>3. CASE Report("Return without Gosub") /\ stack' = stack
  BY <1>1, <1>3, ReportCore, Combine
<1>4. CASE Return("while") \/ Return("gosub")
  BY <1>1, <1>4, ReturnInv
<1> QED
  BY <1>2, <1>3, <1>4 DEF WEnd, ReturnStatement

LEMMA ForInv ==
  ASSUME IInv, For
  PROVE  IInv'
<1>1. At("for") /\ "for" \in GoesOn /\ "for" # "while"
  BY DEF For, GoesOn
<1>2. /\ mode = "run" /\ HasStatement(code) /\ CoreOK /\ stack \in Seq(SoundFrames)
      /\ Statement(code).arg \in Seq(Nat)
  BY <1>1, AtFacts
<1>3. Push(stack, Frame("for", After(code), Statement(code).arg)) \in Seq(SoundFrames)
  BY <1>1, <1>2, NewFrame, StackOps
<1>4. Stays
  BY <1>2, ContinueCore, OtherReport DEF For, Stays
<1> QED
  BY <1>3, <1>4, StaysInv DEF For

LEMMA NextLoopInv ==
  ASSUME IInv, NextLoop
  PROVE  IInv'
<1>1. /\ mode = "run" /\ HasStatement(code) /\ CoreOK /\ stack \in Seq(SoundFrames)
      /\ "for" \in GoesOn
  BY AtFacts DEF NextLoop, GoesOn
<1>2. CASE Unmatched("for")
  BY <1>2, UnmatchedInv
<1>3. CASE Report("other") /\ stack' = stack
  BY <1>1, <1>3, OtherReport, StaysInv
<1>4. CASE TopIs("for") /\ (Continue \/ Report("other")) /\ stack' = Pop(stack)
  <2>1. Pop(stack) \in Seq(SoundFrames)
    BY <1>1, <1>4, StackOps DEF TopIs
  <2>2. Stays
    BY <1>1, <1>4, ContinueCore, OtherReport DEF Stays
  <2> QED
    BY <1>4, <2>1, <2>2, StaysInv
<1>5. CASE /\ TopIs("for") /\ stack' = stack
           /\ Resume(Last(stack).at, Last(stack).line)
  BY <1>1, <1>5, TopFrame, Combine
<1> QED
  BY <1>2, <1>3, <1>4, <1>5 DEF NextLoop

-----------------------------------------------------------------------------
(***************************************************************************)
(* Calls.                                                                  *)
(***************************************************************************)
LEMMA GosubInv ==
  ASSUME IInv, Gosub
  PROVE  IInv'
<1>1. At("gosub") /\ "gosub" \in GoesOn /\ <<>> \in Seq(Nat) /\ "gosub" # "while"
  BY EmptyType DEF Gosub, GoesOn
<1>2. mode = "run" /\ stack \in Seq(SoundFrames)
  BY <1>1, AtFacts
<1>3. Push(stack, Frame("gosub", After(code), <<>>)) \in Seq(SoundFrames)
  BY <1>1, <1>2, NewFrame, StackOps
<1>4. Stays
  BY <1>2, GoToCore, OtherReport DEF Gosub, Stays, IInv
<1> QED
  BY <1>3, <1>4, StaysInv DEF Gosub

\* DEFPROC begins its line, so what follows it is a place.
LEMMA DefinitionPlace ==
  ASSUME CoreOK, NEW name, NEW l \in LinesDefining(name)
  PROVE  /\ <<l, 2>> \in Places /\ IsPlace(<<l, 2>>) /\ Number(l) \in Nat
<1>1. l \in 1..Len(prog) /\ prog[l].code # <<>>
  BY DEF LinesDefining
<1>2. /\ Len(prog) \in Nat /\ Text(l) \in Seq(Statements) /\ Number(l) \in Nat
      /\ l # 0
  BY <1>1, TextType, 0 \in 0..Len(prog)
<1>3. Text(l) # <<>>
  BY <1>1, <1>2 DEF Text
<1>4. Len(Text(l)) \in Nat /\ Len(Text(l)) >= 1
  BY <1>2, <1>3
<1> QED
  BY <1>1, <1>2, <1>4 DEF Places, IsPlace

LEMMA ArgumentErrorCore ==
  ASSUME CoreOK, NEW l, Number(l) \in Nat, ArgumentError(l)
  PROVE  Stays
<1>1. [kind |-> "argument", line |-> Number(l)] \in [kind : Messages, line : Nat]
  BY DEF Messages
<1> QED
  BY <1>1, ToPromptCore DEF ArgumentError, Stays

LEMMA ProcInv ==
  ASSUME IInv, Proc
  PROVE  IInv'
<1>1. At("proc") /\ "proc" \in GoesOn /\ <<>> \in Seq(Nat) /\ "proc" # "while"
  BY EmptyType DEF Proc, GoesOn
<1>2. mode = "run" /\ CoreOK /\ stack \in Seq(SoundFrames)
  BY <1>1, AtFacts
<1>3. /\ Push(stack, Frame("proc", After(code), <<>>)) \in Seq(SoundFrames)
      /\ Push(stack, Frame("proc", Nowhere, <<>>)) \in Seq(SoundFrames)
  BY <1>1, <1>2, NewFrame, StackOps
<1>4. CASE Report("other") /\ stack' = stack
  BY <1>2, <1>4, OtherReport, StaysInv
<1>5. ASSUME NEW l \in LinesDefining(Statement(code).arg), NEW k \in 0..MaxLocals,
             stack' = Push(stack, Frame("proc", After(code), <<>>)) \o Locals(k),
             Resume(<<l, 2>>, Number(l)) \/ ArgumentError(l)
      PROVE  IInv'
  <2>1. <<l, 2>> \in Places /\ IsPlace(<<l, 2>>) /\ Number(l) \in Nat
    BY <1>2, DefinitionPlace
  <2>2. Number(l) = Number(<<l, 2>>[1])
    OBVIOUS
  <2>3. Stays
    BY <1>2, <1>5, <2>1, <2>2, ResumeCore, ArgumentErrorCore DEF Stays
  <2>4. Locals(k) \in Seq(SoundFrames)
    BY PlainFrames, ProgramsAssumption
  <2>5. stack' \in Seq(SoundFrames)
    BY <1>3, <1>5, <2>4, StackOps
  <2> QED
    BY <2>3, <2>5, StaysInv
<1>6. ASSUME NEW l \in LinesDefining(Statement(code).arg),
             stack' = Push(stack, Frame("proc", Nowhere, <<>>)), ArgumentError(l)
      PROVE  IInv'
  <2>1. Number(l) \in Nat
    BY <1>2, DefinitionPlace
  <2> QED
    BY <1>2, <1>3, <1>6, <2>1, ArgumentErrorCore, StaysInv
<1> QED
  BY <1>4, <1>5, <1>6 DEF Proc

LEMMA DefProcInv ==
  ASSUME IInv, DefProc
  PROVE  IInv'
BY AtFacts, OtherReport, StaysInv DEF DefProc

LEMMA LocalInv ==
  ASSUME IInv, Local
  PROVE  IInv'
<1>1. /\ mode = "run" /\ HasStatement(code) /\ CoreOK /\ stack \in Seq(SoundFrames)
      /\ Continue \/ Report("other")
  BY AtFacts DEF Local
<1>2. PICK k \in 0..MaxLocals : stack' = stack \o Locals(k)
  BY DEF Local
<1>3. Locals(k) \in Seq(SoundFrames)
  BY PlainFrames, ProgramsAssumption
<1>4. stack' \in Seq(SoundFrames)
  BY <1>1, <1>2, <1>3, StackOps
<1>5. Stays
  BY <1>1, ContinueCore, OtherReport DEF Stays
<1> QED
  BY <1>4, <1>5, StaysInv

\* LocalRestore stops at a frame, or at the bottom of the stack.
LEMMA LastOtherType ==
  ASSUME NEW F, stack \in Seq(F)
  PROVE  LastOther \in 0..Len(stack)
<1>1. LastOther = SelectLastInSeq(stack, LAMBDA f : f.kind # "local")
  BY DEF LastOther
<1> QED
  BY <1>1, LastOtherFacts

LEMMA EndProcInv ==
  ASSUME IInv, EndProc
  PROVE  IInv'
<1>1. /\ mode = "run" /\ CoreOK /\ stack \in Seq(SoundFrames)
      /\ "proc" \in GoesOn /\ "structure" \in Messages
  BY AtFacts DEF EndProc, GoesOn, Messages
<1> DEFINE rest == SubSeq(stack, 1, LastOther)
<1>2. rest \in Seq(SoundFrames)
  BY <1>1, LastOtherType, StackOps
<1>3. CASE rest # <<>> /\ Last(rest).kind = "proc"
  <2>1. Resume(Last(rest).at, Last(rest).line) /\ stack' = Pop(rest)
    BY <1>3 DEF EndProc
  <2>2. Last(rest) \in SoundFrames /\ Pop(rest) \in Seq(SoundFrames)
    <3> HIDE DEF rest
    <3> QED
      BY <1>2, <1>3, StackOps
  <2>3. LET f == Last(rest) IN
          f.at = Nowhere
            \/ (f.at \in Places /\ IsPlace(f.at) /\ f.line = Number(f.at[1]))
    <3> HIDE DEF rest
    <3> QED
      BY <1>1, <1>3, <2>2, FramePlace
  <2>4. Stays
    <3> HIDE DEF rest
    <3> QED
      BY <1>1, <2>1, <2>3, ResumeCore DEF Stays
  <2> QED
    BY <2>1, <2>2, <2>4, StaysInv
<1>4. CASE ~(rest # <<>> /\ Last(rest).kind = "proc")
  <2>1. Report("structure") /\ stack' = rest
    BY <1>4 DEF EndProc
  <2>2. Stays
    BY <1>1, <2>1, ReportCore DEF Stays
  <2> QED
    BY <1>2, <2>1, <2>2, StaysInv
<1> QED
  BY <1>3, <1>4

-----------------------------------------------------------------------------
(***************************************************************************)
(* The theorems.                                                           *)
(***************************************************************************)
LEMMA StepInv ==
  ASSUME IInv, Step
  PROVE  IInv'
BY EndOfLineInv, BreakInv, OtherInv, EndInv, RunInv, ClearInv, NewInv, JumpInv,
   IfInv, ElseInv, RepeatInv, UntilInv, WhileInv, WEndInv, ForInv, NextLoopInv,
   GosubInv, ProcInv, DefProcInv, LocalInv, EndProcInv
   DEF Step

LEMMA NextInv ==
  ASSUME IInv, [Next]_vars
  PROVE  IInv'
<1>1. CASE UNCHANGED vars
  <2>1. CoreOK' /\ LineMatchesCode' /\ UNCHANGED memory /\ stack' \in Seq(SoundFrames)
    BY <1>1 DEF IInv, CoreOK, LineMatchesCode, IsPlace, Text, Number, vars, memory
  <2> QED
    BY <2>1, Combine
<1>2. CASE \E c \in Commands : TypeCommand(c)
  BY <1>2, TypeCommandInv
<1>3. CASE \E p \in Edits : TypeLine(p)
  BY <1>3, TypeLineInv, ProgramsAssumption
<1>4. CASE TypeNoCommand
  BY <1>4, TypeNoCommandInv
<1>5. CASE Step
  BY <1>5, StepInv
<1> QED
  BY <1>1, <1>2, <1>3, <1>4, <1>5 DEF Next

LEMMA Invariance == Spec => []IInv
<1>1. Init => IInv
  BY InitInv
<1>2. IInv /\ [Next]_vars => IInv'
  BY NextInv
<1> QED
  BY <1>1, <1>2, PTL DEF Spec

\* Whatever the programs and commands are, every variable keeps its type.
THEOREM TypeCorrect == Spec => []TypeOK
<1>1. ASSUME IInv PROVE TypeOK
  <2>1. SoundFrames \subseteq Frames
    BY DEF SoundFrames
  <2>2. stack \in Seq(SoundFrames)
    BY <1>1 DEF IInv
  <2>3. stack \in Seq(Frames)
    BY <2>1, <2>2
  <2> QED
    BY <1>1, <2>3 DEF IInv, CoreOK, TypeOK
<1>2. IInv => TypeOK
  BY <1>1
<1> QED
  BY <1>2, Invariance, PTL

\* Whatever the programs and commands are, DLineNumber is the number of the line
\* that DCodePtr is in, and DCodePtr is at a statement or behind the last one.
THEOREM LineTheorem == Spec => []LineMatchesCode
<1>1. IInv => LineMatchesCode
  BY DEF IInv
<1> QED
  BY <1>1, Invariance, PTL

\* Whatever the programs and commands are, the place in every frame is the one
\* behind (for WHILE: of) the statement that stacked it, unless the buffer that
\* held it has been typed over; and the frame has the number of that line.
THEOREM FramesTheorem == Spec => []FramesSound
<1>1. ASSUME IInv, NEW i \in DOMAIN stack PROVE SoundFrame(stack[i])
  <2>1. stack[i] \in SoundFrames
    BY <1>1, ElementType DEF IInv
  <2> QED
    BY <2>1 DEF SoundFrames
<1>2. IInv => FramesSound
  BY <1>1 DEF FramesSound
<1> QED
  BY <1>2, Invariance, PTL

-----------------------------------------------------------------------------
(***************************************************************************)
(* Error messages.                                                         *)
(***************************************************************************)
\* What a statement may do to the error: nothing, or name the current line.
NamesLine == error' = error \/ error'.kind = "argument" \/ error'.line = lineNumber

LEMMA Quiet ==
  /\ \A p, n : Resume(p, n) => NamesLine
  /\ \A l, c : StartLine(l, c) => NamesLine
  /\ \A s : Lose(s) => NamesLine
  /\ ToPrompt(error) => NamesLine
  /\ Continue => NamesLine
BY DEF Resume, StartLine, Lose, ToPrompt, Continue, NamesLine

LEMMA Loud ==
  /\ \A kind : Report(kind) => NamesLine
  /\ \A l : ArgumentError(l) => NamesLine
BY DEF Report, ArgumentError, ToPrompt, NamesLine

LEMMA Jumps ==
  /\ \A n : GoTo(n) => NamesLine
  /\ \A a, toks, s, t : Scan(a, toks, s, t) => NamesLine
  /\ \A kind : Unmatched(kind) \/ Return(kind) => NamesLine
BY Quiet, Loud DEF GoTo, Scan, Unmatched, Return

LEMMA StepNamesLine ==
  ASSUME Step
  PROVE  NamesLine
<1>1. CASE EndOfLine \/ Break \/ Fail \/ Other \/ End \/ Run \/ Clear
  BY <1>1, Quiet, Loud DEF EndOfLine, Break, Fail, Other, End, Run, Clear
<1>2. CASE New
  BY <1>2 DEF New, NamesLine
<1>3. CASE Then \/ If \/ Else \/ EndIf
  BY <1>3, Quiet, Jumps DEF Then, If, Else, EndIf
<1>4. CASE Repeat \/ Until \/ While \/ WEnd
  BY <1>4, Quiet, Jumps DEF Repeat, Until, While, WEnd
<1>5. CASE For \/ NextLoop
  BY <1>5, Quiet, Loud, Jumps DEF For, NextLoop
<1>6. CASE GotoStatement \/ Gosub \/ ReturnStatement
  BY <1>6, Loud, Jumps DEF GotoStatement, Gosub, ReturnStatement
<1>7. CASE Proc
  BY <1>7, Quiet, Loud DEF Proc
<1>8. CASE DefProc \/ Local \/ EndProc
  BY <1>8, Quiet, Loud DEF DefProc, Local, EndProc
<1> QED
  BY <1>1, <1>2, <1>3, <1>4, <1>5, <1>6, <1>7, <1>8 DEF Step

LEMMA StepsRun ==
  ASSUME Step
  PROVE  mode = "run"
BY DEF Step, EndOfLine, Break, Fail, Other, End, Run, Clear, New, Then, If, Else,
       EndIf, Repeat, Until, While, WEnd, For, NextLoop, GotoStatement, Gosub,
       ReturnStatement, Proc, DefProc, Local, EndProc, At, Running

\* Whatever the programs and commands are, when a statement fails the message
\* names its line (for an error in the arguments of a PROC: the line of DEFPROC).
THEOREM ErrorTheorem == Spec => ErrorsNameTheirLine
<1>1. ASSUME IInv, [Next]_vars
      PROVE  [mode = "run" /\ error' \notin {error, NoError}
                /\ error'.kind # "argument" => error'.line = Number(code[1])]_vars
  <2>1. CASE UNCHANGED vars
    BY <2>1
  <2>2. CASE Step
    <3>1. lineNumber = Number(code[1])
      BY <1>1, <2>2, StepsRun DEF IInv, LineMatchesCode
    <3> QED
      BY <2>2, <3>1, StepNamesLine DEF NamesLine
  <2>3. CASE \/ \E c \in Commands : TypeCommand(c)
             \/ \E p \in Edits : TypeLine(p)
             \/ TypeNoCommand
    <3>1. mode = "prompt"
      BY <2>3 DEF TypeCommand, TypeLine, TypeNoCommand
    <3> QED
      BY <3>1
  <2> QED
    BY <1>1, <2>1, <2>2, <2>3 DEF Next
<1>2. Spec => [][Next]_vars
  BY PTL DEF Spec
<1> QED
  BY <1>1, <1>2, Invariance, PTL DEF ErrorsNameTheirLine

-----------------------------------------------------------------------------
(***************************************************************************)
(* What is open along a program.                                           *)
(***************************************************************************)
Opened == Seq(Opens \cup {"bad"})
TextLines == [num : Nat \ {0}, code : Seq(Statements)]

LEMMA FrontFacts ==
  ASSUME NEW open \in Opened, open # <<>>
  PROVE  /\ Front(open) \in Opened /\ Len(Front(open)) = Len(open) - 1
         /\ \A k \in 1..(Len(open) - 1) : Front(open)[k] = open[k]
<1>1. Len(open) \in Nat /\ Len(open) > 0
  BY DEF Opened
<1>2. PICK m \in 0..Len(open) : m = Len(open) - 1
  <2>1. Len(open) - 1 \in 0..Len(open)
    BY <1>1
  <2> QED
    BY <2>1
<1>3. Front(open) = SubSeq(open, 1, m)
  BY <1>2 DEF Front
<1>4. Len(SubSeq(open, 1, m)) = m /\ \A k \in 1..m : SubSeq(open, 1, m)[k] = open[k]
  BY <1>1, <1>2 DEF Opened
<1> QED
  BY <1>2, <1>3, <1>4, SubSeqType DEF Opened

LEMMA ReadingType ==
  ASSUME NEW open \in Opened, NEW x \in Statements
  PROVE  Reading(open, x) \in Opened
<1>1. \A t \in Opens \cup {"bad"} : Append(open, t) \in Opened
  BY AppendType DEF Opened
<1>2. open # <<>> => Front(open) \in Opened
  BY DEF Front, Opened
<1> QED
  BY <1>1, <1>2 DEF Reading

\* A recursion over the statements of a line has the values it names.
LEMMA AlongFacts ==
  ASSUME NEW open \in Opened, NEW w \in Seq(Statements)
  PROVE  /\ OpenAlong(open, w) \in [0..Len(w) -> Opened]
         /\ OpenAlong(open, w)[0] = open
         /\ \A i \in 1..Len(w) :
              OpenAlong(open, w)[i] = Reading(OpenAlong(open, w)[i - 1], w[i])
<1> DEFINE n == Len(w)
           Solves(f) == f = [i \in 0..n |-> IF i = 0 THEN open
                                            ELSE Reading(f[i - 1], w[i])]
           g == [i \in 1..n |-> [s \in Opened |-> Reading(s, w[i])]]
<1>1. n \in Nat /\ \A i \in 1..n : w[i] \in Statements
  BY ElementType
<1>2. g \in [1..n -> [Opened -> Opened]]
  BY <1>1, ReadingType
<1>3. PICK f \in [0..n -> Opened] : f[0] = open /\ \A i \in 1..n : f[i] = g[i][f[i - 1]]
  <2>1. n \in Nat /\ Steps(g, n, Opened)
    BY <1>1, <1>2 DEF Steps
  <2> HIDE DEF n, g
  <2>2. \E f : Iteration(f, g, n, Opened, open)
    BY <2>1, Iterates
  <2> QED
    BY <2>2 DEF Iteration
<1>4. \A i \in 1..n : f[i - 1] \in Opened /\ i - 1 \in 0..n /\ i \in 0..n
  BY <1>1
<1>5. \A i \in 1..n : f[i] = Reading(f[i - 1], w[i])
  BY <1>3, <1>4
<1>6. Solves(f)
  <2> DEFINE h == [i \in 0..n |-> IF i = 0 THEN open ELSE Reading(f[i - 1], w[i])]
  <2>1. \A i \in 0..n : i # 0 => i \in 1..n
    BY <1>1
  <2>2. \A i \in 0..n : f[i] = h[i]
    BY <1>3, <1>5, <2>1
  <2>3. f = h
    BY <2>2
  <2> QED
    BY <2>3
<1>7. Solves(OpenAlong(open, w))
  <2>1. OpenAlong(open, w) = CHOOSE u : Solves(u)
    BY DEF OpenAlong
  <2> HIDE DEF Solves
  <2> QED
    BY <1>6, <2>1
<1> DEFINE u == OpenAlong(open, w)
<1> HIDE DEF u
<1>8. u = [i \in 0..n |-> IF i = 0 THEN open ELSE Reading(u[i - 1], w[i])]
  BY <1>7 DEF u
<1>9. /\ u = [i \in 0..n |-> u[i]] /\ u[0] = open
      /\ \A i \in 1..n : u[i] = Reading(u[i - 1], w[i])
  BY <1>1, <1>8
<1>10. \A i \in 0..n : u[i] = f[i]
  <2> DEFINE W == {i \in 0..n : u[i] = f[i]}
  <2>1. 0 \in W
    BY <1>1, <1>3, <1>9
  <2>2. \A i \in 1..n : i - 1 \in W => i \in W
    BY <1>4, <1>5, <1>9
  <2>3. \A i \in 0..n : i \in W
    <3> HIDE DEF W
    <3> QED
      BY <1>1, <2>1, <2>2, UpTo
  <2> QED
    BY <2>3
<1>11. u \in [0..n -> Opened]
  BY <1>3, <1>9, <1>10
<1> QED
  BY <1>9, <1>11 DEF u

LEMMA LinesFacts ==
  ASSUME NEW P \in Seq(TextLines)
  PROVE  /\ OpenAfterLines(P) \in [0..Len(P) -> Opened]
         /\ OpenAfterLines(P)[0] = <<>>
         /\ \A l \in 1..Len(P) :
              OpenAfterLines(P)[l]
                = OpenAlong(OpenAfterLines(P)[l - 1], P[l].code)[Len(P[l].code)]
<1> DEFINE n == Len(P)
           After1(s, l) == OpenAlong(s, P[l].code)[Len(P[l].code)]
           Solves(f) == f = [l \in 0..n |-> IF l = 0 THEN <<>>
                                            ELSE After1(f[l - 1], l)]
           g == [l \in 1..n |-> [s \in Opened |-> After1(s, l)]]
<1>1. n \in Nat /\ \A l \in 1..n : P[l].code \in Seq(Statements)
  <2>1. n \in Nat /\ \A l \in 1..n : P[l] \in TextLines
    BY ElementType
  <2> QED
    BY <2>1 DEF TextLines
<1>2. g \in [1..n -> [Opened -> Opened]]
  <2>1. ASSUME NEW l \in 1..n, NEW s \in Opened PROVE After1(s, l) \in Opened
    <3>1. Len(P[l].code) \in 0..Len(P[l].code)
      BY <1>1
    <3> QED
      BY <1>1, <3>1, AlongFacts
  <2> QED
    BY <2>1
<1>3. <<>> \in Opened
  BY DEF Opened
<1>4. PICK f \in [0..n -> Opened] : f[0] = <<>> /\ \A i \in 1..n : f[i] = g[i][f[i - 1]]
  <2>1. n \in Nat /\ Steps(g, n, Opened)
    BY <1>1, <1>2 DEF Steps
  <2> HIDE DEF n, g
  <2>2. \E f : Iteration(f, g, n, Opened, <<>>)
    BY <1>3, <2>1, Iterates
  <2> QED
    BY <2>2 DEF Iteration
<1>5. \A i \in 1..n : f[i - 1] \in Opened /\ i - 1 \in 0..n /\ i \in 0..n
  BY <1>1
<1>6. \A i \in 1..n : f[i] = After1(f[i - 1], i)
  BY <1>4, <1>5
<1> HIDE DEF After1
<1>7. Solves(f)
  <2> DEFINE h == [i \in 0..n |-> IF i = 0 THEN <<>> ELSE After1(f[i - 1], i)]
  <2>1. \A i \in 0..n : i # 0 => i \in 1..n
    BY <1>1
  <2>2. \A i \in 0..n : f[i] = h[i]
    BY <1>4, <1>6, <2>1
  <2>3. f = h
    BY <2>2
  <2> QED
    BY <2>3
<1>8. Solves(OpenAfterLines(P))
  <2>1. OpenAfterLines(P) = CHOOSE u : Solves(u)
    BY DEF OpenAfterLines, After1
  <2> HIDE DEF Solves
  <2> QED
    BY <1>7, <2>1
<1> DEFINE u == OpenAfterLines(P)
<1> HIDE DEF u
<1>9. u = [i \in 0..n |-> IF i = 0 THEN <<>> ELSE After1(u[i - 1], i)]
  BY <1>8 DEF u
<1>10. /\ u = [i \in 0..n |-> u[i]] /\ u[0] = <<>>
       /\ \A i \in 1..n : u[i] = After1(u[i - 1], i)
  BY <1>1, <1>9
<1>11. \A i \in 0..n : u[i] = f[i]
  <2> DEFINE W == {i \in 0..n : u[i] = f[i]}
  <2>1. 0 \in W
    BY <1>1, <1>4, <1>10
  <2>2. \A i \in 1..n : i - 1 \in W => i \in W
    BY <1>5, <1>6, <1>10
  <2>3. \A i \in 0..n : i \in W
    <3> HIDE DEF W
    <3> QED
      BY <1>1, <2>1, <2>2, UpTo
  <2> QED
    BY <2>3
<1>12. u \in [0..n -> Opened]
  BY <1>4, <1>10, <1>11
<1> QED
  BY <1>10, <1>12 DEF u, After1

\* The places in a program: its statements, and the end of each line.
Spots(P) == {p \in Places : p[1] \in 1..Len(P) /\ p[2] \in 1..(Len(P[p[1]].code) + 1)}
Words(P) == {p \in Spots(P) : p[2] <= Len(P[p[1]].code)}
Word(P, p) == P[p[1]].code[p[2]]
LineEnd(P, l) == <<l, Len(P[l].code) + 1>>

LEMMA SpotFacts ==
  ASSUME NEW P \in Seq(TextLines)
  PROVE  /\ Len(P) \in Nat
         /\ \A l \in 1..Len(P) :
              /\ P[l].code \in Seq(Statements) /\ Len(P[l].code) \in Nat
              /\ P[l].num \in Nat \ {0}
              /\ LineEnd(P, l) \in Spots(P) \ Words(P) /\ <<l, 1>> \in Spots(P)
         /\ \A p \in Spots(P) : p \in Words(P) \/ p = LineEnd(P, p[1])
         /\ \A p \in Words(P) : After(p) \in Spots(P) /\ Word(P, p) \in Statements
<1>1. Len(P) \in Nat /\ \A l \in 1..Len(P) : P[l] \in TextLines
  BY ElementType
<1>2. \A l \in 1..Len(P) : P[l].code \in Seq(Statements) /\ P[l].num \in Nat \ {0}
  BY <1>1 DEF TextLines
<1>3. \A l \in 1..Len(P) : Len(P[l].code) \in Nat /\ l \in Int
  BY <1>1, <1>2
<1>4. ASSUME NEW l \in 1..Len(P)
      PROVE  LineEnd(P, l) \in Spots(P) \ Words(P) /\ <<l, 1>> \in Spots(P)
  BY <1>1, <1>3 DEF LineEnd, Spots, Words, Places
<1>5. ASSUME NEW p \in Spots(P), p \notin Words(P) PROVE p = LineEnd(P, p[1])
  <2>1. p = <<p[1], p[2]>> /\ p[1] \in 1..Len(P) /\ p[2] \in 1..(Len(P[p[1]].code) + 1)
    BY DEF Spots, Places
  <2>2. p[2] = Len(P[p[1]].code) + 1
    BY <1>3, <1>5, <2>1 DEF Words
  <2> QED
    BY <2>1, <2>2 DEF LineEnd
<1>6. ASSUME NEW p \in Words(P)
      PROVE  After(p) \in Spots(P) /\ Word(P, p) \in Statements
  <2>1. p[1] \in 1..Len(P) /\ p[2] \in 1..Len(P[p[1]].code)
    BY <1>3 DEF Words, Spots
  <2>2. Word(P, p) \in Statements
    BY <1>2, <2>1, ElementType DEF Word
  <2>3. After(p) = <<p[1], p[2] + 1>> /\ p[2] + 1 \in 1..(Len(P[p[1]].code) + 1)
    BY <1>3, <2>1 DEF After
  <2> QED
    BY <1>1, <2>1, <2>2, <2>3 DEF Spots, Places
<1> QED
  BY <1>1, <1>2, <1>3, <1>4, <1>5, <1>6

\* What is open in front of each statement of a program follows from what is
\* open in front of the one before.
LEMMA OpenFacts ==
  ASSUME NEW P \in Seq(TextLines)
  PROVE  /\ \A p \in Spots(P) : OpenAt(P, p) \in Opened
         /\ \A p \in Words(P) : OpenAt(P, After(p)) = Reading(OpenAt(P, p), Word(P, p))
         /\ Len(P) > 0 => OpenAt(P, <<1, 1>>) = <<>>
         /\ \A l \in 1..Len(P) : OpenAt(P, LineEnd(P, l)) = OpenAfterLines(P)[l]
         /\ \A l \in 1..Len(P) :
              l + 1 \in 1..Len(P) => OpenAt(P, <<l + 1, 1>>) = OpenAt(P, LineEnd(P, l))
<1> DEFINE o(l) == OpenAlong(OpenAfterLines(P)[l - 1], P[l].code)
<1>1. ASSUME NEW l \in 1..Len(P)
      PROVE  /\ o(l) \in [0..Len(P[l].code) -> Opened]
             /\ o(l)[0] = OpenAfterLines(P)[l - 1]
             /\ \A i \in 1..Len(P[l].code) : o(l)[i] = Reading(o(l)[i - 1], P[l].code[i])
             /\ o(l)[Len(P[l].code)] = OpenAfterLines(P)[l]
  <2>1. OpenAfterLines(P)[l - 1] \in Opened /\ P[l].code \in Seq(Statements)
    <3>1. l - 1 \in 0..Len(P)
      BY SpotFacts
    <3> QED
      BY <3>1, LinesFacts, SpotFacts
  <2> QED
    BY <2>1, LinesFacts, AlongFacts
<1>2. \A p : OpenAt(P, p) = o(p[1])[p[2] - 1]
  BY DEF OpenAt
<1> HIDE DEF o
<1>3. ASSUME NEW p \in Spots(P) PROVE OpenAt(P, p) \in Opened
  <2>1. p[1] \in 1..Len(P) /\ p[2] - 1 \in 0..Len(P[p[1]].code)
    BY SpotFacts DEF Spots
  <2> QED
    BY <1>1, <1>2, <2>1
<1>4. ASSUME NEW p \in Words(P)
      PROVE  OpenAt(P, After(p)) = Reading(OpenAt(P, p), Word(P, p))
  <2>1. p[1] \in 1..Len(P) /\ p[2] \in 1..Len(P[p[1]].code)
    BY SpotFacts DEF Words, Spots
  <2>2. After(p)[1] = p[1] /\ After(p)[2] - 1 = p[2]
    BY <2>1 DEF After
  <2>3. OpenAt(P, After(p)) = o(p[1])[p[2]] /\ OpenAt(P, p) = o(p[1])[p[2] - 1]
    BY <1>2, <2>2
  <2>4. o(p[1])[p[2]] = Reading(o(p[1])[p[2] - 1], P[p[1]].code[p[2]])
    BY <1>1, <2>1
  <2> QED
    BY <2>3, <2>4 DEF Word
<1>5. ASSUME NEW l \in 1..Len(P)
      PROVE  /\ OpenAt(P, <<l, 1>>) = OpenAfterLines(P)[l - 1]
             /\ OpenAt(P, LineEnd(P, l)) = OpenAfterLines(P)[l]
  <2>1. Len(P[l].code) \in Nat
    BY SpotFacts
  <2>2. LineEnd(P, l)[1] = l /\ LineEnd(P, l)[2] - 1 = Len(P[l].code)
    BY <2>1 DEF LineEnd
  <2>3. OpenAt(P, <<l, 1>>) = o(l)[0]
    BY <1>2
  <2> QED
    BY <1>1, <1>2, <2>2, <2>3
<1>6. ASSUME Len(P) > 0 PROVE OpenAt(P, <<1, 1>>) = <<>>
  <2>1. 1 \in 1..Len(P) /\ 1 - 1 = 0
    BY <1>6, SpotFacts
  <2> QED
    BY <1>5, <2>1, LinesFacts
<1>7. ASSUME NEW l \in 1..Len(P), l + 1 \in 1..Len(P)
      PROVE  OpenAt(P, <<l + 1, 1>>) = OpenAt(P, LineEnd(P, l))
  <2>1. (l + 1) - 1 = l
    OBVIOUS
  <2> QED
    BY <1>5, <1>7, <2>1
<1> QED
  BY <1>3, <1>4, <1>5, <1>6, <1>7

-----------------------------------------------------------------------------
(***************************************************************************)
(* The order of the places.                                                *)
(***************************************************************************)
LEMMA SpotPair ==
  ASSUME NEW P \in Seq(TextLines), NEW p \in Spots(P)
  PROVE  /\ p = <<p[1], p[2]>> /\ p[1] \in 1..Len(P) /\ p[1] \in Nat /\ p[2] \in Nat
         /\ p[2] \in 1..(Len(P[p[1]].code) + 1)
<1>1. p = <<p[1], p[2]>> /\ p[1] \in 1..Len(P) /\ p[2] \in 1..(Len(P[p[1]].code) + 1)
  BY DEF Spots, Places
<1>2. Len(P) \in Nat /\ Len(P[p[1]].code) \in Nat
  BY <1>1, SpotFacts
<1> QED
  BY <1>1, <1>2

LEMMA Ordered ==
  ASSUME NEW P \in Seq(TextLines), NEW p \in Spots(P), NEW q \in Spots(P)
  PROVE  /\ p = q \/ Precedes(p, q) \/ Precedes(q, p)
         /\ ~(Precedes(p, q) /\ Precedes(q, p)) /\ ~Precedes(p, p)
         /\ \A r \in Spots(P) : Precedes(p, q) /\ ~Precedes(r, q) => Precedes(p, r)
         /\ \A r \in Spots(P) : ~Precedes(q, p) /\ Precedes(q, r) => Precedes(p, r)
BY SpotPair DEF Precedes

\* Of some places one comes first.
LEMMA FirstSpot ==
  ASSUME NEW P \in Seq(TextLines), NEW W \in SUBSET Spots(P), W # {}
  PROVE  \E b \in W : \A q \in W : ~Precedes(q, b)
<1> DEFINE Rows == {q[1] : q \in W}
           Columns(l) == {q[2] : q \in {q \in W : q[1] = l}}
<1>1. Len(P) \in Nat /\ \A q \in W : q \in Spots(P)
  BY SpotFacts
<1>2. PICK l \in Rows : \A k \in Rows : l <= k
  <2>1. Rows \in SUBSET (1..Len(P)) /\ Rows # {}
    BY <1>1, SpotPair
  <2> HIDE DEF Rows
  <2> QED
    BY <1>1, <2>1, LeastExists
<1>3. l \in 1..Len(P) /\ Len(P[l].code) \in Nat
  BY <1>1, <1>2, SpotPair, SpotFacts
<1>4. PICK i \in Columns(l) : \A j \in Columns(l) : i <= j
  <2> DEFINE m == Len(P[l].code) + 1
  <2>1. Columns(l) \in SUBSET (1..m) /\ Columns(l) # {}
    <3>1. Columns(l) # {}
      BY <1>2
    <3>2. ASSUME NEW q \in W, q[1] = l PROVE q[2] \in 1..m
      BY <1>1, <3>2, SpotPair
    <3> QED
      BY <3>1, <3>2
  <2>2. m \in Nat
    BY <1>3
  <2> HIDE DEF Columns, m
  <2> QED
    BY <2>1, <2>2, LeastExists
<1>5. PICK b \in W : b[1] = l /\ b[2] = i
  BY <1>4
<1>6. ASSUME NEW q \in W, Precedes(q, b) PROVE FALSE
  <2>1. q[1] \in Rows /\ l <= q[1]
    BY <1>2
  <2>2. q[1] \in Nat /\ q[2] \in Nat /\ b[1] \in Nat /\ b[2] \in Nat
    BY <1>1, SpotPair
  <2>3. q[1] = l /\ q[2] < i
    BY <1>5, <1>6, <2>1, <2>2 DEF Precedes
  <2>4. i <= q[2]
    BY <1>4, <2>3
  <2> QED
    BY <1>5, <2>2, <2>3, <2>4
<1> QED
  BY <1>6

\* The place before one is a statement, or the end of the line above.
LEMMA PlaceBefore ==
  ASSUME NEW P \in Seq(TextLines), NEW a \in Spots(P), NEW q \in Spots(P),
         q # a, ~Precedes(q, a)
  PROVE  \/ \E p \in Words(P) : q = After(p) /\ ~Precedes(p, a) /\ Precedes(p, q)
         \/ \E l \in 1..Len(P) : /\ l + 1 \in 1..Len(P) /\ q = <<l + 1, 1>>
                                 /\ ~Precedes(LineEnd(P, l), a)
                                 /\ Precedes(LineEnd(P, l), q)
<1>1. /\ q = <<q[1], q[2]>> /\ q[1] \in 1..Len(P) /\ q[1] \in Nat /\ q[2] \in Nat
      /\ a = <<a[1], a[2]>> /\ a[1] \in 1..Len(P) /\ a[1] \in Nat /\ a[2] \in Nat
      /\ q[2] \in 1..(Len(P[q[1]].code) + 1) /\ a[2] \in 1..(Len(P[a[1]].code) + 1)
      /\ Len(P) \in Nat
  BY SpotPair, SpotFacts
<1>2. Precedes(a, q)
  BY <1>1 DEF Precedes
<1>3. CASE q[2] > 1
  <2> DEFINE p == <<q[1], q[2] - 1>>
  <2>1. q = After(p)
    BY <1>1 DEF After
  <2>2. p \in Words(P)
    <3>1. Len(P[q[1]].code) \in Nat
      BY <1>1, SpotFacts
    <3> QED
      BY <1>1, <1>3, <3>1 DEF Words, Spots, Places
  <2>3. ~Precedes(p, a) /\ Precedes(p, q)
    BY <1>1, <1>2, <1>3 DEF Precedes
  <2> QED
    BY <2>1, <2>2, <2>3
<1>4. CASE q[2] <= 1
  <2>1. q[2] = 1 /\ a[1] < q[1]
    BY <1>1, <1>2, <1>4 DEF Precedes
  <2>2. PICK l \in 1..Len(P) : q[1] = l + 1 /\ a[1] <= l
    <3>1. q[1] - 1 \in 1..Len(P) /\ q[1] = (q[1] - 1) + 1 /\ a[1] <= q[1] - 1
      BY <1>1, <2>1
    <3> QED
      BY <3>1
  <2>3. Len(P[l].code) \in Nat
    BY SpotFacts
  <2>4. LineEnd(P, l)[1] = l /\ LineEnd(P, l)[2] = Len(P[l].code) + 1
    BY DEF LineEnd
  <2>5. Precedes(LineEnd(P, l), q)
    BY <1>1, <2>2, <2>4 DEF Precedes
  <2>6. ~Precedes(LineEnd(P, l), a)
    <3>1. CASE a[1] = l
      BY <1>1, <2>3, <2>4, <3>1 DEF Precedes
    <3>2. CASE a[1] # l
      BY <1>1, <2>2, <2>4, <3>2 DEF Precedes
    <3> QED
      BY <3>1, <3>2
  <2> QED
    BY <1>1, <2>1, <2>2, <2>5, <2>6
<1> QED
  BY <1>1, <1>3, <1>4

\* What holds at a place, and behind every statement and line end from there on
\* at which it holds, holds at all later places.
LEMMA Onward ==
  ASSUME NEW P \in Seq(TextLines), NEW a \in Spots(P), NEW W, a \in W,
         \A p \in Words(P) : ~Precedes(p, a) /\ p \in W => After(p) \in W,
         \A l \in 1..Len(P) :
           l + 1 \in 1..Len(P) /\ ~Precedes(LineEnd(P, l), a) /\ LineEnd(P, l) \in W
             => <<l + 1, 1>> \in W
  PROVE  \A q \in Spots(P) : ~Precedes(q, a) => q \in W
<1> DEFINE Wrong == {q \in Spots(P) : ~Precedes(q, a) /\ q \notin W}
<1> SUFFICES ASSUME Wrong # {} PROVE FALSE
  OBVIOUS
<1>1. PICK q \in Wrong : \A r \in Wrong : ~Precedes(r, q)
  <2>1. Wrong \in SUBSET Spots(P)
    OBVIOUS
  <2> HIDE DEF Wrong
  <2> QED
    BY <2>1, FirstSpot
<1>2. q \in Spots(P) /\ q # a /\ ~Precedes(q, a) /\ q \notin W
  BY <1>1
<1>3. CASE \E p \in Words(P) : q = After(p) /\ ~Precedes(p, a) /\ Precedes(p, q)
  <2>1. PICK p \in Words(P) : q = After(p) /\ ~Precedes(p, a) /\ Precedes(p, q)
    BY <1>3
  <2>2. p \in Spots(P)
    BY DEF Words
  <2> QED
    BY <1>1, <1>2, <2>1, <2>2
<1>4. CASE \E l \in 1..Len(P) : /\ l + 1 \in 1..Len(P) /\ q = <<l + 1, 1>>
                                /\ ~Precedes(LineEnd(P, l), a)
                                /\ Precedes(LineEnd(P, l), q)
  <2>1. PICK l \in 1..Len(P) : /\ l + 1 \in 1..Len(P) /\ q = <<l + 1, 1>>
                               /\ ~Precedes(LineEnd(P, l), a)
                               /\ Precedes(LineEnd(P, l), q)
    BY <1>4
  <2>2. LineEnd(P, l) \in Spots(P)
    BY SpotFacts
  <2> QED
    BY <1>1, <1>2, <2>1, <2>2
<1> QED
  BY <1>2, <1>3, <1>4, PlaceBefore

\* Nothing is behind the end of the last line.
LEMMA ProgramEnd ==
  ASSUME NEW P \in Seq(TextLines), NEW p \in Spots(P)
  PROVE  /\ Len(P) \in 1..Len(P)
         /\ LineEnd(P, Len(P)) \in Spots(P) /\ ~Precedes(LineEnd(P, Len(P)), p)
<1>1. /\ p[1] \in 1..Len(P) /\ p[1] \in Nat /\ p[2] \in Nat
      /\ p[2] \in 1..(Len(P[p[1]].code) + 1) /\ Len(P) \in Nat
  BY SpotPair, SpotFacts
<1>2. Len(P) \in 1..Len(P)
  BY <1>1
<1>3. LineEnd(P, Len(P)) \in Spots(P) /\ Len(P[Len(P)].code) \in Nat
  BY <1>2, SpotFacts
<1>4. /\ LineEnd(P, Len(P))[1] = Len(P)
      /\ LineEnd(P, Len(P))[2] = Len(P[Len(P)].code) + 1
  BY DEF LineEnd
<1>5. ~Precedes(LineEnd(P, Len(P)), p)
  <2>1. CASE p[1] = Len(P)
    BY <1>1, <1>3, <1>4, <2>1 DEF Precedes
  <2>2. CASE p[1] # Len(P)
    BY <1>1, <1>4, <2>2 DEF Precedes
  <2> QED
    BY <2>1, <2>2
<1> QED
  BY <1>2, <1>3, <1>5

-----------------------------------------------------------------------------
(***************************************************************************)
(* Programs whose structures are all closed in order.                      *)
(***************************************************************************)
Balanced(P) == P \in Seq(TextLines) /\ OpenAfterLines(P)[Len(P)] = <<>>
IsBad(open) == \E k \in 1..Len(open) : open[k] = "bad"

LEMMA BadStays ==
  ASSUME NEW open \in Opened, NEW x \in Statements, IsBad(open)
  PROVE  IsBad(Reading(open, x))
<1>1. PICK k \in 1..Len(open) : open[k] = "bad"
  BY DEF IsBad
<1>2. Len(open) \in Nat
  BY DEF Opened
<1>3. \A t : IsBad(Append(open, t))
  <2> SUFFICES ASSUME NEW t PROVE IsBad(Append(open, t))
    OBVIOUS
  <2>1. Len(Append(open, t)) = Len(open) + 1 /\ Append(open, t)[k] = open[k]
    BY <1>2 DEF Opened
  <2> QED
    BY <1>1, <1>2, <2>1 DEF IsBad
<1>4. ASSUME x.tok \in Closes, open # <<>>, Last(open) = Opener[x.tok]
      PROVE  IsBad(Front(open))
  <2>1. Last(open) # "bad"
    BY <1>4 DEF Closes, Opener
  <2>2. Last(open) = open[Len(open)]
    BY DEF Last
  <2>3. k # Len(open)
    BY <1>1, <2>1, <2>2
  <2>4. k \in 1..(Len(open) - 1)
    BY <1>1, <1>2, <2>3
  <2>5. Len(Front(open)) = Len(open) - 1 /\ Front(open)[k] = open[k]
    BY <1>2, <1>4, <2>4 DEF Front, Opened
  <2> QED
    BY <1>1, <2>4, <2>5 DEF IsBad
<1> QED
  BY <1>3, <1>4 DEF Reading, IsBad

LEMMA NeverBad ==
  ASSUME NEW P, Balanced(P), NEW p \in Spots(P)
  PROVE  ~IsBad(OpenAt(P, p))
<1> SUFFICES ASSUME IsBad(OpenAt(P, p)) PROVE FALSE
  OBVIOUS
<1> DEFINE W == {q \in Spots(P) : IsBad(OpenAt(P, q))}
<1>1. P \in Seq(TextLines)
  BY DEF Balanced
<1>2. \A q \in Words(P) : q \in W => After(q) \in W
  <2> SUFFICES ASSUME NEW q \in Words(P), q \in W PROVE After(q) \in W
    OBVIOUS
  <2>1. /\ q \in Spots(P) /\ After(q) \in Spots(P) /\ Word(P, q) \in Statements
        /\ OpenAt(P, q) \in Opened
        /\ OpenAt(P, After(q)) = Reading(OpenAt(P, q), Word(P, q))
    BY <1>1, SpotFacts, OpenFacts
  <2>2. IsBad(OpenAt(P, After(q)))
    BY <2>1, BadStays
  <2> QED
    BY <2>1, <2>2
<1>3. \A l \in 1..Len(P) : l + 1 \in 1..Len(P) /\ LineEnd(P, l) \in W => <<l + 1, 1>> \in W
  BY <1>1, SpotFacts, OpenFacts
<1>4. \A q \in Spots(P) : ~Precedes(q, p) => q \in W
  <2>1. p \in W
    OBVIOUS
  <2> HIDE DEF W
  <2> QED
    BY <1>1, <1>2, <1>3, <2>1, Onward
<1>5. LineEnd(P, Len(P)) \in W /\ Len(P) \in 1..Len(P)
  BY <1>1, <1>4, ProgramEnd
<1>6. OpenAt(P, LineEnd(P, Len(P))) = <<>>
  BY <1>1, <1>5, OpenFacts DEF Balanced
<1> QED
  BY <1>5, <1>6 DEF IsBad

\* What a statement opens or closes.
LEMMA Reads ==
  ASSUME NEW P, Balanced(P), NEW p \in Words(P)
  PROVE  LET t == Word(P, p).tok
             open == OpenAt(P, p)
             next == OpenAt(P, After(p))
         IN  /\ open \in Opened /\ next \in Opened
             /\ t \in Opens => next = Append(open, t)
             /\ t \in Closes => /\ open # <<>> /\ Last(open) = Opener[t]
                                /\ next = Front(open)
             /\ t \notin Opens \cup Closes => next = open
<1> DEFINE open == OpenAt(P, p)
           next == OpenAt(P, After(p))
           t == Word(P, p).tok
<1>1. P \in Seq(TextLines) /\ p \in Spots(P)
  BY DEF Balanced, Words
<1>2. /\ open \in Opened /\ next \in Opened /\ next = Reading(open, Word(P, p))
  BY <1>1, SpotFacts, OpenFacts
<1>3. ~IsBad(next)
  BY <1>1, NeverBad, SpotFacts
<1>4. IsBad(Append(open, "bad"))
  <2>1. Len(Append(open, "bad")) = Len(open) + 1 /\ Append(open, "bad")[Len(open) + 1] = "bad"
        /\ Len(open) \in Nat
    BY <1>2 DEF Opened
  <2> QED
    BY <2>1 DEF IsBad
<1>5. ASSUME t \in Closes
      PROVE  open # <<>> /\ Last(open) = Opener[t] /\ next = Front(open)
  <2>1. t \notin Opens
    BY <1>5 DEF Opens, Closes
  <2> HIDE DEF open, next
  <2> QED
    BY <1>2, <1>3, <1>4, <1>5, <2>1 DEF Reading
<1>6. /\ t \in Opens => next = Append(open, t)
      /\ t \notin Opens \cup Closes => next = open
  <2> HIDE DEF open, next
  <2> QED
    BY <1>2 DEF Reading
<1> QED
  BY <1>2, <1>5, <1>6

-----------------------------------------------------------------------------
(***************************************************************************)
(* Scans.                                                                  *)
(***************************************************************************)
LEMMA NoneBetween ==
  ASSUME NEW P \in Seq(TextLines), NEW r \in Words(P)
  PROVE  /\ \A p \in Words(P) : Precedes(r, After(p)) <=> Precedes(r, p) \/ r = p
         /\ \A l \in 1..Len(P) : Precedes(r, <<l + 1, 1>>) <=> Precedes(r, LineEnd(P, l))
<1>1. \A p \in Words(P) : p \in Spots(P) /\ p[2] <= Len(P[p[1]].code)
  BY DEF Words
<1>2. /\ r = <<r[1], r[2]>> /\ r[1] \in 1..Len(P) /\ r[1] \in Nat /\ r[2] \in Nat
      /\ r[2] >= 1 /\ r[2] <= Len(P[r[1]].code)
  BY <1>1, SpotPair, SpotFacts
<1>3. ASSUME NEW p \in Words(P)
      PROVE  Precedes(r, After(p)) <=> Precedes(r, p) \/ r = p
  <2>1. p = <<p[1], p[2]>> /\ p[1] \in Nat /\ p[2] \in Nat
    BY <1>1, SpotPair
  <2>2. After(p)[1] = p[1] /\ After(p)[2] = p[2] + 1
    BY <2>1 DEF After
  <2>3. r = p <=> r[1] = p[1] /\ r[2] = p[2]
    BY <1>2, <2>1
  <2> QED
    BY <1>2, <2>1, <2>2, <2>3 DEF Precedes
<1>4. ASSUME NEW l \in 1..Len(P)
      PROVE  Precedes(r, <<l + 1, 1>>) <=> Precedes(r, LineEnd(P, l))
  <2>1. Len(P[l].code) \in Nat /\ l \in Int
    BY SpotFacts
  <2>2. LineEnd(P, l)[1] = l /\ LineEnd(P, l)[2] = Len(P[l].code) + 1
    BY DEF LineEnd
  <2>3. Precedes(r, <<l + 1, 1>>) <=> r[1] <= l
    BY <1>2, <2>1 DEF Precedes
  <2>4. CASE r[1] = l
    BY <1>2, <2>1, <2>2, <2>3, <2>4 DEF Precedes
  <2>5. CASE r[1] # l
    BY <1>2, <2>1, <2>2, <2>3, <2>5 DEF Precedes
  <2> QED
    BY <2>4, <2>5
<1> QED
  BY <1>3, <1>4

LEMMA ProgramText ==
  ASSUME CoreOK
  PROVE  prog \in Seq(TextLines)
<1>1. Programs \subseteq Seq(TextLines)
  BY ProgramsAssumption DEF Statements, TextLines
<1> QED
  BY <1>1 DEF CoreOK

\* A scan in the program sees its statements from there on.
LEMMA FromFacts ==
  ASSUME CoreOK, NEW a \in Spots(prog)
  PROVE  /\ From(a) = {p \in Words(prog) : ~Precedes(p, a)}
         /\ \A p \in Words(prog) : Statement(p) = Word(prog, p) /\ p[1] # 0
         /\ a[1] # 0
<1>1. prog \in Seq(TextLines) /\ Len(prog) \in Nat
  BY ProgramText, SpotFacts
<1>2. a[1] \in 1..Len(prog) /\ a[2] \in Nat
  BY <1>1, SpotPair
<1>3. \A l \in 1..Len(prog) : Text(l) = prog[l].code /\ Len(prog[l].code) \in Nat
  BY <1>1, SpotFacts DEF Text
<1>4. ASSUME NEW p \in Words(prog)
      PROVE  /\ p = <<p[1], p[2]>> /\ p[1] \in 1..Len(prog)
             /\ p[2] \in 1..Len(prog[p[1]].code)
  BY <1>1, <1>3, SpotPair DEF Words
<1>5. ASSUME NEW l \in 1..Len(prog), NEW i \in 1..Len(prog[l].code)
      PROVE  <<l, i>> \in Words(prog)
  BY <1>1, <1>3 DEF Words, Spots, Places
<1>6. ASSUME NEW b \in From(a) PROVE b \in Words(prog) /\ ~Precedes(b, a)
  <2>1. ~Precedes(b, a)
    BY DEF From
  <2>2. PICK l \in a[1]..Len(prog) : \E i \in 1..Len(Text(l)) : b = <<l, i>>
    BY <1>2 DEF From
  <2>3. l \in 1..Len(prog)
    BY <1>1, <1>2
  <2> QED
    BY <1>3, <1>5, <2>1, <2>2, <2>3
<1>7. ASSUME NEW b \in Words(prog), ~Precedes(b, a) PROVE b \in From(a)
  <2>1. b[1] \in a[1]..Len(prog)
    BY <1>1, <1>2, <1>4, <1>7 DEF Precedes
  <2>2. b[2] \in 1..Len(Text(b[1]))
    BY <1>3, <1>4
  <2>3. b \in {<<b[1], i>> : i \in 1..Len(Text(b[1]))}
    BY <1>4, <2>2
  <2> QED
    BY <1>2, <1>7, <2>1, <2>3 DEF From
<1>8. From(a) = {p \in Words(prog) : ~Precedes(p, a)}
  BY <1>6, <1>7
<1>9. \A p \in Words(prog) : Statement(p) = Word(prog, p) /\ p[1] # 0
  BY <1>3, <1>4 DEF Statement, Word
<1> QED
  BY <1>2, <1>8, <1>9

\* The level a scan counts is how many more structures are open.
LEMMA LevelFacts ==
  ASSUME CoreOK, Balanced(prog), NEW a \in Spots(prog), NEW b \in Spots(prog),
         ~Precedes(b, a)
  PROVE  Level(a, b) = Len(OpenAt(prog, b)) - Len(OpenAt(prog, a))
<1> DEFINE P == prog
           On(q) == {p \in {p \in From(a) : Precedes(p, q)} : Statement(p).tok \in Opens}
           Off(q) == {p \in {p \in From(a) : Precedes(p, q)} : Statement(p).tok \in Closes}
           Right(q) == /\ IsFiniteSet(On(q)) /\ IsFiniteSet(Off(q))
                       /\ Cardinality(On(q)) - Cardinality(Off(q))
                            = Len(OpenAt(P, q)) - Len(OpenAt(P, a))
           W == {q \in Spots(P) : Right(q)}
<1>1. P \in Seq(TextLines)
  BY ProgramText
<1>2. \A q \in Spots(P) : Level(a, q) = Cardinality(On(q)) - Cardinality(Off(q))
  BY DEF Level
<1>3. \A q \in Spots(P) : OpenAt(P, q) \in Opened /\ Len(OpenAt(P, q)) \in Nat
  BY <1>1, OpenFacts DEF Opened
<1>4. a \in W
  <2>1. On(a) = {} /\ Off(a) = {}
    BY FromFacts
  <2>2. Cardinality(On(a)) = 0 /\ Cardinality(Off(a)) = 0
        /\ IsFiniteSet(On(a)) /\ IsFiniteSet(Off(a))
    BY <2>1, FS_EmptySet
  <2> QED
    BY <1>3, <2>2
<1>5. ASSUME NEW p \in Words(P), ~Precedes(p, a), p \in W PROVE After(p) \in W
  <2> DEFINE t == Statement(p).tok
  <2>1. p \in Spots(P) /\ After(p) \in Spots(P) /\ p \in From(a) /\ t = Word(P, p).tok
    BY <1>1, <1>5, FromFacts, SpotFacts DEF Words
  <2>2. /\ On(After(p)) = IF t \in Opens THEN On(p) \cup {p} ELSE On(p)
        /\ Off(After(p)) = IF t \in Closes THEN Off(p) \cup {p} ELSE Off(p)
    <3>1. \A r \in From(a) : Precedes(r, After(p)) <=> Precedes(r, p) \/ r = p
      BY <1>1, FromFacts, NoneBetween
    <3> QED
      BY <2>1, <3>1
  <2>3. p \notin On(p) /\ p \notin Off(p)
    BY <1>1, <2>1, Ordered
  <2>4. ~(t \in Opens /\ t \in Closes)
    BY DEF Opens, Closes
  <2>5. Right(p)
    BY <1>5
  <2> DEFINE open == OpenAt(P, p)
             next == OpenAt(P, After(p))
  <2>6. /\ open \in Opened /\ next \in Opened
        /\ t \in Opens => next = Append(open, t)
        /\ t \in Closes => open # <<>> /\ next = Front(open)
        /\ t \notin Opens \cup Closes => next = open
    BY <2>1, Reads
  <2>7. /\ t \in Opens => Len(next) = Len(open) + 1
        /\ t \in Closes => Len(next) = Len(open) - 1
        /\ t \notin Opens \cup Closes => Len(next) = Len(open)
    <3> HIDE DEF open, next, t
    <3> QED
      BY <2>6 DEF Front, Opened
  <2>8. /\ Cardinality(On(p)) \in Nat /\ Cardinality(Off(p)) \in Nat
        /\ IsFiniteSet(On(p) \cup {p}) /\ IsFiniteSet(Off(p) \cup {p})
        /\ Cardinality(On(p) \cup {p}) = Cardinality(On(p)) + 1
        /\ Cardinality(Off(p) \cup {p}) = Cardinality(Off(p)) + 1
    <3> HIDE DEF On, Off
    <3> QED
      BY <2>3, <2>5, FS_AddElement, FS_CardinalityType
  <2>9. Len(open) \in Nat /\ Len(next) \in Nat /\ Len(OpenAt(P, a)) \in Nat
    BY <1>3, <2>1
  <2>10. Right(After(p))
    <3> HIDE DEF On, Off, open, next, t
    <3>1. CASE t \in Opens
      BY <2>2, <2>4, <2>5, <2>7, <2>8, <2>9, <3>1 DEF open, next
    <3>2. CASE t \in Closes
      BY <2>2, <2>4, <2>5, <2>7, <2>8, <2>9, <3>2 DEF open, next
    <3>3. CASE t \notin Opens \cup Closes
      BY <2>2, <2>5, <2>7, <2>9, <3>3 DEF open, next
    <3> QED
      BY <3>1, <3>2, <3>3
  <2> QED
    BY <2>1, <2>10
<1>6. ASSUME NEW l \in 1..Len(P), l + 1 \in 1..Len(P), LineEnd(P, l) \in W
      PROVE  <<l + 1, 1>> \in W
  <2>1. \A r \in From(a) : Precedes(r, <<l + 1, 1>>) <=> Precedes(r, LineEnd(P, l))
    BY <1>1, FromFacts, NoneBetween
  <2>2. On(<<l + 1, 1>>) = On(LineEnd(P, l)) /\ Off(<<l + 1, 1>>) = Off(LineEnd(P, l))
    BY <2>1
  <2>3. OpenAt(P, <<l + 1, 1>>) = OpenAt(P, LineEnd(P, l)) /\ <<l + 1, 1>> \in Spots(P)
    BY <1>1, <1>6, OpenFacts, SpotFacts
  <2>4. Right(LineEnd(P, l))
    BY <1>6
  <2>5. Right(<<l + 1, 1>>)
    <3> HIDE DEF On, Off
    <3> QED
      BY <2>2, <2>3, <2>4
  <2> QED
    BY <2>3, <2>5
<1>7. \A q \in Spots(P) : ~Precedes(q, a) => q \in W
  <2> HIDE DEF W
  <2> QED
    BY <1>1, <1>4, <1>5, <1>6, Onward
<1>8. Right(b)
  BY <1>7
<1> QED
  BY <1>2, <1>8

\* As long as nothing that was open is closed, it stays at the bottom.
LEMMA StillOpen ==
  ASSUME NEW P, Balanced(P), NEW a \in Spots(P), NEW b \in Spots(P), ~Precedes(b, a),
         \A p \in Words(P) : ~Precedes(p, a) /\ Precedes(p, b)
           => Len(OpenAt(P, p)) >= Len(OpenAt(P, a)),
         Len(OpenAt(P, b)) = Len(OpenAt(P, a))
  PROVE  OpenAt(P, b) = OpenAt(P, a)
<1> DEFINE n == Len(OpenAt(P, a))
           High(q) == \A p \in Words(P) : ~Precedes(p, a) /\ Precedes(p, q)
                        => Len(OpenAt(P, p)) >= n
           Keeps(q) == \A k \in 1..n : OpenAt(P, q)[k] = OpenAt(P, a)[k]
           W == {q \in Spots(P) : High(q) /\ Len(OpenAt(P, q)) >= n => Keeps(q)}
<1>1. P \in Seq(TextLines)
  BY DEF Balanced
<1>2. \A q \in Spots(P) : OpenAt(P, q) \in Opened /\ Len(OpenAt(P, q)) \in Nat
  BY <1>1, OpenFacts DEF Opened
<1>3. n \in Nat
  BY <1>2
<1>4. a \in W
  OBVIOUS
<1>5. ASSUME NEW p \in Words(P), ~Precedes(p, a), p \in W PROVE After(p) \in W
  <2> DEFINE open == OpenAt(P, p)
             next == OpenAt(P, After(p))
  <2>1. p \in Spots(P) /\ After(p) \in Spots(P)
    BY <1>1, SpotFacts DEF Words
  <2> SUFFICES ASSUME High(After(p)), Len(next) >= n PROVE Keeps(After(p))
    BY <2>1
  <2>2. Precedes(p, After(p)) /\ \A r \in Words(P) : Precedes(r, p) => Precedes(r, After(p))
    BY <1>1, NoneBetween
  <2>3. High(p) /\ Len(open) >= n
    BY <1>5, <2>2
  <2>4. Keeps(p)
    BY <1>5, <2>3
  <2>5. \/ next = open \/ \E t \in Opens : next = Append(open, t)
        \/ open # <<>> /\ next = Front(open)
    BY Reads
  <2>6. open \in Opened /\ next \in Opened
    BY <1>2, <2>1
  <2>7. \A k \in 1..n : next[k] = open[k]
    <3> HIDE DEF open, next, n
    <3>1. Len(open) \in Nat
      BY <2>6 DEF Opened
    <3>2. ASSUME NEW t \in Opens, next = Append(open, t) PROVE \A k \in 1..n : next[k] = open[k]
      BY <1>3, <2>3, <2>6, <3>1, <3>2 DEF Opened
    <3>3. CASE open # <<>> /\ next = Front(open)
      <4>1. Len(next) = Len(open) - 1 /\ \A k \in 1..(Len(open) - 1) : next[k] = open[k]
        BY <2>6, <3>3, FrontFacts
      <4> QED
        BY <1>3, <3>1, <4>1
    <3> QED
      BY <2>5, <3>2, <3>3
  <2> QED
    BY <2>4, <2>7
<1>6. ASSUME NEW l \in 1..Len(P), l + 1 \in 1..Len(P), LineEnd(P, l) \in W
      PROVE  <<l + 1, 1>> \in W
  <2>1. \A r \in Words(P) : Precedes(r, <<l + 1, 1>>) <=> Precedes(r, LineEnd(P, l))
    BY <1>1, NoneBetween
  <2>2. OpenAt(P, <<l + 1, 1>>) = OpenAt(P, LineEnd(P, l)) /\ <<l + 1, 1>> \in Spots(P)
    BY <1>1, <1>6, OpenFacts, SpotFacts
  <2> HIDE DEF n
  <2> QED
    BY <1>6, <2>1, <2>2
<1>7. \A q \in Spots(P) : ~Precedes(q, a) => q \in W
  <2> HIDE DEF W
  <2> QED
    BY <1>1, <1>4, <1>5, <1>6, Onward
<1>8. Keeps(b)
  <2>1. b \in W /\ High(b) /\ Len(OpenAt(P, b)) >= n
    BY <1>3, <1>7
  <2> QED
    BY <2>1
<1> DEFINE x == OpenAt(P, a)
           y == OpenAt(P, b)
<1>9. x \in Opened /\ y \in Opened /\ Len(x) = Len(y) /\ \A k \in 1..Len(x) : y[k] = x[k]
  BY <1>2, <1>8
<1> QED
  <2> HIDE DEF x, y
  <2>1. x = y
    BY <1>9 DEF Opened
  <2> QED
    BY <2>1 DEF x, y

\* Where a scan stops, the same structures are open as where it began.
LEMMA StopFacts ==
  ASSUME CoreOK, Balanced(prog), NEW a \in Spots(prog), NEW toks,
         NEW b \in ScanStops(a, toks)
  PROVE  /\ b \in Words(prog) /\ Word(prog, b).tok \in toks /\ Statement(b) = Word(prog, b)
         /\ OpenAt(prog, b) = OpenAt(prog, a)
<1>1. prog \in Seq(TextLines) /\ \A q \in Words(prog) : q \in Spots(prog)
  BY ProgramText DEF Words
<1>2. b \in Words(prog) /\ ~Precedes(b, a) /\ b \in Spots(prog)
  BY <1>1, FromFacts DEF ScanStops
<1>3. Statement(b) = Word(prog, b) /\ Statement(b).tok \in toks /\ Level(a, b) = 0
  BY <1>2, FromFacts DEF ScanStops
<1>4. \A q \in Spots(prog) : Len(OpenAt(prog, q)) \in Nat
  BY <1>1, OpenFacts DEF Opened
<1>5. Len(OpenAt(prog, b)) = Len(OpenAt(prog, a))
  BY <1>2, <1>3, <1>4, LevelFacts
<1>6. ASSUME NEW p \in Words(prog), ~Precedes(p, a), Precedes(p, b)
      PROVE  Len(OpenAt(prog, p)) >= Len(OpenAt(prog, a))
  <2>1. p \in From(a) /\ p \in Spots(prog)
    BY <1>1, <1>6, FromFacts
  <2>2. Level(a, p) >= 0
    BY <1>6, <2>1 DEF ScanStops
  <2>3. Level(a, p) = Len(OpenAt(prog, p)) - Len(OpenAt(prog, a))
    BY <1>6, <2>1, LevelFacts
  <2> QED
    BY <1>4, <2>1, <2>2, <2>3
<1> QED
  BY <1>2, <1>3, <1>5, <1>6, StillOpen

\* A scan inside a structure finds its end.
LEMMA StopExists ==
  ASSUME CoreOK, Balanced(prog), NEW a \in Spots(prog), OpenAt(prog, a) # <<>>,
         NEW toks, NEW t \in Closes, t \in toks, Opener[t] = Last(OpenAt(prog, a))
  PROVE  ScanStops(a, toks) # {}
<1> DEFINE P == prog
           n == Len(OpenAt(P, a))
           Low == {q \in Spots(P) : ~Precedes(q, a) /\ Len(OpenAt(P, q)) < n}
           Found == {p \in Words(P) : /\ ~Precedes(p, a) /\ Word(P, p).tok \in toks
                                      /\ Len(OpenAt(P, p)) = n}
<1>1. P \in Seq(TextLines) /\ \A q \in Words(P) : q \in Spots(P)
  BY ProgramText DEF Words
<1>2. \A q \in Spots(P) : OpenAt(P, q) \in Opened /\ Len(OpenAt(P, q)) \in Nat
  BY <1>1, OpenFacts DEF Opened
<1>3. n \in Nat /\ n > 0
  <2> DEFINE x == OpenAt(P, a)
  <2>1. x \in Opened /\ x # <<>>
    BY <1>2
  <2> HIDE DEF x
  <2>2. Len(x) \in Nat /\ Len(x) > 0
    BY <2>1 DEF Opened
  <2> QED
    BY <2>2 DEF x
<1>4. LineEnd(P, Len(P)) \in Low
  <2>1. /\ Len(P) \in 1..Len(P) /\ LineEnd(P, Len(P)) \in Spots(P)
        /\ ~Precedes(LineEnd(P, Len(P)), a)
    BY <1>1, ProgramEnd
  <2>2. OpenAt(P, LineEnd(P, Len(P))) = <<>>
    BY <1>1, <2>1, OpenFacts DEF Balanced
  <2>3. Len(OpenAt(P, LineEnd(P, Len(P)))) = 0
    BY <2>2
  <2> QED
    BY <1>3, <2>1, <2>3
<1>5. PICK q \in Low : \A r \in Low : ~Precedes(r, q)
  <2>1. Low \in SUBSET Spots(P) /\ Low # {}
    BY <1>4
  <2> HIDE DEF Low
  <2> QED
    BY <1>1, <2>1, FirstSpot
<1>6. q \in Spots(P) /\ ~Precedes(q, a) /\ Len(OpenAt(P, q)) < n /\ q # a
  <2>1. q \in Spots(P) /\ ~Precedes(q, a) /\ Len(OpenAt(P, q)) < n
    BY <1>5
  <2> HIDE DEF n
  <2>2. ~(n < n)
    BY <1>3
  <2> QED
    BY <2>1, <2>2 DEF n
<1>7. PICK p \in Words(P) : q = After(p) /\ ~Precedes(p, a) /\ Precedes(p, q)
  <2>1. ASSUME NEW l \in 1..Len(P), l + 1 \in 1..Len(P), q = <<l + 1, 1>>,
               ~Precedes(LineEnd(P, l), a), Precedes(LineEnd(P, l), q)
        PROVE  FALSE
    <3>1. OpenAt(P, q) = OpenAt(P, LineEnd(P, l)) /\ LineEnd(P, l) \in Spots(P)
      BY <1>1, <2>1, OpenFacts, SpotFacts
    <3>2. LineEnd(P, l) \in Low
      BY <1>6, <2>1, <3>1
    <3> QED
      BY <1>5, <2>1, <3>2
  <2> QED
    BY <1>1, <1>6, <2>1, PlaceBefore
<1>8. ASSUME NEW r \in Words(P), ~Precedes(r, a), Precedes(r, q)
      PROVE  Len(OpenAt(P, r)) >= n
  <2>1. r \notin Low /\ r \in Spots(P)
    BY <1>1, <1>5, <1>8
  <2>2. ~(Len(OpenAt(P, r)) < n) /\ Len(OpenAt(P, r)) \in Nat
    BY <1>2, <1>8, <2>1
  <2> HIDE DEF n
  <2> QED
    BY <1>3, <2>2
<1>9. p \in Spots(P) /\ Len(OpenAt(P, p)) >= n
  BY <1>1, <1>7, <1>8
<1>10. /\ Word(P, p).tok \in Closes /\ Len(OpenAt(P, p)) = n
       /\ Opener[Word(P, p).tok] = Last(OpenAt(P, p))
  <2> DEFINE open == OpenAt(P, p)
             next == OpenAt(P, q)
             w == Word(P, p).tok
  <2>1. /\ open \in Opened /\ Len(open) \in Nat /\ Len(open) >= n /\ Len(next) < n
        /\ Len(next) \in Nat
    BY <1>2, <1>6, <1>9
  <2>2. /\ w \in Opens => next = Append(open, w)
        /\ w \in Closes => open # <<>> /\ Last(open) = Opener[w] /\ next = Front(open)
        /\ w \notin Opens \cup Closes => next = open
    BY <1>7, Reads
  <2>3. /\ w \in Opens => Len(next) = Len(open) + 1
        /\ w \in Closes => Len(next) = Len(open) - 1
        /\ w \notin Opens \cup Closes => Len(next) = Len(open)
    <3> HIDE DEF open, next, w
    <3> QED
      BY <2>1, <2>2 DEF Front, Opened
  <2>4. w \in Closes /\ Len(open) = n
    <3> HIDE DEF open, next, w, n
    <3>1. Len(next) < Len(open)
      BY <1>3, <2>1
    <3>2. w \in Closes
      BY <2>1, <2>3, <3>1
    <3> QED
      BY <1>3, <2>1, <2>3, <3>2
  <2> QED
    BY <2>2, <2>4
<1>11. OpenAt(P, p) = OpenAt(P, a)
  <2>1. \A r \in Words(P) : ~Precedes(r, a) /\ Precedes(r, p) => Len(OpenAt(P, r)) >= n
    BY <1>1, <1>6, <1>7, <1>8, <1>9, NoneBetween
  <2> QED
    BY <1>7, <1>9, <1>10, <2>1, StillOpen
<1>12. Word(P, p).tok = t
  <2>1. Opener[Word(P, p).tok] = Opener[t]
    BY <1>10, <1>11
  <2>2. \A u, v \in Closes : Opener[u] = Opener[v] => u = v
    BY DEF Closes, Opener
  <2> QED
    BY <1>10, <2>1, <2>2
<1>13. p \in Found
  BY <1>7, <1>10, <1>12
<1>14. PICK b \in Found : \A r \in Found : ~Precedes(r, b)
  <2>1. Found \in SUBSET Spots(P) /\ Found # {}
    BY <1>1, <1>13
  <2> HIDE DEF Found
  <2> QED
    BY <1>1, <2>1, FirstSpot
<1>15. b \in Words(P) /\ b \in Spots(P) /\ ~Precedes(b, a) /\ Word(P, b).tok \in toks
       /\ Len(OpenAt(P, b)) = n
  BY <1>1, <1>14
<1>16. ~Precedes(p, b)
  BY <1>13, <1>14
<1>17. b \in From(a) /\ Statement(b).tok \in toks /\ Level(a, b) = 0
  <2>1. b \in From(a) /\ Statement(b).tok \in toks
    BY <1>15, FromFacts
  <2>2. Level(a, b) = Len(OpenAt(P, b)) - n
    BY <1>15, LevelFacts
  <2> HIDE DEF n
  <2> QED
    BY <1>3, <1>15, <2>1, <2>2
<1>18. ASSUME NEW r \in From(a), Precedes(r, b)
       PROVE  Level(a, r) >= 0 /\ ~(Level(a, r) = 0 /\ Statement(r).tok \in toks)
  <2>1. r \in Words(P) /\ r \in Spots(P) /\ ~Precedes(r, a) /\ Statement(r) = Word(P, r)
    BY <1>1, FromFacts
  <2>2. Precedes(r, q)
    <3>1. Precedes(r, p)
      BY <1>1, <1>9, <1>15, <1>16, <1>18, <2>1, Ordered
    <3> QED
      BY <1>1, <1>7, <2>1, <3>1, NoneBetween
  <2>3. Len(OpenAt(P, r)) >= n /\ Len(OpenAt(P, r)) \in Nat
    BY <1>2, <1>8, <2>1, <2>2
  <2>4. Level(a, r) = Len(OpenAt(P, r)) - n
    BY <2>1, LevelFacts
  <2>5. r \notin Found
    BY <1>14, <1>18
  <2>6. Statement(r).tok \in toks => Len(OpenAt(P, r)) # n
    BY <2>1, <2>5
  <2> HIDE DEF n
  <2> QED
    BY <1>3, <2>3, <2>4, <2>6
<1>19. b \in ScanStops(a, toks)
  BY <1>17, <1>18 DEF ScanStops
<1> QED
  BY <1>19

-----------------------------------------------------------------------------
(***************************************************************************)
(* What the frames stand for.                                              *)
(***************************************************************************)
\* The frame f has below under it and above over it: it stands for a structure
\* or a call there, and leads to a place where the same is open.
Nests(P, below, f, above) ==
  /\ above = Within(below, f)
  /\ f.kind \in {"repeat", "for"} => f.at \in Spots(P) /\ OpenAt(P, f.at) = above
  /\ f.kind \in {"while", "gosub", "proc"} => f.at \in Spots(P) /\ OpenAt(P, f.at) = below
  /\ f.kind = "local" => below = <<"defproc">>

\* The frames of s stand for what is open at p, and around each call.
Stands(P, c, s, p) ==
  /\ c \in [0..Len(s) -> Opened] /\ c[0] = <<>>
  /\ \A i \in 1..Len(s) : Nests(P, c[i - 1], s[i], c[i])
  /\ p \in Spots(P) /\ OpenAt(P, p) = c[Len(s)]
Mirrored(P, s, p) == \E c : Stands(P, c, s, p)

LEMMA FrameKinds ==
  ASSUME NEW f \in Frames
  PROVE  f.kind \in GoesOn \cup {"if", "local"}
BY DEF Frames, IfFrame, LocalFrame

LEMMA WithinType ==
  ASSUME NEW f \in Frames, NEW open \in Opened
  PROVE  /\ Within(open, f) \in Opened
         /\ f.kind \in {"repeat", "while", "for", "if"} =>
              Within(open, f) = Append(open, f.kind)
<1>1. <<>> \in Opened /\ <<"defproc">> \in Opened
  <2>1. "defproc" \in Opens
    BY DEF Opens
  <2> QED
    BY <2>1 DEF Opened
<1>2. ASSUME f.kind \in {"repeat", "while", "for", "if"}
      PROVE  Within(open, f) = Append(open, f.kind) /\ Append(open, f.kind) \in Opened
  <2>1. f.kind \in Opens
    BY <1>2 DEF Opens
  <2>2. Append(open, f.kind) \in Opened
    BY <2>1, AppendType DEF Opened
  <2> QED
    BY <1>2, <2>2 DEF Within
<1>3. f.kind \in {"gosub", "proc", "local"} \/ f.kind \in {"repeat", "while", "for", "if"}
  BY FrameKinds DEF GoesOn
<1> QED
  BY <1>1, <1>2, <1>3 DEF Within

LEMMA MirroredEmpty ==
  ASSUME NEW P, NEW p \in Spots(P), OpenAt(P, p) = <<>>
  PROVE  Mirrored(P, <<>>, p)
<1> DEFINE c == [i \in 0..0 |-> <<>>]
<1>1. <<>> \in Opened
  BY DEF Opened
<1>2. Stands(P, c, <<>>, p)
  <2>1. Len(<<>>) = 0
    OBVIOUS
  <2>2. c \in [0..0 -> Opened] /\ c[0] = <<>>
    BY <1>1
  <2> QED
    BY <2>1, <2>2 DEF Stands
<1> QED
  BY <1>2 DEF Mirrored

LEMMA MirroredMove ==
  ASSUME NEW P, NEW s, NEW p, Mirrored(P, s, p),
         NEW q \in Spots(P), OpenAt(P, q) = OpenAt(P, p)
  PROVE  Mirrored(P, s, q)
<1>1. PICK c : Stands(P, c, s, p)
  BY DEF Mirrored
<1>2. Stands(P, c, s, q)
  BY <1>1 DEF Stands
<1> QED
  BY <1>2 DEF Mirrored

LEMMA MirroredPush ==
  ASSUME NEW P, NEW s \in Seq(Frames), NEW p, Mirrored(P, s, p),
         NEW f \in Frames, NEW q \in Spots(P), OpenAt(P, q) \in Opened,
         Nests(P, OpenAt(P, p), f, OpenAt(P, q))
  PROVE  Mirrored(P, Push(s, f), q)
<1>1. PICK c : Stands(P, c, s, p)
  BY DEF Mirrored
<1> DEFINE n == Len(s)
           above == OpenAt(P, q)
           t == Append(s, f)
           d == [i \in 0..(n + 1) |-> IF i = n + 1 THEN above ELSE c[i]]
<1>2. n \in Nat /\ n + 1 # 0 /\ Len(t) = n + 1
  OBVIOUS
<1>3. /\ c \in [0..n -> Opened] /\ c[0] = <<>> /\ OpenAt(P, p) = c[n]
      /\ \A i \in 1..n : Nests(P, c[i - 1], s[i], c[i])
  BY <1>1 DEF Stands
<1>4. d \in [0..(n + 1) -> Opened] /\ d[0] = <<>> /\ d[n + 1] = above
  <2> HIDE DEF n, above
  <2>1. ASSUME NEW i \in 0..(n + 1), i # n + 1 PROVE c[i] \in Opened
    <3>1. i \in 0..n
      BY <1>2, <2>1
    <3> QED
      BY <1>3, <3>1
  <2>2. above \in Opened
    BY DEF above
  <2>3. \A i \in 0..(n + 1) : (IF i = n + 1 THEN above ELSE c[i]) \in Opened
    BY <2>1, <2>2
  <2>4. 0 \in 0..(n + 1) /\ n + 1 \in 0..(n + 1)
    BY <1>2
  <2> QED
    BY <1>2, <1>3, <2>3, <2>4
<1>5. ASSUME NEW i \in 1..(n + 1) PROVE Nests(P, d[i - 1], t[i], d[i])
  <2>1. d[i - 1] = c[i - 1]
    BY <1>2
  <2>2. CASE i = n + 1
    <3>1. t[i] = f /\ c[i - 1] = c[n]
      BY <1>2, <2>2
    <3>2. d[i] = above
      BY <1>4, <2>2
    <3>3. Nests(P, c[n], f, above)
      BY <1>3
    <3> QED
      <4> HIDE DEF d, t, n, above
      <4> QED
        BY <2>1, <3>1, <3>2, <3>3
  <2>3. CASE i # n + 1
    <3>1. i \in 1..n
      BY <1>2, <2>3
    <3>2. t[i] = s[i] /\ d[i] = c[i]
      BY <1>2, <3>1
    <3> QED
      BY <1>3, <2>1, <3>1, <3>2
  <2> QED
    BY <2>2, <2>3
<1>6. Stands(P, d, t, q)
  <2> HIDE DEF d, t, n
  <2> QED
    BY <1>2, <1>4, <1>5 DEF Stands
<1> QED
  BY <1>6 DEF Mirrored, Push

\* The frames below one stand for what is open below it.
LEMMA Prefix ==
  ASSUME NEW P, NEW s \in Seq(Frames), NEW c, NEW p, Stands(P, c, s, p),
         NEW m \in 0..Len(s), NEW q \in Spots(P), OpenAt(P, q) = c[m]
  PROVE  Mirrored(P, SubSeq(s, 1, m), q)
<1> DEFINE d == [i \in 0..m |-> c[i]]
           t == SubSeq(s, 1, m)
<1>1. Len(s) \in Nat /\ m \in Nat /\ m <= Len(s)
  OBVIOUS
<1>2. Len(t) = m /\ \A i \in 1..m : t[i] = s[i]
  BY <1>1
<1>3. /\ c \in [0..Len(s) -> Opened] /\ c[0] = <<>>
      /\ \A i \in 1..Len(s) : Nests(P, c[i - 1], s[i], c[i])
  BY DEF Stands
<1>4. d \in [0..m -> Opened] /\ d[0] = <<>> /\ d[m] = c[m]
  BY <1>1, <1>3
<1>5. ASSUME NEW i \in 1..m PROVE Nests(P, d[i - 1], t[i], d[i])
  <2>1. d[i - 1] = c[i - 1] /\ d[i] = c[i] /\ i \in 1..Len(s)
    BY <1>1
  <2> QED
    BY <1>2, <1>3, <2>1
<1>6. Stands(P, d, t, q)
  <2> HIDE DEF d, t
  <2> QED
    BY <1>2, <1>4, <1>5 DEF Stands
<1> QED
  BY <1>6 DEF Mirrored

LEMMA MirroredPop ==
  ASSUME NEW P, NEW s \in Seq(Frames), NEW p, Mirrored(P, s, p), s # <<>>
  PROVE  \E below \in Opened :
           /\ Nests(P, below, Last(s), OpenAt(P, p))
           /\ \A q \in Spots(P) : OpenAt(P, q) = below => Mirrored(P, Pop(s), q)
<1>1. PICK c : Stands(P, c, s, p)
  BY DEF Mirrored
<1>2. Len(s) \in Nat /\ Len(s) > 0 /\ Len(s) - 1 \in 0..Len(s)
  OBVIOUS
<1>3. c[Len(s) - 1] \in Opened
  BY <1>1, <1>2 DEF Stands
<1>4. Nests(P, c[Len(s) - 1], Last(s), OpenAt(P, p))
  BY <1>1, <1>2 DEF Stands, Last
<1>5. \A q \in Spots(P) : OpenAt(P, q) = c[Len(s) - 1] => Mirrored(P, Pop(s), q)
  BY <1>1, <1>2, Prefix DEF Pop
<1> QED
  BY <1>3, <1>4, <1>5

\* The innermost structure is on top of the stack.
LEMMA TopMirrored ==
  ASSUME NEW P, NEW s \in Seq(Frames), NEW p, Mirrored(P, s, p), OpenAt(P, p) # <<>>,
         NEW k \in {"repeat", "while", "for", "if"}, Last(OpenAt(P, p)) = k
  PROVE  /\ s # <<>> /\ Last(s).kind = k
         /\ k \in {"repeat", "for"} => /\ Last(s).at \in Spots(P)
                                       /\ OpenAt(P, Last(s).at) = OpenAt(P, p)
         /\ k = "while" => Last(s).at \in Spots(P) /\ Mirrored(P, Pop(s), Last(s).at)
         /\ \A q \in Spots(P) :
              OpenAt(P, q) = Front(OpenAt(P, p)) => Mirrored(P, Pop(s), q)
<1>1. s # <<>>
  <2>1. PICK c : Stands(P, c, s, p)
    BY DEF Mirrored
  <2>2. ASSUME s = <<>> PROVE FALSE
    <3>1. Len(s) = 0
      BY <2>2
    <3> QED
      BY <2>1, <3>1 DEF Stands
  <2> QED
    BY <2>2
<1>2. PICK below \in Opened :
         /\ Nests(P, below, Last(s), OpenAt(P, p))
         /\ \A q \in Spots(P) : OpenAt(P, q) = below => Mirrored(P, Pop(s), q)
  BY <1>1, MirroredPop
<1> DEFINE f == Last(s)
           open == OpenAt(P, p)
<1>3. f \in Frames
  BY <1>1, StackOps
<1>4. open = Within(below, f) /\ (f.kind = "local" => below = <<"defproc">>)
  BY <1>2 DEF Nests
<1>5. f.kind \notin {"gosub", "proc", "local"}
  <2>1. Last(<<"defproc">>) = "defproc"
    BY DEF Last
  <2> HIDE DEF f, open
  <2>2. f.kind \in {"gosub", "proc", "local"} => open = <<>> \/ open = <<"defproc">>
    BY <1>4 DEF Within
  <2> QED
    BY <2>1, <2>2 DEF open
<1>6. f.kind \in {"repeat", "while", "for", "if"}
  BY <1>3, <1>5, FrameKinds DEF GoesOn
<1>7. open = Append(below, f.kind)
  BY <1>3, <1>4, <1>6, WithinType
<1>8. Last(open) = f.kind /\ Front(open) = below
  <2> HIDE DEF f, open
  <2>1. Len(below) \in Nat /\ f.kind \in Opens
    BY <1>6 DEF Opened, Opens
  <2>2. Last(open) = f.kind
    BY <1>7, <2>1 DEF Last, Opened
  <2>3. open \in Opened /\ Len(open) = Len(below) + 1 /\ open # <<>>
        /\ \A i \in 1..Len(below) : open[i] = below[i]
    BY <1>7, <2>1 DEF Opened
  <2>4. /\ Front(open) \in Opened /\ Len(Front(open)) = Len(below)
        /\ \A i \in 1..Len(below) : Front(open)[i] = below[i]
    <3>1. /\ Front(open) \in Opened /\ Len(Front(open)) = Len(open) - 1
          /\ \A i \in 1..(Len(open) - 1) : Front(open)[i] = open[i]
      BY <2>3, FrontFacts
    <3>2. Len(open) - 1 = Len(below)
      BY <2>1, <2>3
    <3> QED
      BY <2>3, <3>1, <3>2
  <2>5. Front(open) = below
    BY <2>4 DEF Opened
  <2> QED
    BY <2>2, <2>5
<1>9. f.kind = k
  BY <1>8
<1>10. /\ k \in {"repeat", "for"} => f.at \in Spots(P) /\ OpenAt(P, f.at) = open
       /\ k = "while" => f.at \in Spots(P) /\ OpenAt(P, f.at) = below
  BY <1>2, <1>9 DEF Nests
<1> QED
  BY <1>1, <1>2, <1>8, <1>9, <1>10

\* GOSUB's frame leads to where what is below it stands for what is open.
LEMMA CallMirrored ==
  ASSUME NEW P, NEW s \in Seq(Frames), NEW p, Mirrored(P, s, p),
         s # <<>>, Last(s).kind = "gosub"
  PROVE  Last(s).at \in Spots(P) /\ Mirrored(P, Pop(s), Last(s).at)
BY MirroredPop DEF Nests

\* In a procedure, there are only local variables above PROC's frame.
LEMMA ProcMirrored ==
  ASSUME NEW P, NEW s \in Seq(Frames), NEW p, Mirrored(P, s, p), OpenAt(P, p) # <<>>,
         Last(OpenAt(P, p)) = "defproc", NEW m,
         m = SelectLastInSeq(s, LAMBDA f : f.kind # "local")
  PROVE  /\ m \in 1..Len(s) /\ s[m].kind = "proc" /\ s[m].at \in Spots(P)
         /\ Mirrored(P, SubSeq(s, 1, m - 1), s[m].at)
<1>1. PICK c : Stands(P, c, s, p)
  BY DEF Mirrored
<1>2. /\ m \in 0..Len(s) /\ Len(s) \in Nat
      /\ m # 0 => s[m].kind # "local"
      /\ \A i \in (m + 1)..Len(s) : s[i].kind = "local"
  BY LastOtherFacts
<1> DEFINE n == Len(s)
           W == {j \in 0..(n - m) : c[n - j] = c[n]}
<1>3. c \in [0..n -> Opened] /\ c[0] = <<>> /\ OpenAt(P, p) = c[n]
      /\ \A i \in 1..n : Nests(P, c[i - 1], s[i], c[i])
  BY <1>1 DEF Stands
<1>4. c[m] = c[n]
  <2>1. 0 \in W /\ n - m \in Nat
    BY <1>2
  <2>2. ASSUME NEW j \in 1..(n - m), j - 1 \in W PROVE j \in W
    <3>1. /\ n - (j - 1) \in (m + 1)..n /\ n - (j - 1) \in 1..n
          /\ (n - (j - 1)) - 1 = n - j /\ j \in 0..(n - m)
      BY <1>2
    <3>2. s[n - (j - 1)].kind = "local"
      BY <1>2, <3>1
    <3>3. Nests(P, c[n - j], s[n - (j - 1)], c[n - (j - 1)])
      BY <1>3, <3>1
    <3>4. c[n - (j - 1)] = c[n - j]
      BY <3>2, <3>3 DEF Nests, Within
    <3> QED
      BY <2>2, <3>1, <3>4
  <2>3. \A j \in 0..(n - m) : j \in W
    <3> HIDE DEF W, n
    <3> QED
      BY <2>1, <2>2, UpTo
  <2>4. n - m \in W /\ n - (n - m) = m
    BY <1>2, <2>3
  <2> QED
    BY <2>4
<1>5. m \in 1..n /\ m - 1 \in 0..n
  BY <1>2, <1>3, <1>4
<1> DEFINE f == s[m]
           below == c[m - 1]
<1>6. f \in Frames /\ below \in Opened /\ Nests(P, below, f, c[m])
  BY <1>3, <1>5, ElementType
<1>7. f.kind = "proc"
  <2>1. Last(c[m]) = "defproc" /\ c[m] # <<>> /\ c[m] = Within(below, f)
    BY <1>3, <1>4, <1>6 DEF Nests
  <2>2. f.kind # "gosub" /\ f.kind # "local"
    BY <1>2, <1>5, <2>1 DEF Within
  <2>3. ASSUME f.kind \in {"repeat", "while", "for", "if"} PROVE FALSE
    <3>1. c[m] = Append(below, f.kind)
      BY <1>6, <2>1, <2>3, WithinType
    <3> HIDE DEF f, below
    <3>2. Last(c[m]) = f.kind
      BY <1>6, <3>1 DEF Last, Opened
    <3> QED
      BY <2>1, <2>3, <3>2
  <2> QED
    BY <1>6, <2>2, <2>3, FrameKinds DEF GoesOn
<1>8. f.at \in Spots(P) /\ OpenAt(P, f.at) = below
  BY <1>6, <1>7 DEF Nests
<1>9. Mirrored(P, SubSeq(s, 1, m - 1), f.at)
  BY <1>1, <1>5, <1>8, Prefix
<1> QED
  BY <1>5, <1>7, <1>8, <1>9

\* Local variables stand for nothing.
LEMMA LocalsMirrored ==
  ASSUME NEW P, NEW s \in Seq(Frames), NEW p, Mirrored(P, s, p),
         OpenAt(P, p) = <<"defproc">>, NEW k \in Nat,
         NEW q \in Spots(P), OpenAt(P, q) = OpenAt(P, p)
  PROVE  Mirrored(P, s \o Locals(k), q)
<1>1. PICK c : Stands(P, c, s, p)
  BY DEF Mirrored
<1> DEFINE n == Len(s)
           t == s \o Locals(k)
           d == [i \in 0..(n + k) |-> IF i <= n THEN c[i] ELSE c[n]]
<1>2. n \in Nat /\ n + k \in Nat /\ n <= n + k
  OBVIOUS
<1>3. /\ c \in [0..n -> Opened] /\ c[0] = <<>> /\ OpenAt(P, p) = c[n]
      /\ \A i \in 1..n : Nests(P, c[i - 1], s[i], c[i])
  BY <1>1 DEF Stands
<1>4. Len(t) = n + k /\ \A i \in 1..(n + k) : t[i] = IF i <= n THEN s[i] ELSE LocalFrame
  <2>1. Locals(k) \in Seq({LocalFrame}) /\ Len(Locals(k)) = k
        /\ \A i \in 1..k : Locals(k)[i] = LocalFrame
    BY DEF Locals
  <2> QED
    BY <1>2, <2>1
<1>5. d \in [0..(n + k) -> Opened] /\ d[0] = <<>> /\ d[n + k] = c[n]
  <2> HIDE DEF n
  <2>1. \A i \in 0..(n + k) : (IF i <= n THEN c[i] ELSE c[n]) \in Opened
    BY <1>2, <1>3
  <2>2. 0 \in 0..(n + k) /\ n + k \in 0..(n + k) /\ 0 <= n
    BY <1>2
  <2>3. (IF n + k <= n THEN c[n + k] ELSE c[n]) = c[n]
    <3>1. n + k <= n => n + k = n
      BY <1>2
    <3> QED
      BY <3>1
  <2> QED
    BY <1>3, <2>1, <2>2, <2>3
<1>6. ASSUME NEW i \in 1..(n + k) PROVE Nests(P, d[i - 1], t[i], d[i])
  <2>1. CASE i <= n
    <3>1. i \in 1..n /\ d[i] = c[i] /\ d[i - 1] = c[i - 1] /\ t[i] = s[i]
      BY <1>2, <1>4, <2>1
    <3> HIDE DEF d, t, n
    <3> QED
      BY <1>3, <3>1
  <2>2. CASE i > n
    <3>1. t[i] = LocalFrame
      BY <1>2, <1>4, <2>2
    <3>2. d[i] = c[n] /\ d[i - 1] = c[n]
      <4>1. i - 1 \in 0..(n + k) /\ i \in 0..(n + k) /\ (i - 1 <= n => i - 1 = n)
            /\ ~(i <= n)
        BY <1>2, <2>2
      <4> QED
        BY <4>1
    <3>3. Nests(P, c[n], LocalFrame, c[n])
      BY <1>3 DEF Nests, Within, LocalFrame
    <3> HIDE DEF d, t, n
    <3> QED
      BY <3>1, <3>2, <3>3
  <2>3. i <= n \/ i > n
    BY <1>2
  <2> HIDE DEF d, t, n
  <2> QED
    BY <2>1, <2>2, <2>3
<1>7. Stands(P, d, t, q)
  <2> HIDE DEF d, t, n
  <2> QED
    BY <1>3, <1>4, <1>5, <1>6 DEF Stands
<1> QED
  BY <1>7 DEF Mirrored

-----------------------------------------------------------------------------
(***************************************************************************)
(* Well nested programs that are RUN.                                      *)
(***************************************************************************)
\* What is typed goes into a program by RUN only.
TypedToRun ==
  \A c \in Commands : \A i \in DOMAIN c : c[i].tok \in {"run", "other", "end", "clear", "new"}

\* The inductive invariant, with IInv: the frames stand for what is open.
Nesting ==
  prog \in NestedPrograms =>
    /\ error.kind # "structure"
    /\ mode = "run" /\ code[1] # 0 => Mirrored(prog, stack, code)

\* What an action finds, and what it must show.
Found == TypedToRun /\ IInv /\ Nesting /\ mode = "run" /\ prog \in NestedPrograms
Kept ==
  /\ prog' = prog /\ error'.kind # "structure"
  /\ mode' = "run" /\ code'[1] # 0 => Mirrored(prog, stack', code')

\* The rules of a well nested program.
Rules(P) ==
  \A p \in Words(P) :
    LET x == Word(P, p)
        open == OpenAt(P, p)
        AtLine(n) == \A l \in 1..Len(P) : P[l].num = n => OpenAt(P, <<l, 1>>) = open
    IN  /\ x.tok = "else" => open # <<>> /\ Last(open) = "if"
        /\ x.tok = "then" => OpenAt(P, LineEnd(P, p[1])) = open
        /\ x.tok \in {"goto", "then"} => \A n \in ToSet(x.arg) : AtLine(n)
        /\ x.tok = "gosub" =>
             \A n \in ToSet(x.arg) : \A l \in 1..Len(P) :
               P[l].num = n => OpenAt(P, <<l, 1>>) = <<>>
        /\ x.tok = "local" => open = <<"defproc">>
        /\ x.tok \in {"defproc", "run", "new", "clear"} => open = <<>>

LEMMA NestedRules ==
  ASSUME CoreOK, prog \in NestedPrograms
  PROVE  Balanced(prog) /\ Rules(prog)
<1> DEFINE P == prog
<1>1. P \in Seq(TextLines) /\ WellNested(P)
  BY ProgramText DEF NestedPrograms
<1>2. Balanced(P)
  BY <1>1 DEF Balanced, WellNested
<1>3. DOMAIN P = 1..Len(P) /\ \A l \in 1..Len(P) : DOMAIN P[l].code = 1..Len(P[l].code)
  BY <1>1, SpotFacts
<1>4. ASSUME NEW p \in Words(P)
      PROVE  LET x == Word(P, p)
                 open == OpenAt(P, p)
                 AtLine(n) == \A l \in 1..Len(P) :
                                P[l].num = n => OpenAt(P, <<l, 1>>) = open
             IN  /\ x.tok = "else" => open # <<>> /\ Last(open) = "if"
                 /\ x.tok = "then" => OpenAt(P, LineEnd(P, p[1])) = open
                 /\ x.tok \in {"goto", "then"} => \A n \in ToSet(x.arg) : AtLine(n)
                 /\ x.tok = "gosub" =>
                      \A n \in ToSet(x.arg) : \A l \in 1..Len(P) :
                        P[l].num = n => OpenAt(P, <<l, 1>>) = <<>>
                 /\ x.tok = "local" => open = <<"defproc">>
                 /\ x.tok \in {"defproc", "run", "new", "clear"} => open = <<>>
  <2>1. p \in Spots(P) /\ p[2] <= Len(P[p[1]].code)
    BY DEF Words
  <2>2. /\ p = <<p[1], p[2]>> /\ p[1] \in 1..Len(P) /\ p[2] \in Nat /\ p[2] >= 1
    BY <1>1, <2>1, SpotPair
  <2>3. p[1] \in DOMAIN P /\ p[2] \in DOMAIN P[p[1]].code
    <3>1. Len(P[p[1]].code) \in Nat
      BY <1>1, <2>2, SpotFacts
    <3> QED
      BY <1>3, <2>1, <2>2, <3>1
  <2> DEFINE x == P[p[1]].code[p[2]]
             open == OpenAt(P, <<p[1], p[2]>>)
             OpenAtLine(n) == {OpenAt(P, <<k, 1>>) : k \in {k \in DOMAIN P : P[k].num = n}}
  <2>4. /\ x.tok = "else" => open # <<>> /\ Last(open) = "if"
        /\ x.tok = "then" => OpenAt(P, <<p[1], Len(P[p[1]].code) + 1>>) = open
        /\ x.tok \in {"goto", "then"} => \A n \in ToSet(x.arg) : OpenAtLine(n) \subseteq {open}
        /\ x.tok = "gosub" => \A n \in ToSet(x.arg) : OpenAtLine(n) \subseteq {<<>>}
        /\ x.tok = "local" => open = <<"defproc">>
        /\ x.tok \in {"defproc", "run", "new", "clear"} => open = <<>>
    BY <1>1, <2>3 DEF WellNested
  <2>5. \A n, s : OpenAtLine(n) \subseteq {s} =>
                    \A l \in 1..Len(P) : P[l].num = n => OpenAt(P, <<l, 1>>) = s
    BY <1>3
  <2>6. x = Word(P, p) /\ open = OpenAt(P, p)
    BY <2>2 DEF Word
  <2> HIDE DEF OpenAtLine, x, open
  <2>7. ASSUME x.tok \in {"goto", "then"}, NEW n \in ToSet(x.arg), NEW l \in 1..Len(P),
               P[l].num = n
        PROVE  OpenAt(P, <<l, 1>>) = open
    BY <2>4, <2>5, <2>7
  <2>8. ASSUME x.tok = "gosub", NEW n \in ToSet(x.arg), NEW l \in 1..Len(P), P[l].num = n
        PROVE  OpenAt(P, <<l, 1>>) = <<>>
    BY <2>4, <2>5, <2>8
  <2>9. x.tok = "then" => OpenAt(P, LineEnd(P, p[1])) = open
    BY <2>4 DEF LineEnd
  <2> HIDE DEF P
  <2> QED
    BY <2>4, <2>6, <2>7, <2>8, <2>9
<1>5. Rules(P)
  BY <1>4 DEF Rules
<1> QED
  BY <1>2, <1>5

-----------------------------------------------------------------------------
\* A place in the program is not in the buffer.
LEMMA SpotInProgram ==
  ASSUME NEW p \in Spots(prog), prog \in Seq(TextLines)
  PROVE  p # Nowhere /\ p[1] # 0
BY SpotPair DEF Nowhere

\* A statement of the program that is executed.
Executes(t) ==
  /\ prog \in Seq(TextLines) /\ Balanced(prog) /\ Rules(prog) /\ CoreOK
  /\ stack \in Seq(Frames) /\ code[1] # 0
  /\ code \in Words(prog) /\ code \in Spots(prog) /\ Word(prog, code).tok = t
  /\ Statement(code) = Word(prog, code)
  /\ After(code) \in Spots(prog) /\ Mirrored(prog, stack, code)
  /\ OpenAt(prog, code) \in Opened /\ OpenAt(prog, After(code)) \in Opened

LEMMA StackType ==
  ASSUME IInv
  PROVE  stack \in Seq(Frames)
<1>1. SoundFrames \subseteq Frames /\ stack \in Seq(SoundFrames)
  BY DEF SoundFrames, IInv
<1> QED
  BY <1>1

LEMMA Executing ==
  ASSUME Found, NEW t, At(t)
  PROVE  \/ t \in {"run", "other", "end", "clear", "new"} /\ code[1] = 0
         \/ Executes(t)
<1>1. CoreOK /\ IInv /\ code \in Places /\ IsPlace(code) /\ HasStatement(code)
      /\ Statement(code).tok = t
  BY DEF Found, IInv, CoreOK, LineMatchesCode, At
<1>2. prog \in Seq(TextLines) /\ Balanced(prog) /\ Rules(prog) /\ Len(prog) \in Nat
  BY <1>1, ProgramText, NestedRules, SpotFacts DEF Found
<1>3. CASE code[1] = 0
  <2>1. Text(0) = buffer /\ code[2] \in 1..(Len(buffer) + 1) /\ code[2] <= Len(buffer)
    BY <1>1, <1>3 DEF HasStatement, IsPlace, Text
  <2>2. buffer \in Commands /\ DOMAIN buffer = 1..Len(buffer) /\ Len(buffer) \in Nat
    <3>1. buffer \in Seq(Statements)
      BY <1>1, <2>1, TextType, 0 \in 0..Len(prog), <1>2
    <3>2. buffer # <<>>
      <4>1. ASSUME buffer = <<>> PROVE FALSE
        <5>1. Len(buffer) = 0
          BY <4>1
        <5> QED
          BY <2>1, <5>1
      <4> QED
        BY <4>1
    <3> QED
      BY <1>1, <3>1, <3>2 DEF CoreOK
  <2>3. Statement(code) = buffer[code[2]] /\ code[2] \in DOMAIN buffer
    BY <1>3, <2>1, <2>2 DEF Statement
  <2> QED
    BY <1>1, <1>3, <2>2, <2>3 DEF Found, TypedToRun
<1>4. CASE code[1] # 0
  <2>1. code[1] \in 1..Len(prog) /\ Text(code[1]) = prog[code[1]].code
    BY <1>1, <1>2, <1>4 DEF IsPlace, Text
  <2>2. code \in Words(prog) /\ code \in Spots(prog)
    BY <1>1, <2>1 DEF Words, Spots, HasStatement, IsPlace
  <2>3. Statement(code) = Word(prog, code)
    BY <2>1 DEF Statement, Word
  <2>4. /\ After(code) \in Spots(prog)
        /\ OpenAt(prog, code) \in Opened /\ OpenAt(prog, After(code)) \in Opened
    BY <1>2, <2>2, SpotFacts, OpenFacts
  <2>5. Mirrored(prog, stack, code) /\ stack \in Seq(Frames)
    BY <1>1, <1>4, StackType DEF Found, Nesting
  <2> QED
    BY <1>1, <1>2, <1>4, <2>2, <2>3, <2>4, <2>5 DEF Executes
<1> QED
  BY <1>3, <1>4

-----------------------------------------------------------------------------
(***************************************************************************)
(* The building blocks of the actions, and what is open.                   *)
(***************************************************************************)

LEMMA NoComplaint ==
  ASSUME Found
  PROVE  error.kind # "structure"
BY DEF Found, Nesting

LEMMA KeptQuiet ==
  ASSUME Found, error' = error, prog' = prog, mode' # "run"
  PROVE  Kept
BY NoComplaint DEF Kept

LEMMA KeptReport ==
  ASSUME NEW kind, kind # "structure", Report(kind)
  PROVE  Kept
BY DEF Kept, Report, ToPrompt, memory

LEMMA KeptResume ==
  ASSUME Found, NEW p, NEW n, Resume(p, n), p[1] # 0 => Mirrored(prog, stack', p)
  PROVE  Kept
<1>1. mode = "run"
  BY DEF Found
<1> QED
  BY <1>1, NoComplaint DEF Kept, Resume, memory

LEMMA KeptStart ==
  ASSUME Found, NEW l, NEW c, StartLine(l, c),
         l \in 1..Len(prog) => Mirrored(prog, stack', <<l, 1>>)
  PROVE  Kept
BY NoComplaint DEF Kept, StartLine, ToPrompt, memory, Found

LEMMA KeptGoTo ==
  ASSUME Found, NEW n, GoTo(n),
         \A l \in 1..Len(prog) : prog[l].num = n => Mirrored(prog, stack', <<l, 1>>)
  PROVE  Kept
<1>1. CASE Report("other")
  BY <1>1, KeptReport
<1>2. ASSUME NEW l \in LinesNumbered(n), Resume(<<l, 1>>, n) PROVE Kept
  <2>1. l \in 1..Len(prog) /\ prog[l].num = n
    BY <1>2 DEF LinesNumbered
  <2>2. Mirrored(prog, stack', <<l, 1>>)
    BY <2>1
  <2> QED
    BY <1>2, <2>2, KeptResume
<1> QED
  BY <1>1, <1>2 DEF GoTo

\* A scan inside a structure goes on behind its end, or behind ELSE.
LEMMA KeptScan ==
  ASSUME Found, NEW t, Executes(t), NEW u \in Closes, NEW toks, u \in toks,
         toks \subseteq {u, "else"}, NEW v, NEW w,
         Scan(After(code), toks, v, w),
         OpenAt(prog, After(code)) # <<>>, Last(OpenAt(prog, After(code))) = Opener[u],
         "else" \in toks => Mirrored(prog, v, After(code)),
         \A q \in Spots(prog) :
           OpenAt(prog, q) = Front(OpenAt(prog, After(code))) => Mirrored(prog, w, q)
  PROVE  Kept
<1> DEFINE a == After(code)
<1>1. /\ CoreOK /\ Balanced(prog) /\ a \in Spots(prog) /\ prog \in Seq(TextLines)
  BY DEF Executes
<1>2. ScanStops(a, toks) # {}
  BY <1>1, StopExists
<1>3. PICK b \in ScanStops(a, toks) :
         /\ Resume(After(b), Number(b[1]))
         /\ stack' = IF Statement(b).tok = "else" THEN v ELSE w
  BY <1>2 DEF Scan
<1>4. /\ b \in Words(prog) /\ Word(prog, b).tok \in toks /\ Statement(b) = Word(prog, b)
      /\ OpenAt(prog, b) = OpenAt(prog, a)
  BY <1>1, <1>3, StopFacts
<1>5. After(b) \in Spots(prog)
  BY <1>1, <1>4, SpotFacts
<1>6. CASE Word(prog, b).tok = "else"
  <2>1. "else" \notin Opens \cup Closes
    BY DEF Opens, Closes
  <2>2. OpenAt(prog, After(b)) = OpenAt(prog, a)
    BY <1>1, <1>4, <1>6, <2>1, Reads
  <2>3. stack' = v /\ Mirrored(prog, v, a)
    BY <1>3, <1>4, <1>6
  <2>4. Mirrored(prog, stack', After(b))
    BY <1>5, <2>2, <2>3, MirroredMove
  <2> QED
    BY <1>3, <2>4, KeptResume
<1>7. CASE Word(prog, b).tok # "else"
  <2>1. Word(prog, b).tok \in Closes
    BY <1>4, <1>7
  <2>2. OpenAt(prog, After(b)) = Front(OpenAt(prog, a))
    BY <1>1, <1>4, <2>1, Reads
  <2>3. stack' = w
    BY <1>3, <1>4, <1>7
  <2>4. Mirrored(prog, stack', After(b))
    BY <1>5, <2>2, <2>3
  <2> QED
    BY <1>3, <2>4, KeptResume
<1> QED
  BY <1>6, <1>7

\* A statement that neither opens nor closes.
LEMMA PlainStatement ==
  ASSUME NEW t, Executes(t), t \notin Opens \cup Closes
  PROVE  /\ OpenAt(prog, After(code)) = OpenAt(prog, code)
         /\ Mirrored(prog, stack, After(code))
<1>1. OpenAt(prog, After(code)) = OpenAt(prog, code)
  BY Reads DEF Executes
<1> QED
  BY <1>1, MirroredMove DEF Executes

\* A statement that opens a structure, or closes the innermost one.
LEMMA OpeningStatement ==
  ASSUME NEW t \in {"repeat", "while", "for", "if"}, Executes(t)
  PROVE  /\ OpenAt(prog, After(code)) = Append(OpenAt(prog, code), t)
         /\ OpenAt(prog, After(code)) # <<>> /\ Last(OpenAt(prog, After(code))) = t
         /\ Front(OpenAt(prog, After(code))) = OpenAt(prog, code)
<1> DEFINE open == OpenAt(prog, code)
           next == OpenAt(prog, After(code))
<1>1. t \in Opens /\ open \in Opened /\ next \in Opened
  BY DEF Opens, Executes
<1>2. next = Append(open, t)
  BY <1>1, Reads DEF Executes
<1> HIDE DEF open, next
<1>3. Len(open) \in Nat /\ Len(next) = Len(open) + 1 /\ next # <<>>
      /\ next[Len(open) + 1] = t /\ \A i \in 1..Len(open) : next[i] = open[i]
  BY <1>1, <1>2 DEF Opened
<1>4. Last(next) = t
  BY <1>3 DEF Last
<1>5. Front(next) = open
  <2>1. /\ Front(next) \in Opened /\ Len(Front(next)) = Len(next) - 1
        /\ \A i \in 1..(Len(next) - 1) : Front(next)[i] = next[i]
    BY <1>1, <1>3, FrontFacts
  <2>2. Len(next) - 1 = Len(open)
    BY <1>3
  <2>3. Len(Front(next)) = Len(open) /\ \A i \in 1..Len(open) : Front(next)[i] = open[i]
    BY <1>3, <2>1, <2>2
  <2> QED
    BY <1>1, <2>1, <2>3 DEF Opened
<1> QED
  BY <1>2, <1>3, <1>4, <1>5 DEF open, next

LEMMA ClosingStatement ==
  ASSUME NEW t \in Closes, Executes(t)
  PROVE  /\ OpenAt(prog, code) # <<>> /\ Last(OpenAt(prog, code)) = Opener[t]
         /\ OpenAt(prog, After(code)) = Front(OpenAt(prog, code))
BY Reads DEF Executes

-----------------------------------------------------------------------------
(***************************************************************************)
(* The actions, and what is open.                                          *)
(***************************************************************************)

LEMMA KeptContinue ==
  ASSUME Found, NEW t, At(t), Continue,
         Executes(t) => Mirrored(prog, stack', After(code))
  PROVE  Kept
<1>1. After(code)[1] = code[1]
  BY DEF After
<1>2. code[1] = 0 \/ Executes(t)
  BY Executing
<1> QED
  BY <1>1, <1>2, KeptResume DEF Continue

LEMMA EndOfLineKept ==
  ASSUME Found, EndOfLine
  PROVE  Kept
<1>1. CASE lineNumber = 0 \/ code[1] = 0
  <2>1. ToPrompt(error) \/ Lose(stack)
    BY <1>1 DEF EndOfLine
  <2> QED
    BY <2>1, KeptQuiet DEF ToPrompt, Lose, memory
<1>2. CASE lineNumber # 0 /\ code[1] # 0
  <2>1. /\ CoreOK /\ IInv /\ code \in Places /\ IsPlace(code) /\ ~HasStatement(code)
        /\ Mirrored(prog, stack, code) /\ stack' = stack
        /\ StartLine(code[1] + 1, cpu)
    BY <1>2 DEF Found, Nesting, IInv, CoreOK, LineMatchesCode, EndOfLine
  <2>2. prog \in Seq(TextLines) /\ Len(prog) \in Nat
    BY <2>1, ProgramText, SpotFacts
  <2>3. /\ code[1] \in 1..Len(prog) /\ Text(code[1]) = prog[code[1]].code
        /\ Len(prog[code[1]].code) \in Nat
    BY <1>2, <2>1, <2>2, SpotFacts DEF IsPlace, Text
  <2>4. code \in Spots(prog) \ Words(prog)
    BY <2>1, <2>3 DEF Spots, Words, HasStatement, IsPlace
  <2>5. code = LineEnd(prog, code[1])
    BY <2>2, <2>4, SpotFacts
  <2>6. ASSUME code[1] + 1 \in 1..Len(prog)
        PROVE  Mirrored(prog, stack', <<code[1] + 1, 1>>)
    <3>1. OpenAt(prog, <<code[1] + 1, 1>>) = OpenAt(prog, code)
      BY <2>2, <2>3, <2>5, <2>6, OpenFacts
    <3>2. <<code[1] + 1, 1>> \in Spots(prog)
      BY <2>2, <2>6, SpotFacts
    <3> QED
      BY <2>1, <3>1, <3>2, MirroredMove
  <2> QED
    BY <2>1, <2>6, KeptStart
<1> QED
  BY <1>1, <1>2

LEMMA PlainKept ==
  ASSUME Found, Break \/ Fail \/ Other \/ End \/ DefProc
  PROVE  Kept
<1>1. CASE Break \/ Fail \/ DefProc
  BY <1>1, KeptReport DEF Break, Fail, DefProc
<1>2. CASE Other
  <2>1. At("other")
    BY <1>2 DEF Other
  <2>2. CASE Continue /\ stack' = stack
    <3>1. "other" \notin Opens \cup Closes
      BY DEF Opens, Closes
    <3> QED
      BY <2>1, <2>2, <3>1, PlainStatement, KeptContinue
  <2>3. CASE Lose(stack)
    BY <2>3, KeptQuiet DEF Lose, memory
  <2> QED
    BY <1>2, <2>2, <2>3 DEF Other
<1>3. CASE End
  BY <1>3, KeptQuiet DEF End, ToPrompt, memory
<1> QED
  BY <1>1, <1>2, <1>3

\* RUN, CLEAR and NEW empty the stack where nothing is open.
LEMMA EmptyingStatement ==
  ASSUME NEW t \in {"run", "clear", "new"}, Executes(t)
  PROVE  Mirrored(prog, <<>>, After(code))
<1>1. t \notin Opens \cup Closes
  BY DEF Opens, Closes
<1>2. OpenAt(prog, code) = <<>>
  BY DEF Executes, Rules
<1>3. OpenAt(prog, After(code)) = <<>>
  BY <1>1, <1>2, PlainStatement
<1> QED
  BY <1>3, MirroredEmpty DEF Executes

LEMMA EmptyingKept ==
  ASSUME Found, Run \/ Clear \/ New
  PROVE  Kept
<1>1. CASE Run
  <2>1. prog \in Seq(TextLines) /\ Len(prog) \in Nat
    BY ProgramText, SpotFacts DEF Found, IInv
  <2>2. ASSUME 1 \in 1..Len(prog) PROVE Mirrored(prog, <<>>, <<1, 1>>)
    <3>1. OpenAt(prog, <<1, 1>>) = <<>> /\ <<1, 1>> \in Spots(prog)
      BY <2>1, <2>2, OpenFacts, SpotFacts
    <3> QED
      BY <3>1, MirroredEmpty
  <2>3. PICK l \in {0, 1} : StartLine(l, cpu + 1) /\ stack' = <<>>
    BY <1>1 DEF Run
  <2>4. l \in 1..Len(prog) => Mirrored(prog, stack', <<l, 1>>)
    BY <2>1, <2>2, <2>3
  <2> QED
    BY <2>3, <2>4, KeptStart
<1>2. CASE Clear
  BY <1>2, EmptyingStatement, KeptContinue DEF Clear
<1>3. CASE New
  <2>1. /\ At("new") /\ stack' = <<>> /\ code' = After(code) /\ prog' = prog
        /\ error' = error
    BY <1>3 DEF New
  <2>2. code[1] = 0 \/ Mirrored(prog, <<>>, After(code))
    BY <2>1, Executing, EmptyingStatement
  <2>3. After(code)[1] = code[1]
    BY DEF After
  <2> QED
    BY <2>1, <2>2, <2>3, NoComplaint DEF Kept
<1> QED
  BY <1>1, <1>2, <1>3

LEMMA ThenKept ==
  ASSUME Found, Then
  PROVE  Kept
<1>1. At("then") /\ stack' = stack
  BY DEF Then
<1>2. Executes("then")
  BY <1>1, Executing
<1>3. prog \in Seq(TextLines) /\ Mirrored(prog, stack, code) /\ code \in Spots(prog)
  BY <1>2 DEF Executes
<1>4. CASE Continue
  <2>1. "then" \notin Opens \cup Closes
    BY DEF Opens, Closes
  <2> QED
    BY <1>1, <1>4, <2>1, PlainStatement, KeptContinue
<1>5. CASE Resume(<<code[1], Len(Text(code[1])) + 1>>, lineNumber)
  <2>1. code[1] \in 1..Len(prog) /\ code[1] # 0
    BY <1>3, SpotPair, SpotInProgram
  <2>2. <<code[1], Len(Text(code[1])) + 1>> = LineEnd(prog, code[1])
    BY <2>1 DEF LineEnd, Text
  <2>3. /\ LineEnd(prog, code[1]) \in Spots(prog)
        /\ OpenAt(prog, LineEnd(prog, code[1])) = OpenAt(prog, code)
    BY <1>2, <2>1, SpotFacts DEF Executes, Rules
  <2>4. Mirrored(prog, stack', LineEnd(prog, code[1]))
    BY <1>1, <1>3, <2>3, MirroredMove
  <2> QED
    BY <1>5, <2>2, <2>4, KeptResume
<1>6. ASSUME NEW n \in ToSet(Statement(code).arg), GoTo(n) PROVE Kept
  <2>1. ASSUME NEW l \in 1..Len(prog), prog[l].num = n PROVE Mirrored(prog, stack', <<l, 1>>)
    <3>1. OpenAt(prog, <<l, 1>>) = OpenAt(prog, code) /\ <<l, 1>> \in Spots(prog)
      BY <1>2, <1>6, <2>1, SpotFacts DEF Executes, Rules
    <3> QED
      BY <1>1, <1>3, <3>1, MirroredMove
  <2> QED
    BY <1>6, <2>1, KeptGoTo
<1> QED
  BY <1>4, <1>5, <1>6 DEF Then

LEMMA GotoKept ==
  ASSUME Found, GotoStatement
  PROVE  Kept
<1>1. At("goto") /\ stack' = stack
  BY DEF GotoStatement
<1>2. Executes("goto")
  BY <1>1, Executing
<1>3. PICK n \in ToSet(Statement(code).arg) : GoTo(n)
  BY DEF GotoStatement
<1>4. ASSUME NEW l \in 1..Len(prog), prog[l].num = n PROVE Mirrored(prog, stack', <<l, 1>>)
  <2>1. OpenAt(prog, <<l, 1>>) = OpenAt(prog, code) /\ <<l, 1>> \in Spots(prog)
    BY <1>2, <1>3, <1>4, SpotFacts DEF Executes, Rules
  <2> QED
    BY <1>1, <1>2, <2>1, MirroredMove DEF Executes
<1> QED
  BY <1>3, <1>4, KeptGoTo

\* A structure that is begun is put on the stack.
LEMMA Begun ==
  ASSUME NEW t \in {"repeat", "while", "for", "if"}, Executes(t),
         NEW f \in Frames, f.kind = t,
         t \in {"repeat", "for"} => f.at = After(code),
         t = "while" => f.at = code
  PROVE  Mirrored(prog, Push(stack, f), After(code))
<1>1. OpenAt(prog, After(code)) = Append(OpenAt(prog, code), t)
  BY OpeningStatement
<1>2. Within(OpenAt(prog, code), f) = Append(OpenAt(prog, code), t)
  BY WithinType DEF Executes
<1>3. Nests(prog, OpenAt(prog, code), f, OpenAt(prog, After(code)))
  BY <1>1, <1>2 DEF Nests, Executes
<1> QED
  BY <1>3, MirroredPush DEF Executes

LEMMA IfKept ==
  ASSUME Found, If
  PROVE  Kept
<1>1. At("if")
  BY DEF If
<1>2. Executes("if")
  BY <1>1, Executing
<1>3. Mirrored(prog, Push(stack, IfFrame), After(code))
  <2>1. IfFrame \in Frames /\ IfFrame.kind = "if"
    BY DEF Frames, IfFrame
  <2> QED
    BY <1>2, <2>1, Begun
<1>4. CASE Continue /\ stack' = Push(stack, IfFrame)
  BY <1>1, <1>3, <1>4, KeptContinue
<1>5. CASE Scan(After(code), {"else", "endif"}, Push(stack, IfFrame), stack)
  <2>1. "endif" \in Closes /\ Opener["endif"] = "if"
    BY DEF Closes, Opener
  <2>2. /\ OpenAt(prog, After(code)) # <<>> /\ Last(OpenAt(prog, After(code))) = "if"
        /\ Front(OpenAt(prog, After(code))) = OpenAt(prog, code)
    BY <1>2, OpeningStatement
  <2>3. ASSUME NEW q \in Spots(prog), OpenAt(prog, q) = Front(OpenAt(prog, After(code)))
        PROVE  Mirrored(prog, stack, q)
    BY <1>2, <2>2, <2>3, MirroredMove DEF Executes
  <2> QED
    BY <1>2, <1>3, <1>5, <2>1, <2>2, <2>3, KeptScan
<1> QED
  BY <1>4, <1>5 DEF If

\* ELSE and ENDIF find the frame of their IF.
LEMMA ElseKept ==
  ASSUME Found, Else \/ EndIf
  PROVE  Kept
<1>1. PICK t \in {"else", "endif"} : At(t) /\ (t = "else" => Else) /\ (t = "endif" => EndIf)
  BY DEF Else, EndIf
<1>2. Executes(t)
  BY <1>1, Executing
<1>3. "endif" \in Closes /\ Opener["endif"] = "if"
      /\ "else" \notin Opens \cup Closes
  BY DEF Closes, Opener, Opens
<1>4. OpenAt(prog, code) # <<>> /\ Last(OpenAt(prog, code)) = "if"
  <2>1. CASE t = "else"
    BY <1>2, <2>1 DEF Executes, Rules
  <2>2. CASE t = "endif"
    BY <1>2, <1>3, <2>2, ClosingStatement
  <2> QED
    BY <2>1, <2>2
<1>5. /\ stack # <<>> /\ Last(stack).kind = "if"
      /\ \A q \in Spots(prog) :
           OpenAt(prog, q) = Front(OpenAt(prog, code)) => Mirrored(prog, Pop(stack), q)
  BY <1>2, <1>4, TopMirrored DEF Executes
<1>6. ~Unmatched("if")
  BY <1>5 DEF Unmatched, TopIs
<1>7. CASE t = "else"
  <2>1. Scan(After(code), {"endif"}, stack, Pop(stack))
    BY <1>1, <1>6, <1>7 DEF Else
  <2>2. OpenAt(prog, After(code)) = OpenAt(prog, code)
    BY <1>2, <1>3, <1>7, PlainStatement
  <2> QED
    BY <1>2, <1>3, <1>4, <1>5, <2>1, <2>2, KeptScan
<1>8. CASE t = "endif"
  <2>1. Continue /\ stack' = Pop(stack)
    BY <1>1, <1>6, <1>8 DEF EndIf
  <2>2. Mirrored(prog, Pop(stack), After(code))
    BY <1>2, <1>3, <1>5, <1>8, ClosingStatement DEF Executes
  <2> QED
    BY <1>1, <2>1, <2>2, KeptContinue
<1> QED
  BY <1>7, <1>8

\* The frame of a loop, which has a place.
LEMMA LoopFrame ==
  ASSUME Found, NEW t \in {"repeat", "while", "for"}, At(t), NEW v \in Seq(Nat)
  PROVE  /\ Executes(t)
         /\ t # "while" =>
              Mirrored(prog, Push(stack, Frame(t, After(code), v)), After(code))
         /\ t = "while" => Mirrored(prog, Push(stack, Frame(t, code, v)), After(code))
<1>1. Executes(t) /\ t \in GoesOn
  BY Executing DEF GoesOn
<1>2. /\ t # "while" => Frame(t, After(code), v) \in Frames
      /\ t = "while" => Frame(t, code, v) \in Frames
  BY <1>1, NewFrame DEF Found, SoundFrames
<1>3. \A p : Frame(t, p, v).kind = t /\ Frame(t, p, v).at = p
  BY DEF Frame
<1> QED
  BY <1>1, <1>2, <1>3, Begun

LEMMA LoopBegins ==
  ASSUME Found, Repeat \/ While \/ For
  PROVE  Kept
<1>1. <<>> \in Seq(Nat)
  BY EmptyType
<1>2. CASE Repeat
  BY <1>1, <1>2, LoopFrame, KeptContinue DEF Repeat
<1>3. CASE While
  <2>1. At("while") /\ Executes("while")
    BY <1>1, <1>3, LoopFrame DEF While
  <2>2. CASE Continue /\ stack' = Push(stack, Frame("while", code, <<>>))
    BY <1>1, <2>1, <2>2, LoopFrame, KeptContinue
  <2>3. CASE Scan(After(code), {"wend"}, stack, stack)
    <3>1. "wend" \in Closes /\ Opener["wend"] = "while"
      BY DEF Closes, Opener
    <3>2. /\ OpenAt(prog, After(code)) # <<>> /\ Last(OpenAt(prog, After(code))) = "while"
          /\ Front(OpenAt(prog, After(code))) = OpenAt(prog, code)
      BY <2>1, OpeningStatement
    <3>3. ASSUME NEW q \in Spots(prog), OpenAt(prog, q) = Front(OpenAt(prog, After(code)))
          PROVE  Mirrored(prog, stack, q)
      BY <2>1, <3>2, <3>3, MirroredMove DEF Executes
    <3> QED
      BY <2>1, <2>3, <3>1, <3>2, <3>3, KeptScan
  <2> QED
    BY <1>3, <2>2, <2>3 DEF While
<1>4. CASE For
  <2>1. At("for") /\ stack' = Push(stack, Frame("for", After(code), Statement(code).arg))
    BY <1>4 DEF For
  <2>2. Statement(code).arg \in Seq(Nat)
    BY <2>1, AtFacts DEF Found
  <2>3. CASE Continue
    BY <2>1, <2>2, <2>3, LoopFrame, KeptContinue
  <2>4. CASE Report("other")
    BY <2>4, KeptReport
  <2> QED
    BY <1>4, <2>3, <2>4 DEF For
<1> QED
  BY <1>2, <1>3, <1>4

\* The end of a loop finds its frame.
LEMMA LoopCloses ==
  ASSUME Found, NEW t \in {"until", "wend", "next"}, At(t)
  PROVE  /\ TopIs(Opener[t])
         /\ Executes(t) /\ Mirrored(prog, Pop(stack), After(code))
         /\ t # "wend" => Mirrored(prog, stack, Last(stack).at)
         /\ t = "wend" => Mirrored(prog, Pop(stack), Last(stack).at)
<1>1. Executes(t)
  BY Executing
<1>2. t \in Closes /\ Opener[t] \in {"repeat", "while", "for", "if"}
      /\ (t # "wend" => Opener[t] \in {"repeat", "for"}) /\ Opener["wend"] = "while"
  BY DEF Closes, Opener
<1>3. /\ OpenAt(prog, code) # <<>> /\ Last(OpenAt(prog, code)) = Opener[t]
      /\ OpenAt(prog, After(code)) = Front(OpenAt(prog, code))
  BY <1>1, <1>2, ClosingStatement
<1>4. PICK k \in {"repeat", "while", "for", "if"} : k = Opener[t]
  BY <1>2
<1>5. /\ stack # <<>> /\ Last(stack).kind = k
      /\ k \in {"repeat", "for"} => /\ Last(stack).at \in Spots(prog)
                                    /\ OpenAt(prog, Last(stack).at) = OpenAt(prog, code)
      /\ k = "while" => Mirrored(prog, Pop(stack), Last(stack).at)
      /\ \A q \in Spots(prog) :
           OpenAt(prog, q) = Front(OpenAt(prog, code)) => Mirrored(prog, Pop(stack), q)
  <2>1. stack \in Seq(Frames) /\ Mirrored(prog, stack, code)
    BY <1>1 DEF Executes
  <2>2. OpenAt(prog, code) # <<>> /\ Last(OpenAt(prog, code)) = k
    BY <1>3, <1>4
  <2> QED
    BY <2>1, <2>2, TopMirrored
<1>6. t # "wend" => Mirrored(prog, stack, Last(stack).at)
  BY <1>1, <1>2, <1>4, <1>5, MirroredMove DEF Executes
<1>7. Mirrored(prog, Pop(stack), After(code))
  BY <1>1, <1>3, <1>5 DEF Executes
<1> QED
  BY <1>1, <1>2, <1>4, <1>5, <1>6, <1>7 DEF TopIs

LEMMA LoopEnds ==
  ASSUME Found, Until \/ WEnd \/ NextLoop
  PROVE  Kept
<1>1. Opener["until"] = "repeat" /\ Opener["wend"] = "while" /\ Opener["next"] = "for"
  BY DEF Opener
<1>2. CASE Until
  <2>1. At("until") /\ TopIs("repeat") /\ Mirrored(prog, Pop(stack), After(code))
        /\ Mirrored(prog, stack, Last(stack).at)
    BY <1>1, <1>2, LoopCloses DEF Until
  <2>2. CASE Continue /\ stack' = Pop(stack)
    BY <2>1, <2>2, KeptContinue
  <2>3. CASE Resume(Last(stack).at, Last(stack).line) /\ stack' = stack
    BY <2>1, <2>3, KeptResume
  <2> QED
    BY <1>2, <2>1, <2>2, <2>3 DEF Until, Unmatched
<1>3. CASE WEnd
  <2>1. At("wend") /\ TopIs("while") /\ Mirrored(prog, Pop(stack), Last(stack).at)
    BY <1>1, <1>3, LoopCloses DEF WEnd
  <2>2. Resume(Last(stack).at, Last(stack).line) /\ stack' = Pop(stack)
    BY <1>3, <2>1 DEF WEnd, Unmatched, Return
  <2> QED
    BY <2>1, <2>2, KeptResume
<1>4. CASE NextLoop
  <2>1. At("next") /\ TopIs("for") /\ Mirrored(prog, Pop(stack), After(code))
        /\ Mirrored(prog, stack, Last(stack).at)
    BY <1>1, <1>4, LoopCloses DEF NextLoop
  <2>2. CASE Continue /\ stack' = Pop(stack)
    BY <2>1, <2>2, KeptContinue
  <2>3. CASE Resume(Last(stack).at, Last(stack).line) /\ stack' = stack
    BY <2>1, <2>3, KeptResume
  <2>4. CASE Report("other")
    BY <2>4, KeptReport
  <2> QED
    BY <1>4, <2>1, <2>2, <2>3, <2>4 DEF NextLoop, Unmatched
<1> QED
  BY <1>2, <1>3, <1>4

\* A call puts its frame on the stack, and begins where nothing is open, or
\* only DEFPROC.
LEMMA GosubKept ==
  ASSUME Found, Gosub
  PROVE  Kept
<1> DEFINE f == Frame("gosub", After(code), <<>>)
<1>1. At("gosub") /\ stack' = Push(stack, f)
  BY DEF Gosub
<1>2. Executes("gosub")
  BY <1>1, Executing
<1>3. f \in Frames /\ f.kind = "gosub" /\ f.at = After(code)
  <2>1. "gosub" \in GoesOn /\ <<>> \in Seq(Nat) /\ "gosub" # "while"
    BY EmptyType DEF GoesOn
  <2>2. f \in SoundFrames
    BY <1>1, <2>1, NewFrame DEF Found
  <2> QED
    BY <2>2 DEF SoundFrames, Frame
<1>4. OpenAt(prog, After(code)) = OpenAt(prog, code)
  <2>1. "gosub" \notin Opens \cup Closes
    BY DEF Opens, Closes
  <2> QED
    BY <1>2, <2>1, PlainStatement
<1>5. CASE Report("other")
  BY <1>5, KeptReport
<1>6. ASSUME NEW n \in ToSet(Statement(code).arg), GoTo(n),
             NEW l \in 1..Len(prog), prog[l].num = n
      PROVE  Mirrored(prog, stack', <<l, 1>>)
  <2>1. OpenAt(prog, <<l, 1>>) = <<>> /\ <<l, 1>> \in Spots(prog)
    BY <1>2, <1>6, SpotFacts DEF Executes, Rules
  <2>2. OpenAt(prog, <<l, 1>>) \in Opened
    BY <1>2, <2>1, OpenFacts DEF Executes
  <2> HIDE DEF f
  <2>3. Nests(prog, OpenAt(prog, code), f, OpenAt(prog, <<l, 1>>))
    BY <1>2, <1>3, <1>4, <2>1 DEF Nests, Within, Executes
  <2> QED
    BY <1>1, <1>2, <1>3, <2>1, <2>2, <2>3, MirroredPush DEF Executes
<1> QED
  BY <1>5, <1>6, KeptGoTo DEF Gosub

LEMMA ReturnKept ==
  ASSUME Found, ReturnStatement
  PROVE  Kept
<1>1. At("return") /\ Executes("return")
  BY Executing DEF ReturnStatement
<1>2. CASE Report("Return without Gosub")
  BY <1>2, KeptReport
<1>3. CASE Return("gosub")
  <2>1. /\ stack # <<>> /\ Last(stack).kind = "gosub" /\ stack' = Pop(stack)
        /\ Resume(Last(stack).at, Last(stack).line)
    BY <1>3 DEF Return, TopIs
  <2>2. Mirrored(prog, Pop(stack), Last(stack).at)
    BY <1>1, <2>1, CallMirrored DEF Executes
  <2> QED
    BY <2>1, <2>2, KeptResume
<1> QED
  BY <1>2, <1>3 DEF ReturnStatement

LEMMA DefinitionOpens ==
  ASSUME CoreOK, Balanced(prog), Rules(prog), NEW name, NEW l \in LinesDefining(name)
  PROVE  <<l, 2>> \in Spots(prog) /\ OpenAt(prog, <<l, 2>>) = <<"defproc">>
<1>1. prog \in Seq(TextLines) /\ l \in 1..Len(prog) /\ prog[l].code # <<>>
      /\ prog[l].code[1] = [tok |-> "defproc", arg |-> name]
  BY ProgramText DEF LinesDefining
<1>2. prog[l].code \in Seq(Statements) /\ Len(prog[l].code) \in Nat
      /\ <<l, 1>> \in Spots(prog)
  BY <1>1, SpotFacts
<1>3. Len(prog[l].code) >= 1
  <2> DEFINE w == prog[l].code
  <2>1. w \in Seq(Statements) /\ w # <<>>
    BY <1>1, <1>2
  <2> HIDE DEF w
  <2>2. Len(w) >= 1
    BY <2>1
  <2> QED
    BY <2>2 DEF w
<1>4. <<l, 1>> \in Words(prog) /\ Word(prog, <<l, 1>>).tok = "defproc"
  BY <1>1, <1>2, <1>3 DEF Words, Word
<1>5. OpenAt(prog, <<l, 1>>) = <<>>
  BY <1>4 DEF Rules
<1>6. After(<<l, 1>>) = <<l, 2>>
  BY DEF After
<1>7. "defproc" \in Opens
  BY DEF Opens
<1>8. OpenAt(prog, <<l, 2>>) = Append(<<>>, "defproc")
  BY <1>4, <1>5, <1>6, <1>7, Reads
<1>9. <<l, 2>> \in Spots(prog)
  BY <1>1, <1>4, <1>6, SpotFacts
<1> QED
  BY <1>8, <1>9

LEMMA ProcKept ==
  ASSUME Found, Proc
  PROVE  Kept
<1> DEFINE f == Frame("proc", After(code), <<>>)
<1>1. At("proc")
  BY DEF Proc
<1>2. Executes("proc")
  BY <1>1, Executing
<1>3. f \in Frames /\ f.kind = "proc" /\ f.at = After(code)
  <2>1. "proc" \in GoesOn /\ <<>> \in Seq(Nat) /\ "proc" # "while"
    BY EmptyType DEF GoesOn
  <2>2. f \in SoundFrames
    BY <1>1, <2>1, NewFrame DEF Found
  <2> QED
    BY <2>2 DEF SoundFrames, Frame
<1>4. OpenAt(prog, After(code)) = OpenAt(prog, code)
  <2>1. "proc" \notin Opens \cup Closes
    BY DEF Opens, Closes
  <2> QED
    BY <1>2, <2>1, PlainStatement
<1>5. CASE Report("other")
  BY <1>5, KeptReport
<1>6. ASSUME NEW l, ArgumentError(l) PROVE Kept
  BY <1>6 DEF ArgumentError, ToPrompt, Kept, memory
<1>7. ASSUME NEW l \in LinesDefining(Statement(code).arg), NEW k \in 0..MaxLocals,
             stack' = Push(stack, f) \o Locals(k), Resume(<<l, 2>>, Number(l))
      PROVE  Kept
  <2>1. <<l, 2>> \in Spots(prog) /\ OpenAt(prog, <<l, 2>>) = <<"defproc">>
    BY <1>2, DefinitionOpens DEF Executes
  <2>2. OpenAt(prog, <<l, 2>>) \in Opened
    BY <1>2, <2>1, OpenFacts DEF Executes
  <2> HIDE DEF f
  <2>3. Nests(prog, OpenAt(prog, code), f, OpenAt(prog, <<l, 2>>))
    BY <1>2, <1>3, <1>4, <2>1 DEF Nests, Within, Executes
  <2>4. Mirrored(prog, Push(stack, f), <<l, 2>>) /\ Push(stack, f) \in Seq(Frames)
    BY <1>2, <1>3, <2>1, <2>2, <2>3, MirroredPush, StackOps DEF Executes
  <2>5. k \in Nat
    BY ProgramsAssumption
  <2>6. Mirrored(prog, stack', <<l, 2>>)
    BY <1>7, <2>1, <2>4, <2>5, LocalsMirrored
  <2> QED
    BY <1>7, <2>6, KeptResume
<1> QED
  BY <1>5, <1>6, <1>7 DEF Proc

LEMMA LocalKept ==
  ASSUME Found, Local
  PROVE  Kept
<1>1. At("local") /\ (Continue \/ Report("other"))
  BY DEF Local
<1>2. Executes("local")
  BY <1>1, Executing
<1>3. PICK k \in 0..MaxLocals : stack' = stack \o Locals(k)
  BY DEF Local
<1>4. OpenAt(prog, code) = <<"defproc">>
  BY <1>2 DEF Executes, Rules
<1>5. OpenAt(prog, After(code)) = OpenAt(prog, code)
  <2>1. "local" \notin Opens \cup Closes
    BY DEF Opens, Closes
  <2> QED
    BY <1>2, <2>1, PlainStatement
<1>6. k \in Nat
  BY ProgramsAssumption
<1>7. Mirrored(prog, stack', After(code))
  BY <1>2, <1>3, <1>4, <1>5, <1>6, LocalsMirrored DEF Executes
<1> QED
  BY <1>1, <1>7, KeptContinue, KeptReport

LEMMA PopPrefix ==
  ASSUME NEW S, NEW s \in Seq(S), NEW m \in 1..Len(s)
  PROVE  /\ SubSeq(s, 1, m) # <<>> /\ Last(SubSeq(s, 1, m)) = s[m]
         /\ Pop(SubSeq(s, 1, m)) = SubSeq(s, 1, m - 1)
<1>1. PICK t : t = SubSeq(s, 1, m)
  OBVIOUS
<1>2. t \in Seq(S) /\ Len(t) = m /\ m \in Nat /\ m > 0 /\ \A i \in 1..m : t[i] = s[i]
  BY <1>1
<1>3. t # <<>> /\ Last(t) = s[m]
  BY <1>2 DEF Last
<1>4. PICK j \in 0..m : j = m - 1 /\ j \in 0..Len(s) /\ j <= m
  <2>1. m - 1 \in 0..m /\ m - 1 \in 0..Len(s) /\ m - 1 <= m
    BY <1>2
  <2> QED
    BY <2>1
<1>5. PICK x, y : x = SubSeq(t, 1, j) /\ y = SubSeq(s, 1, j)
  OBVIOUS
<1>6. x \in Seq(S) /\ Len(x) = j /\ \A i \in 1..j : x[i] = t[i]
  BY <1>2, <1>4, <1>5
<1>7. y \in Seq(S) /\ Len(y) = j /\ \A i \in 1..j : y[i] = s[i]
  BY <1>4, <1>5
<1>8. \A i \in 1..j : x[i] = y[i]
  BY <1>2, <1>4, <1>6, <1>7
<1>9. x = y
  BY <1>6, <1>7, <1>8
<1> QED
  BY <1>1, <1>2, <1>3, <1>4, <1>5, <1>9 DEF Pop

LEMMA EndProcKept ==
  ASSUME Found, EndProc
  PROVE  Kept
<1>1. At("endproc")
  BY DEF EndProc
<1>2. Executes("endproc")
  BY <1>1, Executing
<1>3. "endproc" \in Closes /\ Opener["endproc"] = "defproc"
  BY DEF Closes, Opener
<1>4. OpenAt(prog, code) # <<>> /\ Last(OpenAt(prog, code)) = "defproc"
  BY <1>2, <1>3, ClosingStatement
<1> DEFINE m == LastOther
           rest == SubSeq(stack, 1, m)
<1>5. /\ m \in 1..Len(stack) /\ stack[m].kind = "proc"
      /\ Mirrored(prog, SubSeq(stack, 1, m - 1), stack[m].at)
  <2>1. m = SelectLastInSeq(stack, LAMBDA f : f.kind # "local")
    BY DEF LastOther
  <2> HIDE DEF m
  <2> QED
    BY <1>2, <1>4, <2>1, ProcMirrored DEF Executes
<1>6. stack \in Seq(Frames)
  BY <1>2 DEF Executes
<1>7. rest # <<>> /\ Last(rest) = stack[m] /\ Pop(rest) = SubSeq(stack, 1, m - 1)
  <2> HIDE DEF m
  <2> QED
    BY <1>5, <1>6, PopPrefix
<1>8. Resume(stack[m].at, stack[m].line) /\ stack' = SubSeq(stack, 1, m - 1)
  <2>1. rest = SubSeq(stack, 1, LastOther)
    OBVIOUS
  <2> HIDE DEF rest, m
  <2> QED
    BY <1>5, <1>7, <2>1 DEF EndProc
<1> QED
  BY <1>5, <1>8, KeptResume

-----------------------------------------------------------------------------
LEMMA StepKept ==
  ASSUME Found, Step
  PROVE  Kept
BY EndOfLineKept, PlainKept, EmptyingKept, ThenKept, GotoKept, IfKept, ElseKept,
   LoopBegins, LoopEnds, GosubKept, ReturnKept, ProcKept, LocalKept, EndProcKept
   DEF Step

\* No statement changes the program.  (NEW zeroes a link.)
LEMMA StepLeavesText ==
  ASSUME Step
  PROVE  prog' = prog
<1>1. /\ \A p, n : Resume(p, n) => prog' = prog
      /\ \A l, c : StartLine(l, c) => prog' = prog
      /\ \A s : Lose(s) => prog' = prog
      /\ \A e : ToPrompt(e) => prog' = prog
      /\ \A kind : Report(kind) => prog' = prog
      /\ \A l : ArgumentError(l) => prog' = prog
      /\ Continue => prog' = prog
  BY DEF Resume, StartLine, Lose, ToPrompt, Report, ArgumentError, Continue, memory
<1>2. /\ \A n : GoTo(n) => prog' = prog
      /\ \A a, toks, s, t : Scan(a, toks, s, t) => prog' = prog
      /\ \A kind : Unmatched(kind) \/ Return(kind) => prog' = prog
  BY <1>1 DEF GoTo, Scan, Unmatched, Return
<1>3. CASE EndOfLine \/ Break \/ Fail \/ Other \/ End \/ Run \/ Clear \/ New
  BY <1>1, <1>3 DEF EndOfLine, Break, Fail, Other, End, Run, Clear, New
<1>4. CASE Then \/ If \/ Else \/ EndIf \/ Repeat \/ Until \/ While \/ WEnd
  BY <1>1, <1>2, <1>4 DEF Then, If, Else, EndIf, Repeat, Until, While, WEnd
<1>5. CASE For \/ NextLoop \/ GotoStatement \/ Gosub \/ ReturnStatement
  BY <1>1, <1>2, <1>5 DEF For, NextLoop, GotoStatement, Gosub, ReturnStatement
<1>6. CASE Proc
  BY <1>1, <1>6 DEF Proc
<1>7. CASE DefProc \/ Local \/ EndProc
  BY <1>1, <1>7 DEF DefProc, Local, EndProc
<1> QED
  BY <1>3, <1>4, <1>5, <1>6, <1>7 DEF Step

LEMMA NestingNext ==
  ASSUME TypedToRun, IInv, Nesting, [Next]_vars
  PROVE  Nesting'
<1>1. CASE UNCHANGED vars
  BY <1>1 DEF Nesting, vars
<1>2. CASE \E c \in Commands : TypeCommand(c)
  BY <1>2 DEF TypeCommand, Nesting, NoError
<1>3. CASE \E p \in Edits : TypeLine(p)
  BY <1>3 DEF TypeLine, Nesting, NoError
<1>4. CASE TypeNoCommand
  BY <1>4 DEF TypeNoCommand, Nesting, NoError
<1>5. CASE Step
  <2> SUFFICES ASSUME prog' \in NestedPrograms
               PROVE  /\ error'.kind # "structure"
                      /\ mode' = "run" /\ code'[1] # 0 => Mirrored(prog', stack', code')
    BY DEF Nesting
  <2>1. mode = "run"
    BY <1>5, StepsRun
  <2>2. prog' = prog
    BY <1>5, StepLeavesText
  <2>3. Kept
    BY <1>5, <2>1, <2>2, StepKept DEF Found
  <2> QED
    BY <2>2, <2>3 DEF Kept
<1> QED
  BY <1>1, <1>2, <1>3, <1>4, <1>5 DEF Next

\* The frames can stand for one thing only.
LEMMA ContextIs ==
  ASSUME NEW P, NEW s \in Seq(Frames), NEW c, NEW p, Stands(P, c, s, p)
  PROVE  \A i \in 0..Len(s) : Context(s)[i] = c[i]
<1> DEFINE n == Len(s)
           Solves(f) == f = [i \in 0..n |-> IF i = 0 THEN <<>> ELSE Within(f[i - 1], s[i])]
<1>1. /\ n \in Nat /\ c \in [0..n -> Opened] /\ c[0] = <<>>
      /\ \A i \in 1..n : c[i] = Within(c[i - 1], s[i])
  BY DEF Stands, Nests
<1>2. Solves(c)
  <2> DEFINE h == [i \in 0..n |-> IF i = 0 THEN <<>> ELSE Within(c[i - 1], s[i])]
  <2>1. \A i \in 0..n : i # 0 => i \in 1..n
    BY <1>1
  <2>2. \A i \in 0..n : c[i] = h[i]
    BY <1>1, <2>1
  <2>3. c = h
    BY <1>1, <2>2
  <2> QED
    BY <2>3
<1>3. Solves(Context(s))
  <2>1. Context(s) = CHOOSE u : Solves(u)
    BY DEF Context
  <2> HIDE DEF Solves
  <2> QED
    BY <1>2, <2>1
<1> DEFINE u == Context(s)
<1> HIDE DEF u
<1>4. u = [i \in 0..n |-> IF i = 0 THEN <<>> ELSE Within(u[i - 1], s[i])]
  BY <1>3 DEF u
<1>5. u[0] = <<>> /\ \A i \in 1..n : u[i] = Within(u[i - 1], s[i])
  BY <1>1, <1>4
<1> DEFINE W == {i \in 0..n : u[i] = c[i]}
<1>6. 0 \in W
  BY <1>1, <1>5
<1>7. \A i \in 1..n : i - 1 \in W => i \in W
  BY <1>1, <1>5
<1>8. \A i \in 0..n : i \in W
  <2> HIDE DEF W
  <2> QED
    BY <1>1, <1>6, <1>7, UpTo
<1> QED
  BY <1>8 DEF u

LEMMA NestingShows ==
  ASSUME IInv, Nesting
  PROVE  MirrorsNesting
<1> SUFFICES ASSUME prog \in NestedPrograms, mode = "run", code[1] # 0
             PROVE  /\ Context(stack)[Len(stack)] = OpenAt(prog, code)
                    /\ \A i \in DOMAIN stack :
                         stack[i].kind \in GoesOn =>
                           LET left == IF stack[i].kind \in {"repeat", "for"} THEN i ELSE i - 1
                           IN  Context(stack)[left] = OpenAt(prog, stack[i].at)
  BY DEF MirrorsNesting
<1>1. stack \in Seq(Frames) /\ DOMAIN stack = 1..Len(stack) /\ Len(stack) \in Nat
  BY StackType
<1>2. PICK c : Stands(prog, c, stack, code)
  BY DEF Nesting, Mirrored
<1>3. \A i \in 0..Len(stack) : Context(stack)[i] = c[i]
  BY <1>1, <1>2, ContextIs
<1>4. Context(stack)[Len(stack)] = OpenAt(prog, code)
  BY <1>1, <1>2, <1>3 DEF Stands
<1>5. ASSUME NEW i \in 1..Len(stack), stack[i].kind \in GoesOn
      PROVE  LET left == IF stack[i].kind \in {"repeat", "for"} THEN i ELSE i - 1
             IN  Context(stack)[left] = OpenAt(prog, stack[i].at)
  <2>1. i \in 0..Len(stack) /\ i - 1 \in 0..Len(stack)
    BY <1>1
  <2>2. Nests(prog, c[i - 1], stack[i], c[i])
    BY <1>2 DEF Stands
  <2>3. CASE stack[i].kind \in {"repeat", "for"}
    BY <1>3, <2>1, <2>2, <2>3 DEF Nests
  <2>4. CASE stack[i].kind \in {"while", "gosub", "proc"}
    BY <1>3, <2>1, <2>2, <2>4 DEF Nests
  <2> QED
    BY <1>5, <2>3, <2>4 DEF GoesOn
<1> QED
  BY <1>1, <1>4, <1>5

LEMMA NestingInvariance ==
  ASSUME TypedToRun
  PROVE  Spec => [](IInv /\ Nesting)
<1>1. Init => Nesting
  BY DEF Init, Nesting, NoError
<1>2. IInv /\ Nesting /\ [Next]_vars => Nesting'
  BY NestingNext
<1> QED
  BY <1>1, <1>2, Invariance, PTL DEF Spec

\* Whatever the programs are, as long as what is typed goes into a program by RUN
\* only: while a well nested program runs, the frames on the BASIC stack stand for
\* the structures around the code pointer and around each call, and each frame
\* leads to a place with the structures that are then on the stack.
THEOREM NestingTheorem ==
  ASSUME TypedToRun
  PROVE  Spec => []MirrorsNesting
<1>1. IInv /\ Nesting => MirrorsNesting
  BY NestingShows
<1> QED
  BY <1>1, NestingInvariance, PTL

\* So, whatever the conditions and counts in it are, a well nested program meets no
\* structure error: every scan for ELSE, ENDIF and WEND finds the one that belongs
\* to its IF or WHILE, and every word that closes a structure finds its frame.
THEOREM NoStructureTheorem ==
  ASSUME TypedToRun
  PROVE  Spec => []NoStructureErrors
<1>1. IInv /\ Nesting => NoStructureErrors
  BY DEF Nesting, NoStructureErrors
<1> QED
  BY <1>1, NestingInvariance, PTL
=============================================================================
