----------------------------- MODULE DataPage -----------------------------
(***************************************************************************)
(* The data page (data.asm:17-22): parameter buffer, BASIC stack,          *)
(* expression stack and 65816 stack share one page, and no routine looks   *)
(* for a limit.  Frames go up from BasStack.  Evaluate puts its first      *)
(* level a distance above DStack, each level further up (EXSNext) while    *)
(* the return addresses and saved words of its callers come down from      *)
(* CpuStack.  Addresses are bytes of the page.                             *)
(*                                                                         *)
(* ControlFlow has what the frames hold and Expression what the levels     *)
(* hold; here is where they lie.                                           *)
(***************************************************************************)
EXTENDS Integers, Sequences, FiniteSets

CONSTANTS
  PrmBuffer,    \* start of the parameter buffer
  PrmColumn,    \* distance of its three columns, low and high words and types
  BasStack,     \* start of the BASIC stack
  CpuStack,     \* first word of the 65816 stack
  Pushes,       \* bytes that IF, REPEAT, FOR, GOSUB, PROC, LOCAL... push
  Nestings,     \* bytes of 65816 stack that one more level takes
  NoBase,       \* no expression is evaluated
  MaxParameters, MaxFrames, MaxLevels  \* bounds

Word == 2
ForBytes == 8       \* a FOR frame
ProcBytes == 6      \* a PROC frame
LevelBytes == 6     \* EXSNext, a level of the expression stack

DataPageAssumption ==
  /\ PrmBuffer \in Nat /\ PrmColumn \in Nat \ {0} /\ BasStack \in Nat
  /\ CpuStack \in Nat
  /\ Pushes \subseteq Nat \ {0, 1}
  /\ Nestings \subseteq Nat
  /\ MaxParameters \in Nat /\ MaxFrames \in Nat /\ MaxLevels \in Nat
  /\ NoBase \notin Nat

VARIABLES
  frames,       \* sizes of the frames on the BASIC stack
  dstack,       \* DStack
  held,         \* bytes above DStack of a frame NEXT has taken off and reads
  base, levels, \* X of the first level of the expression, levels in use
  cpu,          \* bytes of 65816 stack that each open level took
  phase,        \* "values" and "locals" of a PROC with parameters, or "none"
  arguments,    \* parameters of it that were evaluated
  buffer        \* what was last written to the words of the parameter buffer

vars == <<frames, dstack, held, base, levels, cpu, phase, arguments, buffer>>
proc == <<phase, arguments, buffer>>
stack == <<frames, dstack, held>>
expression == <<base, levels, cpu>>

Total(s) == LET sum[i \in 0..Len(s)] == IF i = 0 THEN 0 ELSE sum[i - 1] + s[i]
            IN sum[Len(s)]

\* ClearVariablesPointersAndStacks: a zero word is all there is.
Init ==
  /\ frames = <<>> /\ dstack = BasStack /\ held = 0
  /\ base = NoBase /\ levels = 0 /\ cpu = <<>>
  /\ phase = "none" /\ arguments = 0 /\ buffer = <<>>

Idle == base = NoBase /\ phase = "none" /\ held = 0

\* The start of a structure, a call, a local variable.
Push ==
  /\ Idle /\ Len(frames) < MaxFrames
  /\ \E n \in Pushes : frames' = Append(frames, n) /\ dstack' = dstack + n
  /\ UNCHANGED <<held, expression, proc>>

TopBytes == frames[Len(frames)]

\* The end of one; a GOTO out of it leaves the frame where it is.
Pop ==
  /\ Idle /\ frames # <<>>
  /\ dstack' = dstack - TopBytes
  /\ frames' = SubSeq(frames, 1, Len(frames) - 1)
  /\ UNCHANGED <<held, expression, proc>>

\* NEXT takes the frame off, evaluates target and step with DStack below it,
\* and then reads the frame and may put it back.
NextBegins ==
  /\ Idle /\ frames # <<>> /\ TopBytes = ForBytes
  /\ dstack' = dstack - ForBytes /\ held' = ForBytes
  /\ frames' = SubSeq(frames, 1, Len(frames) - 1)
  /\ UNCHANGED <<expression, proc>>

NextEnds ==
  /\ held # 0 /\ base = NoBase /\ held' = 0
  /\ \/ dstack' = dstack + ForBytes /\ frames' = Append(frames, ForBytes)
     \/ UNCHANGED <<dstack, frames>>
  /\ UNCHANGED <<expression, proc>>

\* CLEAR, RUN and NEW.
Clear ==
  /\ Idle /\ frames' = <<>> /\ dstack' = BasStack
  /\ UNCHANGED <<held, expression, proc>>

\* An error anywhere: NextCommand resets the 65816 stack and not DStack.
Error ==
  /\ ~Idle
  /\ held' = 0 /\ base' = NoBase /\ levels' = 0 /\ cpu' = <<>>
  /\ phase' = "none" /\ arguments' = 0 /\ buffer' = <<>>
  /\ UNCHANGED <<frames, dstack>>

-----------------------------------------------------------------------------
(* Expressions. *)

GapShort == LevelBytes + Word   \* mutant
Gap == 16                       \* Evaluate
SubscriptGap == Word + LevelBytes   \* LET, through EvaluateNext

\* Evaluate, or LET's evaluation of the subscript it assigns to.
Evaluate ==
  /\ base = NoBase /\ phase # "locals" /\ arguments < MaxParameters
  /\ \/ base' = dstack + Gap
     \/ Idle /\ base' = dstack + SubscriptGap
  /\ levels' = 1 /\ cpu' = <<0>>
  /\ UNCHANGED <<stack, proc>>

\* EvaluateNextGivenLevel, from an operator, a bracket or a function.
Nest ==
  /\ base # NoBase /\ levels < MaxLevels
  /\ levels' = levels + 1
  /\ \E n \in Nestings : cpu' = Append(cpu, n)
  /\ UNCHANGED <<stack, base, proc>>

LevelEnds ==
  /\ base # NoBase /\ levels > 1
  /\ levels' = levels - 1 /\ cpu' = SubSeq(cpu, 1, Len(cpu) - 1)
  /\ UNCHANGED <<stack, base, proc>>

\* A parameter's value goes into the columns of its slot.
Column(k, i) == PrmBuffer + k * PrmColumn + Word * i
Slot(i) == [a \in {Column(k, i) : k \in 0..2} |->
             IF a = Column(0, i) THEN <<"low", i>>
             ELSE IF a = Column(1, i) THEN <<"high", i>> ELSE <<"type", i>>]
Over(f, g) == [a \in DOMAIN f \cup DOMAIN g |->
                IF a \in DOMAIN g THEN g[a] ELSE f[a]]
EvaluationEnds ==
  /\ base # NoBase /\ levels = 1
  /\ base' = NoBase /\ levels' = 0 /\ cpu' = <<>>
  /\ IF phase = "values"
       THEN arguments' = arguments + 1 /\ buffer' = Over(buffer, Slot(arguments))
       ELSE UNCHANGED <<arguments, buffer>>
  /\ UNCHANGED <<stack, phase>>

-----------------------------------------------------------------------------
(* PROC with parameters: its frame, the values, then the local variables. *)

ProcBegins ==
  /\ Idle /\ ProcBytes \in Pushes /\ Len(frames) < MaxFrames
  /\ frames' = Append(frames, ProcBytes) /\ dstack' = dstack + ProcBytes
  /\ phase' = "values" /\ arguments' = 0 /\ buffer' = <<>>
  /\ UNCHANGED <<held, expression>>

\* No comma behind a value: -1 behind the last type.
EndMarkEarly(n) == [a \in {Column(2, n - 1)} |-> <<"end", n>>]   \* mutant
EndMark(n) == [a \in {Column(2, n)} |-> <<"end", n>>]
ProcValuesEnd ==
  /\ phase = "values" /\ base = NoBase /\ arguments > 0
  /\ phase' = "locals" /\ buffer' = Over(buffer, EndMark(arguments))
  /\ UNCHANGED <<stack, expression, arguments>>

\* LocalProcessVariable and the assignment for each slot; what the locals push
\* is an action of its own, Push.
ProcLocalsEnd ==
  /\ phase = "locals" /\ phase' = "none" /\ arguments' = 0 /\ buffer' = <<>>
  /\ UNCHANGED <<stack, expression>>

Next ==
  \/ Push \/ Pop \/ NextBegins \/ NextEnds \/ Clear \/ Error
  \/ Evaluate \/ Nest \/ LevelEnds \/ EvaluationEnds
  \/ ProcBegins \/ ProcValuesEnd \/ ProcLocalsEnd

Spec == Init /\ [][Next]_vars

-----------------------------------------------------------------------------
(* Properties. *)

TypeOK ==
  /\ frames \in Seq(Nat) /\ dstack \in Int /\ held \in {0, ForBytes}
  /\ base \in Nat \cup {NoBase} /\ levels \in Nat /\ cpu \in Seq(Nat)
  /\ phase \in {"none", "values", "locals"} /\ arguments \in Nat
  /\ dstack = BasStack + Total(frames) /\ (base = NoBase <=> levels = 0)

FrameArea == BasStack..(dstack + held + 1)
LevelArea == IF base = NoBase THEN {} ELSE base..(base + LevelBytes * levels - 1)
CpuArea == (CpuStack - Total(cpu) + 1)..CpuStack

\* What is on the BASIC stack, the frame included that NEXT has taken off and
\* will read, is out of reach of the expression (expression.asm:24-28).
FramesKept == FrameArea \cap LevelArea = {}

\* procedure.asm:108-111: "the parameter values (from caller) are evaluated and
\* stored in that buffer", and in the second phase "the buffer data is stored in
\* those addresses": every parameter is read as it was written, and the end is
\* found behind the last.
ParametersArrive ==
  phase = "locals" =>
    /\ \A i \in 0..(arguments - 1) :
         \A a \in DOMAIN Slot(i) : buffer[a] = Slot(i)[a]
    /\ buffer[Column(2, arguments)] = <<"end", arguments>>
=============================================================================
