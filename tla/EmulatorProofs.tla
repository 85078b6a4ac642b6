-------------------------- MODULE EmulatorProofs --------------------------
(***************************************************************************)
(* For every program, set of keys and frame length: the types of Emulator, *)
(* that the displayed address follows the processor, and that a run does   *)
(* not inherit the breakpoint of a step over.                              *)
(***************************************************************************)
EXTENDS Emulator, SequenceLemmas

\* Between two statements of the handler the display is right; only the run
\* loop leaves it behind until it returns.
HomeUnlessRunning == phase # "exec" /\ ~edited => settings[0] = pc

IInv == TypeOK /\ HomeUnlessRunning /\ NoStaleStepBreak

-----------------------------------------------------------------------------
LEMMA AddressSpaceType == AddressSpace \in Nat \ {0}
BY SMT DEF AddressSpace

LEMMA AddressType == \A a \in Addrs : a \in 0..(AddressSpace - 1)
BY EmulatorAssumption

\* The processor stays in its program, and counts less than a frame.
LEMMA ExecuteType ==
  ASSUME TypeOK, Execute
  PROVE  /\ pc' \in Addrs /\ calls' \in Seq(Addrs)
         /\ cycles' \in 0..(CyclesPerFrame - 1) /\ breakFlag' \in BOOLEAN
<1>1. pc \in Addrs /\ calls \in Seq(Addrs) /\ Len(calls) \in Nat
  BY DEF TypeOK
<1>2. Code[pc].to \in SUBSET Addrs
  BY <1>1, EmulatorAssumption
<1>3. cycles' \in 0..(CyclesPerFrame - 1)
  BY EmulatorAssumption DEF TypeOK, Execute, Counted, FrameEnds
<1>4. breakFlag' \in BOOLEAN
  BY DEF TypeOK, Execute
<1>5. Instruction
  BY DEF Execute
<1>6. CASE Op(pc) \in {"jsr", "jsl"}
  <2>1. pc + CallSize(pc) \in Addrs
    BY <1>1, <1>6, EmulatorAssumption DEF Op, CallSize
  <2>2. pc' \in Addrs
    BY <1>2, <1>5, <1>6 DEF Instruction
  <2>3. PICK s \in {calls, Tail(calls)} :
          /\ calls' = Append(s, pc + CallSize(pc))
          /\ s = IF Len(calls) < MaxCalls THEN calls ELSE Tail(calls)
    BY <1>5, <1>6 DEF Instruction
  <2>4. s \in Seq(Addrs)
    BY <1>1, <2>3, EmulatorAssumption
  <2>5. calls' \in Seq(Addrs)
    BY <2>1, <2>3, <2>4, AppendType
  <2> QED
    BY <1>3, <1>4, <2>2, <2>5
<1>7. CASE Op(pc) = "rts" /\ calls # << >>
  <2>1. Len(calls) \in 1..Len(calls) /\ Len(calls) - 1 \in 0..Len(calls)
    BY <1>1, <1>7
  <2>2. calls[Len(calls)] \in Addrs
    BY <1>1, <2>1, ElementType
  <2>3. SubSeq(calls, 1, Len(calls) - 1) \in Seq(Addrs)
    BY <1>1, <2>1, SubSeqType
  <2> QED
    BY <1>3, <1>4, <1>5, <1>7, <2>2, <2>3 DEF Instruction
<1>8. CASE Op(pc) \notin {"jsr", "jsl"} /\ ~(Op(pc) = "rts" /\ calls # << >>)
  BY <1>1, <1>2, <1>3, <1>4, <1>5, <1>8 DEF Instruction
<1> QED
  BY <1>6, <1>7, <1>8

\* The key of a frame is one that is down.
LEMMA CurrentKeyType ==
  ASSUME TypeOK
  PROVE  CurrentKey \in Keys \cup {NoKey}
<1> DEFINE codes == {ScanCode(k) : k \in pressed \ Modifiers}
<1>1. \A k \in pressed : k \in Keys /\ k \in 1..127 \ 97..122
  BY EmulatorAssumption DEF TypeOK
<1>2. CASE codes = {}
  BY <1>2 DEF CurrentKey
<1>3. CASE codes # {}
  <2>1. codes \subseteq 1..127
    BY <1>1 DEF ScanCode
  <2>2. Max(codes) \in codes
    BY <1>3, <2>1, MaxType
  <2>3. PICK k \in pressed : Max(codes) = ScanCode(k)
    BY <2>2
  <2>4. KeyOf(ScanCode(k)) = k
    BY <1>1 DEF KeyOf, ScanCode
  <2> QED
    BY <1>1, <1>3, <2>3, <2>4 DEF CurrentKey
<1> QED
  BY <1>2, <1>3

LEMMA HomeType ==
  ASSUME TypeOK, NEW a \in Addrs, Home(a)
  PROVE  /\ settings' \in [0..3 -> 0..(AddressSpace - 1)]
         /\ settings'[0] = a /\ edited' = FALSE
BY AddressType DEF TypeOK, Home

-----------------------------------------------------------------------------
LEMMA InitIInv == Init => IInv
<1> SUFFICES ASSUME Init PROVE IInv
  OBVIOUS
<1>1. settings \in [0..3 -> 0..(AddressSpace - 1)]
  BY AddressSpaceType DEF Init
<1>2. 0 \in Addrs /\ pc \in Addrs /\ stepBreak \in Addrs \cup {NoBreak}
  BY EmulatorAssumption DEF Init
<1>3. cycles \in 0..(CyclesPerFrame - 1)
  BY EmulatorAssumption DEF Init
<1>4. calls \in Seq(Addrs)
  BY EmptyType DEF Init
<1>5. inRunMode \in BOOLEAN /\ isRunning \in BOOLEAN /\ breakFlag \in BOOLEAN
      /\ edited \in BOOLEAN
  BY EmulatorAssumption DEF Init
<1>6. TypeOK
  BY <1>1, <1>2, <1>3, <1>4, <1>5 DEF Init, TypeOK
<1>7. HomeUnlessRunning /\ NoStaleStepBreak
  BY <1>1 DEF Init, HomeUnlessRunning, NoStaleStepBreak
<1> QED
  BY <1>6, <1>7 DEF IInv

\* The user's keys change nothing but the key record.
LEMMA UserStep == IInv /\ User => IInv'
<1> SUFFICES ASSUME IInv, User PROVE IInv'
  OBVIOUS
<1>1. pressed' \subseteq Keys /\ isRunning' \in BOOLEAN
  BY DEF IInv, TypeOK, User, KeyDown, KeyUp, Escape, Recorded
<1>2. UNCHANGED <<phase, lastKey, keyPort, inRunMode, settings, stepBreak, cpu,
                  edited, purpose>>
  BY DEF User, KeyDown, KeyUp, Escape
<1> QED
  BY <1>1, <1>2 DEF IInv, TypeOK, HomeUnlessRunning, NoStaleStepBreak, cpu

LEMMA FrameStep == IInv /\ Frame => IInv'
<1> SUFFICES ASSUME IInv, Frame PROVE IInv'
  OBVIOUS
<1>1. CurrentKey \in Keys \cup {NoKey} /\ PortKey(CurrentKey) \in Keys \cup {NoKey}
  BY CurrentKeyType DEF IInv, PortKey
<1>2. lastKey' \in Keys \cup {NoKey} /\ keyPort' \in Keys \cup {NoKey}
  BY <1>1 DEF Frame, IInv, TypeOK
<1>3. phase' \in {"reset", "exec", "events", "closed"} /\ phase # "exec"
  BY DEF Frame, RunOrLoop, LoopOrClose
<1>4. UNCHANGED <<pressed, isRunning, inRunMode, settings, stepBreak, cpu, edited,
                  purpose>>
  BY DEF Frame
<1> QED
  BY <1>2, <1>3, <1>4 DEF IInv, TypeOK, HomeUnlessRunning, NoStaleStepBreak, cpu

LEMMA ResetStep == IInv /\ KeyReset => IInv'
<1> SUFFICES ASSUME IInv, KeyReset PROVE IInv'
  OBVIOUS
<1>1. phase' \in {"break", "hex"} /\ phase = "reset"
  BY DEF KeyReset
<1>2. UNCHANGED <<pressed, lastKey, keyPort, isRunning, inRunMode, stepBreak, purpose>>
  BY DEF KeyReset
<1>3. CASE RESET \in pressed
  <2>1. pc' = 0 /\ cycles' = 0 /\ UNCHANGED <<breakFlag, calls>> /\ Home(0)
    BY <1>3 DEF KeyReset, ResetProcessor, Home
  <2>2. 0 \in Addrs /\ 0 \in 0..(CyclesPerFrame - 1)
    BY EmulatorAssumption
  <2> QED
    BY <1>1, <1>2, <2>1, <2>2, HomeType
    DEF IInv, TypeOK, HomeUnlessRunning, NoStaleStepBreak
<1>4. CASE RESET \notin pressed
  BY <1>1, <1>2, <1>4
  DEF KeyReset, cpu, IInv, TypeOK, HomeUnlessRunning, NoStaleStepBreak
<1> QED
  BY <1>3, <1>4

LEMMA HexStep == IInv /\ KeyHex => IInv'
<1> SUFFICES ASSUME IInv, KeyHex PROVE IInv'
  OBVIOUS
<1>1. phase' = "home" /\ phase = "hex"
  BY DEF KeyHex
<1>2. UNCHANGED <<pressed, lastKey, keyPort, isRunning, inRunMode, stepBreak, cpu,
                  purpose>>
  BY DEF KeyHex
<1>3. CASE IsHexDigit(lastKey)
  <2> DEFINE w == WhichSetting
             d == Digit(lastKey)
  <2>1. w \in 0..3 /\ (w = 0 \/ w # 0)
    BY DEF WhichSetting
  <2>2. d \in Nat
    BY <1>3 DEF IsHexDigit, Digit
  <2>3. settings[w] \in Nat
    BY <2>1, AddressSpaceType DEF IInv, TypeOK
  <2>4. (settings[w] * 16 + d) % AddressSpace \in 0..(AddressSpace - 1)
    <3> HIDE DEF w, d
    <3>1. settings[w] * 16 + d \in Nat
      BY <2>2, <2>3
    <3> QED
      BY <3>1, AddressSpaceType
  <2>5. settings' = [settings EXCEPT ![w] = (settings[w] * 16 + d) % AddressSpace]
        /\ edited' = (edited \/ w = 0)
    BY <1>3 DEF KeyHex
  <2> HIDE DEF w, d
  <2>6. settings' \in [0..3 -> 0..(AddressSpace - 1)] /\ edited' \in BOOLEAN
    BY <2>1, <2>4, <2>5 DEF IInv, TypeOK
  <2>7. CASE w = 0
    <3>1. edited'
      BY <2>5, <2>7
    <3> QED
      BY <1>1, <1>2, <2>6, <3>1
      DEF IInv, TypeOK, HomeUnlessRunning, NoStaleStepBreak, cpu
  <2>8. CASE w # 0
    <3>1. settings'[0] = settings[0]
      BY <2>5, <2>8 DEF IInv, TypeOK
    <3>2. ~edited' => ~edited
      BY <2>5
    <3> QED
      BY <1>1, <1>2, <2>6, <3>1, <3>2
      DEF IInv, TypeOK, HomeUnlessRunning, NoStaleStepBreak, cpu
  <2> QED
    BY <2>7, <2>8
<1>4. CASE ~IsHexDigit(lastKey)
  BY <1>1, <1>2, <1>4
  DEF KeyHex, IInv, TypeOK, HomeUnlessRunning, NoStaleStepBreak, cpu
<1> QED
  BY <1>3, <1>4

LEMMA HomeStep == IInv /\ KeyHome => IInv'
<1> SUFFICES ASSUME IInv, KeyHome PROVE IInv'
  OBVIOUS
<1>1. pc \in Addrs
  BY DEF IInv, TypeOK
<1>2. CASE HOME \in pressed
  BY <1>1, <1>2, HomeType
  DEF KeyHome, IInv, TypeOK, HomeUnlessRunning, NoStaleStepBreak, cpu
<1>3. CASE HOME \notin pressed
  BY <1>3 DEF KeyHome, IInv, TypeOK, HomeUnlessRunning, NoStaleStepBreak, cpu
<1> QED
  BY <1>2, <1>3

LEMMA RunStep == IInv /\ KeyRun => IInv'
<1> SUFFICES ASSUME IInv, KeyRun PROVE IInv'
  OBVIOUS
<1>1. stepBreak' \in Addrs \cup {NoBreak} /\ inRunMode' \in BOOLEAN
      /\ purpose' \in {"auto", "run", "over"}
  BY DEF KeyRun, IInv, TypeOK
<1>2. NoStaleStepBreak'
  BY DEF KeyRun, IInv, NoStaleStepBreak
<1>3. phase' = "step" /\ phase = "run"
      /\ UNCHANGED <<pressed, lastKey, keyPort, isRunning, settings, cpu, edited>>
  BY DEF KeyRun
<1> QED
  BY <1>1, <1>2, <1>3 DEF IInv, TypeOK, HomeUnlessRunning, cpu

\* Executing one instruction and taking the display along.
LEMMA SingleStep ==
  ASSUME IInv, Execute, Home(pc')
  PROVE  /\ pc' \in Addrs /\ calls' \in Seq(Addrs)
         /\ cycles' \in 0..(CyclesPerFrame - 1) /\ breakFlag' \in BOOLEAN
         /\ settings' \in [0..3 -> 0..(AddressSpace - 1)]
         /\ settings'[0] = pc' /\ edited' = FALSE
<1>1. TypeOK
  BY DEF IInv
<1>2. /\ pc' \in Addrs /\ calls' \in Seq(Addrs)
      /\ cycles' \in 0..(CyclesPerFrame - 1) /\ breakFlag' \in BOOLEAN
  BY <1>1, ExecuteType
<1>3. PICK a \in Addrs : a = pc'
  BY <1>2
<1>4. Home(a)
  BY <1>3 DEF Home
<1> QED
  BY <1>1, <1>2, <1>3, <1>4, HomeType

LEMMA StepStep == IInv /\ KeyStep => IInv'
<1> SUFFICES ASSUME IInv, KeyStep PROVE IInv'
  OBVIOUS
<1>1. CASE STEP \in pressed
  <2>1. Execute /\ Home(pc')
    BY <1>1 DEF KeyStep
  <2> QED
    BY <2>1, SingleStep DEF KeyStep, IInv, TypeOK, HomeUnlessRunning, NoStaleStepBreak
<1>2. CASE STEP \notin pressed
  BY <1>2 DEF KeyStep, IInv, TypeOK, HomeUnlessRunning, NoStaleStepBreak, cpu
<1> QED
  BY <1>1, <1>2

LEMMA StepOverStep == IInv /\ KeyStepOver => IInv'
<1> SUFFICES ASSUME IInv, KeyStepOver PROVE IInv'
  OBVIOUS
<1>1. CASE STEPOVER \notin pressed
  BY <1>1 DEF KeyStepOver, IInv, TypeOK, HomeUnlessRunning, NoStaleStepBreak, cpu
<1>2. CASE STEPOVER \in pressed
  <2>1. StepOverBreakpoint \in Addrs
    BY EmulatorAssumption DEF StepOverBreakpoint, Op, IInv, TypeOK
  <2>2. stepBreak' \in Addrs /\ purpose' = "over"
    BY <1>2, <2>1 DEF KeyStepOver
  <2>3. /\ phase' = "setbreak"
        /\ UNCHANGED <<pressed, lastKey, keyPort, isRunning>>
    BY DEF KeyStepOver
  <2>4. CASE stepBreak' = 0
    <3>1. Execute /\ Home(pc') /\ UNCHANGED inRunMode
      BY <1>2, <2>4 DEF KeyStepOver
    <3> QED
      BY <2>2, <2>3, <3>1, SingleStep
      DEF IInv, TypeOK, HomeUnlessRunning, NoStaleStepBreak
  <2>5. CASE stepBreak' # 0
    <3>1. inRunMode' = TRUE /\ UNCHANGED <<cpu, settings, edited>>
      BY <1>2, <2>5 DEF KeyStepOver
    <3>2. phase = "over"
      BY DEF KeyStepOver
    <3> QED
      BY <2>2, <2>3, <3>1, <3>2
      DEF IInv, TypeOK, HomeUnlessRunning, NoStaleStepBreak, cpu
  <2> QED
    BY <2>4, <2>5
<1> QED
  BY <1>1, <1>2

LEMMA SetBreakStep == IInv /\ KeySetBreak => IInv'
<1> SUFFICES ASSUME IInv, KeySetBreak PROVE IInv'
  OBVIOUS
<1>1. settings' \in [0..3 -> 0..(AddressSpace - 1)] /\ settings'[0] = settings[0]
  BY DEF KeySetBreak, IInv, TypeOK
<1>2. phase' \in {"exec", "events", "closed"} /\ phase = "setbreak"
  BY DEF KeySetBreak, RunOrLoop, LoopOrClose
<1> QED
  BY <1>1, <1>2 DEF KeySetBreak, IInv, TypeOK, HomeUnlessRunning, NoStaleStepBreak, cpu

LEMMA BreakStep == IInv /\ KeyBreak => IInv'
<1> SUFFICES ASSUME IInv, KeyBreak PROVE IInv'
  OBVIOUS
<1>1. phase' \in {"exec", "events", "closed"} /\ phase = "break"
  BY DEF KeyBreak, RunOrLoop, LoopOrClose
<1>2. pc \in Addrs
  BY DEF IInv, TypeOK
<1>3. CASE BREAK \in pressed
  <2>1. Home(pc) /\ inRunMode' = FALSE
    BY <1>3 DEF KeyBreak
  <2> QED
    BY <1>1, <1>2, <2>1, HomeType
    DEF KeyBreak, IInv, TypeOK, HomeUnlessRunning, NoStaleStepBreak, cpu
<1>4. CASE BREAK \notin pressed
  BY <1>1, <1>4 DEF KeyBreak, IInv, TypeOK, HomeUnlessRunning, NoStaleStepBreak, cpu
<1> QED
  BY <1>3, <1>4

LEMMA RunningStep == IInv /\ Running => IInv'
<1> SUFFICES ASSUME IInv, Running PROVE IInv'
  OBVIOUS
<1>1. Execute /\ isRunning' \in BOOLEAN
  BY DEF Running, IInv, TypeOK
<1>2. UNCHANGED <<pressed, lastKey, keyPort, stepBreak, purpose>>
  BY DEF Running
<1>3. CASE Home(pc') /\ phase' \in {"events", "closed"} /\ (UNCHANGED inRunMode \/ inRunMode' = FALSE)
  <2>1. /\ pc' \in Addrs /\ calls' \in Seq(Addrs)
        /\ cycles' \in 0..(CyclesPerFrame - 1) /\ breakFlag' \in BOOLEAN
        /\ settings' \in [0..3 -> 0..(AddressSpace - 1)]
        /\ settings'[0] = pc' /\ edited' = FALSE
    BY <1>1, <1>3, SingleStep
  <2>2. inRunMode' \in BOOLEAN
    BY <1>3 DEF IInv, TypeOK
  <2>3. NoStaleStepBreak'
    BY <1>2, <1>3 DEF IInv, NoStaleStepBreak
  <2>4. TypeOK'
    BY <1>1, <1>2, <1>3, <2>1, <2>2 DEF IInv, TypeOK
  <2> QED
    BY <2>1, <2>3, <2>4 DEF IInv, HomeUnlessRunning
<1>4. CASE UNCHANGED <<phase, inRunMode, settings, edited>>
  <2>1. phase = "exec"
    BY DEF Running
  <2> QED
    BY <1>1, <1>2, <1>4, <2>1, ExecuteType
    DEF IInv, TypeOK, HomeUnlessRunning, NoStaleStepBreak
<1> QED
  BY <1>3, <1>4 DEF Running

LEMMA NextIInv == IInv /\ [Next]_vars => IInv'
<1> SUFFICES ASSUME IInv, [Next]_vars PROVE IInv'
  OBVIOUS
<1>1. CASE UNCHANGED vars
  BY <1>1 DEF vars, IInv, TypeOK, HomeUnlessRunning, NoStaleStepBreak
<1>2. CASE Next
  BY <1>2, UserStep, FrameStep, ResetStep, HexStep, HomeStep, RunStep, StepStep,
     StepOverStep, SetBreakStep, BreakStep, RunningStep DEF Next, Handler
<1> QED
  BY <1>1, <1>2

LEMMA Invariance == Spec => []IInv
BY InitIInv, NextIInv, PTL DEF Spec

-----------------------------------------------------------------------------
(* The theorems. *)

\* Every variable keeps its type, Cycles its bound, and the processor stays in
\* its program (GFXXRender, CPUExecute).
THEOREM EmulatorTypes == Spec => []TypeOK
<1>1. IInv => TypeOK
  BY DEF IInv
<1> QED
  BY <1>1, Invariance, PTL

\* Whichever keys are held together, the debugger shows the instruction the
\* processor is at (addressSettings[0] in GFXXRender).
THEOREM DisplayFollowsProcessor == Spec => []DisplayFollows
<1>1. IInv => DisplayFollows
  BY DEF IInv, HomeUnlessRunning, DisplayFollows
<1> QED
  BY <1>1, Invariance, PTL

\* RUN clears the breakpoint of a step over that never came back
\* (stepBreakPoint in GFXXRender).
THEOREM RunHasNoStepBreak == Spec => []NoStaleStepBreak
<1>1. IInv => NoStaleStepBreak
  BY DEF IInv
<1> QED
  BY <1>1, Invariance, PTL
=============================================================================
