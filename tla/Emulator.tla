----------------------------- MODULE Emulator -----------------------------
(***************************************************************************)
(* The host program: main loop and key record (framework/gfx.cpp), the     *)
(* debugger's frame handler (framework/debugger.cpp) and the loop that     *)
(* runs the processor (sys_processor.cpp).  One host thread does it all:   *)
(* read the window's events, handle the keys, run the processor for a      *)
(* frame or to a breakpoint.  "phase" is the statement that thread is at.  *)
(*                                                                         *)
(* The processor is external: a control flow graph over a few addresses,   *)
(* with the opcodes the host looks at.                                     *)
(***************************************************************************)
EXTENDS Integers, Sequences, FiniteSetsExt

CONSTANTS
  Keys,            \* the GFX key codes that are used
  Addrs,           \* the addresses of the program
  Code,            \* [Addrs -> [op, to]]: the program
  CyclesPerFrame,  \* CYCLES_PER_FRAME
  AutoStart,       \* started with two arguments: runs at once
  MaxCalls         \* return addresses the processor's stack holds

\* Key codes of gfx.h, with the assignments of GFXXRender.
LSHIFT == 6
CONTROL == 7
RESET == 8
HOME == 9
RUN == 12
BREAK == 13
STEP == 14
STEPOVER == 15
SETBREAK == 16
RSHIFT == 21
SHIFT == 22
KeyC == 67
TypingKeys == 18..20 \cup 32..126    \* return, backspace, tab, printable
NoKey == -1
NoBreak == -1

Ops == {"nop", "cop", "jsr", "jsl", "rts", "other"}
AddressSpace == 16777216

ASSUME EmulatorAssumption ==
  /\ Keys \subseteq 1..127 \ 97..122       \* letters have the upper case codes
  /\ Addrs \subseteq 0..(AddressSpace - 1) /\ 0 \in Addrs
  /\ Code \in [Addrs -> [op : Ops, to : SUBSET Addrs]]
  /\ \A a \in Addrs : /\ Code[a].to # {}
                      /\ Code[a].op = "jsr" => a + 3 \in Addrs
                      /\ Code[a].op = "jsl" => a + 4 \in Addrs
  /\ CyclesPerFrame \in Nat \ {0}
  /\ AutoStart \in BOOLEAN /\ MaxCalls \in Nat \ {0}

VARIABLES
  phase,       \* where the host is in its loop
  pressed,     \* keyState: the keys that are down
  lastKey,     \* the key seen in the last frame, NoKey if none
  inRunMode,   \* the program is running freely
  settings,    \* addressSettings: code, data, other, break
  stepBreak,   \* stepBreakPoint, NoBreak for -1
  isRunning,   \* the host has not been told to exit
  cycles,      \* Cycles: instructions in this frame
  keyPort,     \* $F8010: the key the program sees, NoKey for 0
  breakFlag,   \* $F8000: Ctrl+C was down at the end of a frame
  pc, calls,   \* the processor: program counter, return addresses
  edited,      \* auxiliary: the code address was typed in, not taken from pc
  purpose      \* auxiliary: the key that started the run

cpu == <<cycles, breakFlag, pc, calls>>   \* all the processor changes
vars == <<phase, pressed, lastKey, inRunMode, settings, stepBreak, isRunning,
          cycles, keyPort, breakFlag, pc, calls, edited, purpose>>

Op(a) == Code[a].op

----------------------------------------------------------------------------
(* The processor *)

CallSize(a) == IF Op(a) = "jsl" THEN 4 ELSE 3

\* CPU65816ExecuteOneInstruction.  The stack wraps round: a call too many
\* loses the oldest return address, a return too many goes somewhere.
Instruction ==
  \/ /\ Op(pc) \in {"jsr", "jsl"}
     /\ pc' \in Code[pc].to
     /\ calls' = Append(IF Len(calls) < MaxCalls THEN calls ELSE Tail(calls),
                        pc + CallSize(pc))
  \/ /\ Op(pc) = "rts" /\ calls # << >>
     /\ pc' = calls[Len(calls)]
     /\ calls' = SubSeq(calls, 1, Len(calls) - 1)
  \/ /\ Op(pc) = "rts" /\ calls = << >>
     /\ pc' \in Code[pc].to
     /\ UNCHANGED calls
  \/ /\ Op(pc) \notin {"jsr", "jsl", "rts"}
     /\ pc' \in Code[pc].to
     /\ UNCHANGED calls

FrameEnds == cycles + 1 >= CyclesPerFrame

CountedNot == cycles                                     \* mutant
Counted == IF FrameEnds THEN cycles + 1 - CyclesPerFrame ELSE cycles + 1

\* CPUExecuteInstruction
Execute ==
  /\ Instruction
  /\ cycles' = Counted
  /\ breakFlag' = IF FrameEnds THEN {CONTROL, KeyC} \subseteq pressed
                  ELSE breakFlag

\* CPUReset, CPU65816Reset
ResetProcessor == pc' = 0 /\ cycles' = 0 /\ UNCHANGED <<breakFlag, calls>>

\* CPUGetStepOverBreakpoint
StepOverBreakpoint ==
  CASE Op(pc) = "jsr" -> pc + 3
    [] Op(pc) = "jsl" -> pc + 4
    [] OTHER -> 0

----------------------------------------------------------------------------
(* GFXStart: the events between two frames. *)

\* main, and what GFXXRender does the first time it is called
Init ==
  /\ phase = "events" /\ pressed = {} /\ lastKey = NoKey
  /\ inRunMode = AutoStart /\ stepBreak = 0
  /\ settings = [i \in 0..3 |-> 0]
  /\ isRunning = TRUE /\ cycles = 0 /\ breakFlag = FALSE /\ keyPort = NoKey
  /\ pc = 0 /\ calls = << >>
  /\ edited = FALSE /\ purpose = "auto"

\* _GFXUpdateKeyRecord: SHIFT stands for either shift key.
Recorded(keys) ==
  IF {LSHIFT, RSHIFT} \cap keys # {} THEN keys \cup ({SHIFT} \cap Keys)
  ELSE keys \ {SHIFT}

KeyDown(k) ==
  /\ phase = "events" /\ k \notin pressed
  /\ pressed' = Recorded(pressed \cup {k})
  /\ UNCHANGED <<phase, lastKey, keyPort, isRunning, inRunMode, settings,
                 stepBreak, cpu, edited, purpose>>

KeyUp(k) ==
  /\ phase = "events" /\ k \in pressed
  /\ pressed' = Recorded(pressed \ {k})
  /\ UNCHANGED <<phase, lastKey, keyPort, isRunning, inRunMode, settings,
                 stepBreak, cpu, edited, purpose>>

Escape ==
  /\ phase = "events" /\ isRunning' = FALSE
  /\ UNCHANGED <<phase, pressed, lastKey, keyPort, inRunMode, settings,
                 stepBreak, cpu, edited, purpose>>

----------------------------------------------------------------------------
(* GFXXRender: the keys.  One action per "if" of the handler. *)

Modifiers == {CONTROL, SHIFT, LSHIFT, RSHIFT}

\* GFXIsKeyPressed takes a letter in either case, so the scan, which keeps the
\* highest code, comes past a letter that is down at its lower case code last.
ScanCode(k) == IF k \in 65..90 THEN k + 32 ELSE k
KeyOf(code) == IF code \in 97..122 THEN code - 32 ELSE code
CurrentKey ==
  LET codes == {ScanCode(k) : k \in pressed \ Modifiers}
  IN  IF codes = {} THEN NoKey ELSE KeyOf(Max(codes))

\* Back to the event loop, or out of it.
LoopOrClose == IF isRunning THEN "events" ELSE "closed"

\* After the keys: "if (inRunMode != 0)".
RunOrLoop(running) == IF running THEN "exec" ELSE LoopOrClose

\* CPUKeyHandler: only "if (inRunMode)"
PortKey(k) == IF k \in TypingKeys THEN k ELSE NoKey

Frame ==
  /\ phase = "events"
  /\ lastKey' = CurrentKey
  /\ keyPort' = IF CurrentKey # lastKey /\ inRunMode THEN PortKey(CurrentKey)
                ELSE keyPort
  /\ phase' = IF CurrentKey # lastKey /\ CurrentKey # NoKey THEN "reset"
              ELSE RunOrLoop(inRunMode)
  /\ UNCHANGED <<pressed, isRunning, inRunMode, settings, stepBreak, cpu,
                 edited, purpose>>

Home(address) == settings' = [settings EXCEPT ![0] = address] /\ edited' = FALSE

KeyResetStays ==                                         \* mutant
  /\ phase = "reset"
  /\ phase' = IF inRunMode THEN "break" ELSE "hex"
  /\ IF RESET \in pressed THEN ResetProcessor ELSE UNCHANGED cpu
  /\ UNCHANGED <<pressed, lastKey, keyPort, isRunning, inRunMode, settings,
                 stepBreak, edited, purpose>>

KeyReset ==
  /\ phase = "reset"
  /\ phase' = IF inRunMode THEN "break" ELSE "hex"
  /\ IF RESET \in pressed THEN ResetProcessor /\ Home(pc')
                          ELSE UNCHANGED <<cpu, settings, edited>>
  /\ UNCHANGED <<pressed, lastKey, keyPort, isRunning, inRunMode,
                 stepBreak, purpose>>

IsHexDigit(k) == k \in 48..57 \/ k \in 65..70
Digit(k) == IF k \in 48..57 THEN k - 48 ELSE k - 55
WhichSetting ==
  IF CONTROL \in pressed THEN 2 ELSE IF SHIFT \in pressed THEN 1 ELSE 0

\* DEBUG_SHIFT
KeyHex ==
  /\ phase = "hex" /\ phase' = "home"
  /\ IF IsHexDigit(lastKey)
       THEN /\ settings' = [settings EXCEPT ![WhichSetting] =
                              (@ * 16 + Digit(lastKey)) % AddressSpace]
            /\ edited' = (edited \/ WhichSetting = 0)
       ELSE UNCHANGED <<settings, edited>>
  /\ UNCHANGED <<pressed, lastKey, keyPort, isRunning, inRunMode, stepBreak,
                 cpu, purpose>>

KeyHome ==
  /\ phase = "home" /\ phase' = "run"
  /\ IF HOME \in pressed THEN Home(pc) ELSE UNCHANGED <<settings, edited>>
  /\ UNCHANGED <<pressed, lastKey, keyPort, isRunning, inRunMode, stepBreak,
                 cpu, purpose>>

KeyRunKeepsStep ==                                       \* mutant
  /\ phase = "run" /\ phase' = "step"
  /\ IF RUN \in pressed
       THEN inRunMode' = TRUE /\ purpose' = "run"
       ELSE UNCHANGED <<inRunMode, purpose>>
  /\ UNCHANGED <<pressed, lastKey, keyPort, isRunning, settings, stepBreak,
                 cpu, edited>>

KeyRun ==
  /\ phase = "run" /\ phase' = "step"
  /\ IF RUN \in pressed
       THEN inRunMode' = TRUE /\ stepBreak' = NoBreak /\ purpose' = "run"
       ELSE UNCHANGED <<inRunMode,
                 stepBreak, purpose>>
  /\ UNCHANGED <<pressed, lastKey, keyPort, isRunning, settings, cpu, edited>>

KeyStep ==
  /\ phase = "step" /\ phase' = "over"
  /\ IF STEP \in pressed THEN Execute /\ Home(pc')
                         ELSE UNCHANGED <<cpu, settings, edited>>
  /\ UNCHANGED <<pressed, lastKey, keyPort, isRunning, inRunMode,
                 stepBreak, purpose>>

KeyStepOver ==
  /\ phase = "over" /\ phase' = "setbreak"
  /\ \/ /\ STEPOVER \notin pressed
        /\ UNCHANGED <<cpu, settings, edited, stepBreak, inRunMode, purpose>>
     \/ /\ STEPOVER \in pressed
        /\ stepBreak' = StepOverBreakpoint
        /\ purpose' = "over"
        /\ IF stepBreak' = 0
             THEN Execute /\ Home(pc') /\ UNCHANGED inRunMode
             ELSE inRunMode' = TRUE /\ UNCHANGED <<cpu, settings, edited>>
  /\ UNCHANGED <<pressed, lastKey, keyPort, isRunning>>

KeySetBreak ==
  /\ phase = "setbreak"
  /\ phase' = RunOrLoop(inRunMode)
  /\ settings' = IF SETBREAK \in pressed
                   THEN [settings EXCEPT ![3] = settings[0]] ELSE settings
  /\ UNCHANGED <<pressed, lastKey, keyPort, isRunning, inRunMode, stepBreak, cpu,
                 edited, purpose>>

KeyBreak ==
  /\ phase = "break"
  /\ IF BREAK \in pressed THEN inRunMode' = FALSE /\ Home(pc)
                          ELSE UNCHANGED <<inRunMode, settings, edited>>
  /\ phase' = RunOrLoop(inRunMode')
  /\ UNCHANGED <<pressed, lastKey, keyPort, isRunning, stepBreak, cpu, purpose>>

----------------------------------------------------------------------------
(* CPUExecute: one instruction of the loop per step. *)

\* "stop on NOP", and the two breakpoints; a COP only closes the window.
StopsAt(a) == Op(a) = "nop" \/ a = settings[3] \/ a = stepBreak

Running ==
  /\ phase = "exec"
  /\ Execute
  /\ isRunning' = (isRunning /\ (FrameEnds \/ Op(pc') # "cop"))
  /\ \/ /\ FrameEnds                               \* "If end of frame, return rate"
        /\ UNCHANGED inRunMode /\ Home(pc')
        /\ phase' = IF isRunning' THEN "events" ELSE "closed"
     \/ /\ ~FrameEnds /\ StopsAt(pc')
        /\ inRunMode' = FALSE /\ Home(pc')
        /\ phase' = IF isRunning' THEN "events" ELSE "closed"
     \/ /\ ~FrameEnds /\ ~StopsAt(pc')
        /\ UNCHANGED <<phase, inRunMode, settings, edited>>
  /\ UNCHANGED <<pressed, lastKey, keyPort, stepBreak, purpose>>

----------------------------------------------------------------------------
User == Escape \/ \E k \in Keys \ {SHIFT} : KeyDown(k) \/ KeyUp(k)

Handler ==
  \/ Frame \/ KeyReset \/ KeyHex \/ KeyHome \/ KeyRun \/ KeyStep
  \/ KeyStepOver \/ KeySetBreak \/ KeyBreak \/ Running

Next == User \/ Handler

Spec == Init /\ [][Next]_vars

\* The host thread goes on by itself; SDL_PollEvent gives up when no event is
\* left, so events do not keep it from the next frame.
FairSpec == Spec /\ WF_vars(Handler)

----------------------------------------------------------------------------
(* Properties *)

\* The variables have the types the code gives them; a frame never has more
\* instructions than its share.
TypeOK ==
  /\ phase \in {"events", "reset", "hex", "home", "run", "step", "over",
                "setbreak", "break", "exec", "closed"}
  /\ pressed \subseteq Keys /\ lastKey \in Keys \cup {NoKey}
  /\ inRunMode \in BOOLEAN /\ isRunning \in BOOLEAN
  /\ settings \in [0..3 -> 0..(AddressSpace - 1)]
  /\ stepBreak \in Addrs \cup {NoBreak}
  /\ cycles \in 0..(CyclesPerFrame - 1)
  /\ keyPort \in Keys \cup {NoKey} /\ breakFlag \in BOOLEAN
  /\ pc \in Addrs /\ calls \in Seq(Addrs)
  /\ edited \in BOOLEAN /\ purpose \in {"auto", "run", "over"}

\* Every path of the handler that lets the processor move (single step, step
\* over, run to a break, run to the end of a frame, reset) takes the displayed
\* code address along, unless the user typed one.
DisplayFollows ==
  phase \in {"events", "closed"} /\ ~edited => settings[0] = pc

\* A run started with the RUN key is not stopped by the breakpoint of an
\* earlier step over that was broken off (stepBreakPoint outlives its run).
NoStaleStepBreak == inRunMode /\ purpose = "run" => stepBreak = NoBreak

\* Each call of the frame handler comes back to the window's events: the run
\* loop has no end of its own, and relies on Cycles to reach its limit.
FrameReturns == phase # "events" ~> phase \in {"events", "closed"}
=============================================================================
