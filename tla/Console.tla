------------------------------ MODULE Console ------------------------------
(***************************************************************************)
(* The console (utility/hwinterface.asm): characters on a memory mapped    *)
(* screen, scrolled two bytes at a time, and the input line, which is read *)
(* off the screen.  The program calls it; the keyboard port changes at any *)
(* time, between any two steps.                                            *)
(*                                                                         *)
(* "pc" is the loop the processor is in: "run" is the BASIC program,       *)
(* "getkey" and "wait" are the two loops of HWInputLine, "move" is         *)
(* HWMoveCursor, "scroll" and "blank" are in HWPrintChar.                  *)
(***************************************************************************)
EXTENDS Integers

CONSTANTS
  Width, Height,   \* sWidth, sHeight
  Tab,             \* distance of the tab stops
  Chars, Space,    \* what a screen cell shows; the blank one
  Keys,            \* keys of the user, host, modifiers apart,
  Code,            \* [Keys -> Nat]: the host's order of keys,
  Shows,           \* [Keys -> SUBSET characters]: what the port may show for one
  None,            \* no key; the port shows no character
  MaxPresses,      \* bound: key presses
  MaxOutputs       \* bound: output calls of the program

Size == Width * Height
Controls == {"backspace", "tab", "up", "down", "left", "right", "clear",
             "return", "other"}

ASSUME ConsoleAssumption ==
  /\ Width \in Nat \ {0} /\ Height \in Nat \ {0} /\ Width % 2 = 0
  /\ Tab \in Nat \ {0} /\ Width % Tab = 0
  /\ Space \in Chars /\ Chars \cap Controls = {}
  /\ None \notin Keys \cup Chars \cup Controls
  /\ Code \in [Keys -> Nat] /\ \A j, k \in Keys : Code[j] = Code[k] => j = k
  /\ Shows \in [Keys -> SUBSET (Chars \cup Controls \cup {None})]
  /\ MaxPresses \in Nat /\ MaxOutputs \in Nat

VARIABLES
  screen,      \* memory from HWScreen on: the screen and the row behind it
  cursor,      \* HWCursor
  line,        \* InputBuffer
  lastKey,     \* LastKey
  pc, x,       \* the loop, and its index register
  stop,        \* HWMoveCursor's mask + 1: it stops at multiples of this
  caller,      \* where the call returns to
  port,        \* HWKeyPressed
  held,        \* keyState: 0, or the number of the press that holds the key
  selected,    \* lastKey of the host: the key of the last frame
  press,       \* auxiliary: number of the last key press
  alone,       \* auxiliary: no key ever went down while another was held
  portPress,   \* auxiliary: number of the press the port shows, or showed last
  readPress,   \* auxiliary: number of the last press read
  fresh,       \* auxiliary: the port went over to a key after that
  outputs      \* output calls so far

display == <<screen, cursor>>
loop == <<pc, x, stop, caller>>
user == <<held, press, alone>>
host == <<port, selected, portPress>>
reading == <<line, lastKey, readPress, fresh>>
vars == <<display, loop, user, host, reading, outputs>>

Memory == 0..(Size + Width - 1)
Cleared == [i \in Memory |-> IF i < Size THEN Space ELSE screen[i]]

\* SwitchBasicInstance clears the screen; what is behind it is not known.
Init ==
  /\ \E c \in Chars :
       screen = [i \in Memory |-> IF i < Size THEN Space ELSE c]
  /\ cursor = 0
  /\ line = [c \in 0..(Width - 1) |-> Space] /\ lastKey = None
  /\ pc = "run" /\ x = 0 /\ stop = 1 /\ caller = "run"
  /\ port = None /\ selected = None /\ held = [k \in Keys |-> 0]
  /\ press = 0 /\ portPress = 0 /\ readPress = 0 /\ outputs = 0
  /\ alone = TRUE /\ fresh = FALSE

----------------------------------------------------------------------------
(* The keyboard *)

Held == {k \in Keys : held[k] # 0}

Press(k) ==
  /\ k \notin Held /\ press < MaxPresses
  /\ press' = press + 1 /\ held' = [held EXCEPT ![k] = press + 1]
  /\ alone' = (alone /\ Held = {})
  /\ UNCHANGED <<display, loop, host, reading, outputs>>

Release(k) ==
  /\ k \in Held /\ held' = [held EXCEPT ![k] = 0]
  /\ UNCHANGED <<display, loop, press, alone, host, reading, outputs>>

\* The scan of the host keeps the key with the highest code.
Topmost(k) == k \in Held /\ \A j \in Held : Code[j] <= Code[k]

\* GFXXRender and CPUKeyHandler, once in a frame: a change of the key is shown,
\* as the character that Shift and Ctrl make of it then.
FrameShows(k) ==
  /\ Topmost(k) /\ selected # k
  /\ selected' = k /\ port' \in Shows[k]
  /\ portPress' = held[k] /\ fresh' = TRUE
  /\ UNCHANGED <<display, loop, user, line, lastKey, readPress, outputs>>

FrameShowsNone ==
  /\ Held = {} /\ selected # None
  /\ selected' = None /\ port' = None
  /\ UNCHANGED <<display, loop, user, portPress, reading, outputs>>

Frame == FrameShowsNone \/ \E k \in Keys : FrameShows(k)

----------------------------------------------------------------------------
(* Output *)

\* The cursor is moved: back to the caller at a stop, else once more.
Moved(at, back, step) == IF at % step = 0 THEN back ELSE "move"

\* HWPrintChar up to the scroll; None stands for -1, which only moves.
PrintChar(c, back, step) ==
  /\ screen' = IF c = None THEN screen ELSE [screen EXCEPT ![cursor] = c]
  /\ caller' = back /\ stop' = step
  /\ \/ /\ cursor + 1 = Size
        /\ cursor' = cursor + 1 - Width /\ pc' = "scroll" /\ x' = 0
     \/ /\ cursor + 1 # Size
        /\ cursor' = cursor + 1 /\ pc' = Moved(cursor + 1, back, step)
        /\ UNCHANGED x

ScrollByte ==                                            \* mutant
  /\ pc = "scroll"
  /\ screen' = [screen EXCEPT ![x] = screen[x + Width]]
  /\ IF x + 2 = Size THEN pc' = "blank" /\ x' = Size - Width
                     ELSE pc' = pc /\ x' = x + 2
  /\ UNCHANGED <<cursor, stop, caller, user, host, reading, outputs>>

\* _HWScrollUp.  For the last row it copies what is behind the screen.
Scroll ==
  /\ pc = "scroll"
  /\ screen' = [screen EXCEPT ![x] = screen[x + Width],
                              ![x + 1] = screen[x + 1 + Width]]
  /\ IF x + 2 = Size THEN pc' = "blank" /\ x' = Size - Width
                     ELSE pc' = pc /\ x' = x + 2
  /\ UNCHANGED <<cursor, stop, caller, user, host, reading, outputs>>

\* _HWBlank, and the return of HWPrintChar
Blank ==
  /\ pc = "blank"
  /\ screen' = [screen EXCEPT ![x] = Space, ![x + 1] = Space]
  /\ x' = x + 2
  /\ pc' = IF x' = Size THEN Moved(cursor, caller, stop) ELSE pc
  /\ UNCHANGED <<cursor, stop, caller, user, host, reading, outputs>>

\* One round of HWMoveCursor
MoveCursor ==
  /\ pc = "move" /\ PrintChar(None, caller, stop)
  /\ UNCHANGED <<user, host, reading, outputs>>

\* HWNewLine and HWTab: move once, then on to a stop
MoveTo(step, back) ==
  /\ pc' = "move" /\ stop' = step /\ caller' = back
  /\ UNCHANGED <<display, x>>

ClearScreen == screen' = Cleared /\ cursor' = 0

\* What the program calls while it runs: PRINT, VDU, LIST and messages use
\* characters, lines and tabs, CLS clears.
Output ==
  /\ pc = "run" /\ outputs < MaxOutputs /\ outputs' = outputs + 1
  /\ \/ \E c \in Chars : PrintChar(c, "run", 1)
     \/ MoveTo(Width, "run")
     \/ MoveTo(Tab, "run")
     \/ ClearScreen /\ UNCHANGED loop
  /\ UNCHANGED <<user, host, reading>>

----------------------------------------------------------------------------
(* HWInputLine *)

InputLine ==
  /\ pc = "run" /\ pc' = "getkey"
  /\ UNCHANGED <<display, x, stop, caller, user, host, reading, outputs>>

\* The port must have changed since the last key was read
GetKey ==
  /\ pc = "getkey" /\ port # lastKey /\ pc' = "wait"
  /\ UNCHANGED <<display, x, stop, caller, user, host, reading, outputs>>

Step(k) ==
  CASE k = "up" -> -Width [] k = "down" -> Width
    [] k = "left" -> -1 [] k = "right" -> 1

BackSpace ==
  IF cursor = 0 THEN UNCHANGED display
  ELSE /\ screen' = [screen EXCEPT ![cursor - 1] = Space]
       /\ cursor' = cursor - 1

\* The row of the cursor, 64 bytes from "cursor AND $FFC0"
CursorRow == [c \in 0..(Width - 1) |-> screen[cursor - (cursor % Width) + c]]

\* A key is taken: what it does, and where HWInputLine goes on.
TypeKey(k) == k \in Chars /\ PrintChar(k, "getkey", 1) /\ UNCHANGED line
TabKey(k) == k = "tab" /\ MoveTo(Tab, "getkey") /\ UNCHANGED line
ReturnKey(k) ==
  k = "return" /\ line' = CursorRow /\ MoveTo(Width, "run")
EditKey(k) ==
  /\ k \in Controls \ {"tab", "return"}
  /\ CASE k = "backspace" -> BackSpace
       [] k = "clear" -> ClearScreen
       [] k \in {"up", "down", "left", "right"} ->
            cursor' = (cursor + Step(k)) % Size /\ UNCHANGED screen
       [] k = "other" -> UNCHANGED display
  /\ pc' = "getkey" /\ UNCHANGED <<x, stop, caller, line>>

WaitKeyForgets ==                                        \* mutant
  /\ pc = "wait" /\ port # None
  /\ lastKey' = None /\ readPress' = portPress /\ fresh' = FALSE
  /\ TypeKey(port) \/ TabKey(port) \/ ReturnKey(port) \/ EditKey(port)
  /\ UNCHANGED <<user, host, outputs>>

WaitKeyChanged ==                                        \* mutant
  /\ pc = "wait" /\ port \notin {None, lastKey}
  /\ lastKey' = port /\ readPress' = portPress /\ fresh' = FALSE
  /\ TypeKey(port) \/ TabKey(port) \/ ReturnKey(port) \/ EditKey(port)
  /\ UNCHANGED <<user, host, outputs>>

\* _HWILWait
WaitKey ==
  /\ pc = "wait" /\ port # None
  /\ lastKey' = port /\ readPress' = portPress /\ fresh' = FALSE
  /\ TypeKey(port) \/ TabKey(port) \/ ReturnKey(port) \/ EditKey(port)
  /\ UNCHANGED <<user, host, outputs>>

----------------------------------------------------------------------------
Console == Scroll \/ Blank \/ MoveCursor \/ GetKey \/ WaitKey
Program == Output \/ InputLine
User == \E k \in Keys : Press(k) \/ Release(k)

Next == Console \/ Program \/ User \/ Frame

Spec == Init /\ [][Next]_vars

\* The processor goes on, and frames come; nobody has to type, and the program
\* need not ask for a line.
FairSpec == Spec /\ WF_vars(Console) /\ WF_vars(Frame)

----------------------------------------------------------------------------
(* Properties *)

\* The cursor is a cell of the screen whenever HWPrintChar, the cursor keys or
\* the input line use it as an index, and the copy loops stay in the screen and
\* the row behind it.
TypeOK ==
  /\ screen \in [Memory -> Chars]
  /\ cursor \in 0..(Size - 1)
  /\ line \in [0..(Width - 1) -> Chars]
  /\ {port, lastKey} \subseteq Chars \cup Controls \cup {None}
  /\ pc \in {"run", "getkey", "wait", "move", "scroll", "blank"}
  /\ x \in 0..Size /\ x % 2 = 0
  /\ pc = "scroll" => x < Size
  /\ pc = "blank" => x \in (Size - Width)..(Size - 1)
  /\ stop \in {1, Tab, Width} /\ caller \in {"run", "getkey"}
  /\ held \in [Keys -> Nat] /\ selected \in Keys \cup {None}
  /\ press \in Nat /\ portPress \in Nat /\ readPress \in Nat
  /\ alone \in BOOLEAN /\ fresh \in BOOLEAN
  /\ outputs \in Nat

\* Each time the port goes over to a key it is read at most once, however frames,
\* typing and the two loops of HWInputLine interleave.  So is each key press, in
\* the order of the presses, as long as the keys go down one at a time; a key that
\* is held while another one is typed may be shown, and read, once more.
EachPressOnce ==
  [][pc = "wait" /\ pc' # "wait" =>
       fresh /\ (alone => readPress' > readPress)]_vars

\* A key that goes down when the port shows none, and stays the one the host
\* shows, is read: also when it is the key that was read last.
HeldKeyIsRead ==
  \A k \in Keys :
    (pc = "wait" /\ port = None /\ Topmost(k) /\ None \notin Shows[k])
      ~> (readPress = held[k] \/ ~Topmost(k))

\* The page as it is when the loop the processor is in has done its work.
StopAhead == (cursor \div stop + 1) * stop
Scrolls == pc = "move" /\ StopAhead = Size
CursorAhead ==
  IF pc # "move" THEN cursor ELSE IF Scrolls THEN Size - Width ELSE StopAhead
Cell(i) ==
  IF (pc \in {"scroll", "blank"} \/ Scrolls) /\ i >= Size - Width THEN Space
  ELSE IF Scrolls \/ (pc = "scroll" /\ i >= x) THEN screen[i + Width]
  ELSE screen[i]

page == [i \in 0..(Size - 1) |-> Cell(i)]
RowsOf(p) ==
  [r \in 0..(Height - 1) |-> [c \in 0..(Width - 1) |-> p[r * Width + c]]]
pageRows == RowsOf(page)
pageRow == CursorAhead \div Width
pageCol == CursorAhead % Width

T == INSTANCE Terminal WITH rows <- pageRows, row <- pageRow, col <- pageCol

\* Whatever is typed or printed, the screen is that of the terminal, and the
\* line BASIC gets is the row the cursor was on.
ImplementsTerminal == T!Spec
=============================================================================
