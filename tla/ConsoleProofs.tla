--------------------------- MODULE ConsoleProofs ---------------------------
(***************************************************************************)
(* For every size of the screen, tab distance and set of keys: the cursor  *)
(* and the copy loops stay in the screen, what the port shows is read      *)
(* once, and the console, which writes one character at a time and scrolls *)
(* with a copy loop, implements the terminal.                              *)
(***************************************************************************)
EXTENDS Console, TLAPS

\* What the port shows once it is read is the last key, so the first loop waits
\* for it to change.  As long as keys go down one at a time, a key that is down
\* was pressed last, a press is read after the port shows it, and while the
\* newest press is on the port the host has selected the key that is down.
PressesInOrder ==
  /\ ~fresh /\ port # None => port = lastKey /\ pc # "wait"
  /\ alone =>
       /\ readPress <= portPress /\ portPress <= press
       /\ fresh => readPress < portPress
       /\ \A k \in Held : held[k] = press /\ (portPress = press => selected = k)
       /\ \A j, k \in Held : j = k

IInv == TypeOK /\ PressesInOrder

-----------------------------------------------------------------------------
(* The size of the screen *)

LEMMA SizeType == Size \in Nat /\ Size >= Width /\ Width \in Nat /\ Width >= 2
<1>1. Width \in Nat /\ Height \in Nat /\ Height >= 1 /\ Width >= 2
  BY ConsoleAssumption
<1>2. Width * Height = Width * (Height - 1) + Width
  BY <1>1
<1>3. Width * (Height - 1) \in Nat
  BY <1>1
<1> QED
  BY <1>1, <1>2, <1>3 DEF Size

LEMMA SizeEven == Size % 2 = 0 /\ (Size - Width) % 2 = 0
<1>1. PICK k \in Nat : Width = 2 * k
  <2>1. Width \div 2 \in Nat /\ Width = 2 * (Width \div 2)
    BY ConsoleAssumption
  <2> QED
    BY <2>1
<1>2. k * Height \in Nat
  BY ConsoleAssumption
<1>3. Size = 2 * (k * Height)
  BY <1>1, ConsoleAssumption DEF Size
<1> HIDE DEF Size
<1> DEFINE n == k * Height
<1>4. n \in Nat /\ Size = 2 * n
  BY <1>2, <1>3
<1> HIDE DEF n
<1> QED
  BY <1>1, <1>4

\* Cells of the screen are in memory, and so is the cell one row on.
LEMMA MemoryType ==
  \A i \in 0..(Size - 1) : i \in Memory /\ i + Width \in Memory
BY SizeType DEF Memory

LEMMA WordType ==
  ASSUME NEW i \in 0..(Size - 1), i % 2 = 0
  PROVE  i + 1 \in 0..(Size - 1)
BY SizeType, SizeEven

LEMMA ClearedType == TypeOK => Cleared \in [Memory -> Chars]
BY ConsoleAssumption DEF TypeOK, Cleared

-----------------------------------------------------------------------------
(* The parts of the steps *)

LEMMA PrintCharType ==
  ASSUME TypeOK, NEW c \in Chars \cup {None},
         NEW back \in {"run", "getkey"}, NEW step \in {1, Tab, Width},
         PrintChar(c, back, step)
  PROVE  /\ screen' \in [Memory -> Chars] /\ cursor' \in 0..(Size - 1)
         /\ pc' \in {"run", "getkey", "move", "scroll"}
         /\ x' \in 0..Size /\ x' % 2 = 0 /\ (pc' = "scroll" => x' < Size)
         /\ stop' \in {1, Tab, Width} /\ caller' \in {"run", "getkey"}
<1>1. screen \in [Memory -> Chars] /\ cursor \in 0..(Size - 1)
      /\ x \in 0..Size /\ x % 2 = 0
  BY DEF TypeOK
<1>2. screen' \in [Memory -> Chars]
  BY <1>1 DEF PrintChar
<1>3. stop' \in {1, Tab, Width} /\ caller' \in {"run", "getkey"}
  BY DEF PrintChar
<1>4. CASE cursor + 1 = Size
  BY <1>1, <1>2, <1>3, <1>4, SizeType DEF PrintChar
<1>5. CASE cursor + 1 # Size
  <2>1. cursor' = cursor + 1 /\ x' = x /\ pc' \in {"run", "getkey", "move"}
    BY <1>5 DEF PrintChar, Moved
  <2> QED
    BY <1>1, <1>2, <1>3, <1>5, <2>1, SizeType
<1> QED
  BY <1>4, <1>5

LEMMA MoveToType ==
  ASSUME TypeOK, NEW back \in {"run", "getkey"}, NEW step \in {1, Tab, Width},
         MoveTo(step, back)
  PROVE  /\ UNCHANGED display /\ x' = x /\ pc' = "move"
         /\ stop' \in {1, Tab, Width} /\ caller' \in {"run", "getkey"}
BY DEF MoveTo

\* What TypeOK says of the keyboard.
KeysTyped ==
  /\ {port, lastKey} \subseteq Chars \cup Controls \cup {None}
  /\ held \in [Keys -> Nat] /\ selected \in Keys \cup {None}
  /\ press \in Nat /\ portPress \in Nat /\ readPress \in Nat
  /\ alone \in BOOLEAN /\ fresh \in BOOLEAN

\* What the parts leave to say of TypeOK.
LEMMA TypeFromParts ==
  ASSUME TypeOK,
         screen' \in [Memory -> Chars], cursor' \in 0..(Size - 1),
         pc' \in {"run", "getkey", "wait", "move", "scroll"},
         x' \in 0..Size, x' % 2 = 0, pc' = "scroll" => x' < Size,
         stop' \in {1, Tab, Width}, caller' \in {"run", "getkey"},
         line' \in [0..(Width - 1) -> Chars],
         KeysTyped', outputs' \in Nat
  PROVE  TypeOK'
<1>1. pc' # "blank"
  OBVIOUS
<1> QED
  BY <1>1 DEF TypeOK, KeysTyped

LEMMA CursorRowType == TypeOK => CursorRow \in [0..(Width - 1) -> Chars]
<1> SUFFICES ASSUME TypeOK, NEW c \in 0..(Width - 1)
             PROVE  screen[cursor - (cursor % Width) + c] \in Chars
  BY DEF CursorRow
<1>1. cursor \in 0..(Size - 1) /\ screen \in [Memory -> Chars]
  BY DEF TypeOK
<1>2. cursor % Width \in 0..cursor
  BY <1>1, SizeType
<1>3. cursor - (cursor % Width) + c \in Memory
  BY <1>1, <1>2, SizeType DEF Memory
<1> QED
  BY <1>1, <1>3

-----------------------------------------------------------------------------
LEMMA InitIInv == Init => IInv
<1> SUFFICES ASSUME Init PROVE IInv
  OBVIOUS
<1>1. screen \in [Memory -> Chars] /\ line \in [0..(Width - 1) -> Chars]
  BY ConsoleAssumption DEF Init
<1>2. cursor \in 0..(Size - 1) /\ x \in 0..Size /\ x % 2 = 0
  BY SizeType DEF Init
<1>3. TypeOK
  BY <1>1, <1>2 DEF Init, TypeOK
<1>4. PressesInOrder
  BY DEF Init, PressesInOrder, Held
<1> QED
  BY <1>3, <1>4 DEF IInv

LEMMA UserStep == IInv /\ User => IInv'
<1> SUFFICES ASSUME IInv, User PROVE IInv'
  OBVIOUS
<1>1. PICK k \in Keys : Press(k) \/ Release(k)
  BY DEF User
<1>2. UNCHANGED <<display, loop, host, reading, outputs>> /\ held \in [Keys -> Nat]
      /\ press \in Nat /\ alone \in BOOLEAN
  BY <1>1 DEF Press, Release, IInv, TypeOK
<1>3. held' \in [Keys -> Nat] /\ press' \in Nat /\ alone' \in BOOLEAN
  <2>1. CASE Press(k)
    <3>1. alone' = (alone /\ Held = {}) /\ press' = press + 1
          /\ held' = [held EXCEPT ![k] = press + 1]
      BY <2>1 DEF Press
    <3>2. alone' \in BOOLEAN
      BY <3>1, Zenon
    <3>3. press + 1 \in Nat
      BY <1>2
    <3>4. held' \in [Keys -> Nat]
      BY <1>2, <3>1, <3>3
    <3> QED
      BY <3>1, <3>2, <3>3, <3>4
  <2>2. CASE Release(k)
    <3>1. alone' = alone /\ press' = press /\ held' = [held EXCEPT ![k] = 0]
      BY <2>2 DEF Release
    <3>2. held' \in [Keys -> Nat]
      BY <1>2, <3>1
    <3> QED
      BY <1>2, <3>1, <3>2
  <2> QED
    BY <1>1, <2>1, <2>2
<1>4. TypeOK'
  BY <1>2, <1>3 DEF IInv, TypeOK, display, loop, host, reading
<1>5. ASSUME alone'
      PROVE  /\ alone /\ portPress' <= press'
             /\ \A j \in Held' : held'[j] = press' /\ (portPress' = press' => selected' = j)
             /\ \A i, m \in Held' : i = m
  <2>1. alone /\ portPress <= press /\ portPress \in Nat
        /\ \A j \in Held : held[j] = press /\ (portPress = press => selected = j)
        /\ \A i, m \in Held : i = m
    BY <1>1, <1>5 DEF Press, Release, IInv, TypeOK, PressesInOrder
  <2>2. portPress' = portPress /\ selected' = selected
    BY <1>2 DEF host
  <2>3. CASE Press(k)
    <3>1. press' = press + 1 /\ Held = {} /\ held' = [held EXCEPT ![k] = press + 1]
      BY <1>5, <2>3 DEF Press
    <3>2. \A j \in Held' : j = k /\ held'[j] = press'
      BY <1>2, <3>1 DEF Held
    <3>3. portPress' # press' /\ portPress' <= press'
      BY <1>2, <2>1, <2>2, <3>1
    <3> QED
      BY <2>1, <3>2, <3>3
  <2>4. CASE Release(k)
    <3>1. press' = press /\ held' = [held EXCEPT ![k] = 0]
      BY <2>4 DEF Release
    <3>2. \A j \in Held' : j \in Held /\ held'[j] = held[j]
      BY <1>2, <3>1 DEF Held
    <3> QED
      BY <2>1, <2>2, <3>1, <3>2
  <2> QED
    BY <1>1, <2>3, <2>4
<1>6. PressesInOrder'
  BY <1>2, <1>5 DEF IInv, PressesInOrder, loop, host, reading
<1> QED
  BY <1>4, <1>6 DEF IInv

LEMMA FrameStep == IInv /\ Frame => IInv'
<1> SUFFICES ASSUME IInv, Frame PROVE IInv'
  OBVIOUS
<1>1. CASE FrameShowsNone
  <2>1. Held' = Held
    BY <1>1 DEF FrameShowsNone, user, Held
  <2> QED
    BY <1>1, <2>1
    DEF FrameShowsNone, IInv, TypeOK, PressesInOrder, display, loop, user, reading
<1>2. ASSUME NEW k \in Keys, FrameShows(k) PROVE IInv'
  <2>1. /\ k \in Held /\ selected # k /\ selected' = k /\ port' \in Shows[k]
        /\ portPress' = held[k] /\ fresh' = TRUE
        /\ UNCHANGED <<display, loop, user, line, lastKey, readPress, outputs>>
    BY <1>2 DEF FrameShows, Topmost
  <2>2. held[k] \in Nat /\ Shows[k] \subseteq Chars \cup Controls \cup {None}
    BY ConsoleAssumption DEF IInv, TypeOK
  <2>3. TypeOK'
    BY <2>1, <2>2 DEF IInv, TypeOK, display, loop, user
  <2>4. Held' = Held /\ held' = held /\ press' = press /\ alone' = alone
        /\ readPress' = readPress
    BY <2>1 DEF user, Held
  <2>5. ASSUME alone
        PROVE  /\ readPress < held[k] /\ held[k] = press
               /\ \A j \in Held : held[j] = press /\ j = k
    BY <2>1, <2>5 DEF IInv, TypeOK, PressesInOrder
  <2>6. PressesInOrder'
    BY <2>1, <2>2, <2>4, <2>5 DEF IInv, TypeOK, PressesInOrder
  <2> QED
    BY <2>3, <2>6 DEF IInv
<1> QED
  BY <1>1, <1>2 DEF Frame

LEMMA ScrollStep == IInv /\ Scroll => IInv'
<1> SUFFICES ASSUME IInv, Scroll PROVE IInv'
  OBVIOUS
<1>1. screen \in [Memory -> Chars] /\ x \in 0..(Size - 1) /\ x % 2 = 0
  BY SizeType DEF IInv, TypeOK, Scroll
<1>2. x + 1 \in 0..(Size - 1)
  BY <1>1, WordType
<1>3. x + Width \in Memory /\ (x + 1) + Width \in Memory
  BY <1>1, <1>2, MemoryType
<1>4. x + 1 + Width = (x + 1) + Width
  BY <1>1, SizeType
<1>5. screen' \in [Memory -> Chars]
  BY <1>1, <1>3, <1>4 DEF Scroll
<1>6. UNCHANGED <<cursor, stop, caller, user, host, reading, outputs>>
  BY DEF Scroll
<1>7. CASE x + 2 = Size
  <2>1. pc' = "blank" /\ x' = Size - Width
    BY <1>7 DEF Scroll
  <2>2. x' \in 0..Size /\ x' % 2 = 0 /\ x' \in (Size - Width)..(Size - 1)
    BY <2>1, SizeType, SizeEven
  <2> QED
    BY <1>5, <1>6, <2>1, <2>2
    DEF IInv, TypeOK, PressesInOrder, Held, user, host, reading
<1>8. CASE x + 2 # Size
  <2>1. pc' = "scroll" /\ x' = x + 2
    BY <1>8 DEF Scroll
  <2>2. x' \in 0..Size /\ x' % 2 = 0 /\ x' < Size
    BY <1>1, <1>2, <1>8, <2>1, SizeType
  <2> QED
    BY <1>5, <1>6, <2>1, <2>2
    DEF IInv, TypeOK, PressesInOrder, Held, user, host, reading
<1> QED
  BY <1>7, <1>8

LEMMA BlankStep == IInv /\ Blank => IInv'
<1> SUFFICES ASSUME IInv, Blank PROVE IInv'
  OBVIOUS
<1>1. screen \in [Memory -> Chars] /\ x \in 0..(Size - 1) /\ x % 2 = 0
      /\ x \in (Size - Width)..(Size - 1)
  BY SizeType DEF IInv, TypeOK, Blank
<1>2. x + 1 \in 0..(Size - 1)
  BY <1>1, WordType
<1>3. screen' \in [Memory -> Chars]
  BY <1>1, ConsoleAssumption DEF Blank
<1>4. UNCHANGED <<cursor, stop, caller, user, host, reading, outputs>> /\ x' = x + 2
  BY DEF Blank
<1>5. x' \in 0..Size /\ x' % 2 = 0
  BY <1>1, <1>2, <1>4, SizeType
<1>6. CASE x' = Size
  <2>1. pc' \in {"run", "getkey", "move"}
    BY <1>6 DEF Blank, Moved, IInv, TypeOK
  <2> QED
    BY <1>3, <1>4, <1>5, <2>1
    DEF IInv, TypeOK, PressesInOrder, Held, user, host, reading
<1>7. CASE x' # Size
  <2>1. pc' = "blank"
    BY <1>7 DEF Blank
  <2>2. x' \in (Size - Width)..(Size - 1)
    BY <1>1, <1>4, <1>5, <1>7, SizeType
  <2> QED
    BY <1>3, <1>4, <1>5, <2>1, <2>2
    DEF IInv, TypeOK, PressesInOrder, Held, user, host, reading
<1> QED
  BY <1>6, <1>7

LEMMA MoveCursorStep == IInv /\ MoveCursor => IInv'
<1> SUFFICES ASSUME IInv, MoveCursor PROVE IInv'
  OBVIOUS
<1>1. TypeOK /\ PrintChar(None, caller, stop) /\ caller \in {"run", "getkey"}
      /\ stop \in {1, Tab, Width}
  BY DEF IInv, TypeOK, MoveCursor
<1>2. /\ screen' \in [Memory -> Chars] /\ cursor' \in 0..(Size - 1)
      /\ pc' \in {"run", "getkey", "move", "scroll"}
      /\ x' \in 0..Size /\ x' % 2 = 0 /\ (pc' = "scroll" => x' < Size)
      /\ stop' \in {1, Tab, Width} /\ caller' \in {"run", "getkey"}
  BY <1>1, PrintCharType
<1>3. UNCHANGED <<user, host, reading, outputs>>
  BY DEF MoveCursor
<1>4. TypeOK'
  <2>1. /\ line' \in [0..(Width - 1) -> Chars] /\ KeysTyped'
        /\ outputs' \in Nat
    BY <1>1, <1>3 DEF TypeOK, KeysTyped, user, host, reading
  <2> QED
    BY <1>1, <1>2, <2>1, TypeFromParts
<1>5. PressesInOrder'
  BY <1>2, <1>3 DEF IInv, PressesInOrder, Held, user, host, reading
<1> QED
  BY <1>4, <1>5 DEF IInv

LEMMA GetKeyStep == IInv /\ GetKey => IInv'
BY DEF GetKey, IInv, TypeOK, PressesInOrder, Held, display, user, host, reading

LEMMA InputLineStep == IInv /\ InputLine => IInv'
BY DEF InputLine, IInv, TypeOK, PressesInOrder, Held, display, user, host, reading

LEMMA OutputStep == IInv /\ Output => IInv'
<1> SUFFICES ASSUME IInv, Output PROVE IInv'
  OBVIOUS
<1> DEFINE Parts ==
      /\ screen' \in [Memory -> Chars] /\ cursor' \in 0..(Size - 1)
      /\ pc' \in {"run", "getkey", "move", "scroll"}
      /\ x' \in 0..Size /\ x' % 2 = 0 /\ (pc' = "scroll" => x' < Size)
      /\ stop' \in {1, Tab, Width} /\ caller' \in {"run", "getkey"}
<1>1. TypeOK /\ pc = "run"
  BY DEF IInv, Output
<1>2. UNCHANGED <<user, host, reading>> /\ outputs' \in Nat
  BY <1>1 DEF Output, TypeOK
<1>3. Parts
  <2>1. CASE \E c \in Chars : PrintChar(c, "run", 1)
    BY <1>1, <2>1, PrintCharType
  <2>2. CASE MoveTo(Width, "run") \/ MoveTo(Tab, "run")
    <3>1. /\ UNCHANGED display /\ x' = x /\ pc' = "move"
          /\ stop' \in {1, Tab, Width} /\ caller' \in {"run", "getkey"}
      BY <1>1, <2>2, MoveToType
    <3> QED
      BY <1>1, <3>1 DEF TypeOK, display
  <2>3. CASE ClearScreen /\ UNCHANGED loop
    BY <1>1, <2>3, ClearedType, SizeType DEF ClearScreen, loop, TypeOK
  <2> QED
    BY <2>1, <2>2, <2>3 DEF Output
<1>4. TypeOK'
  <2>1. /\ line' \in [0..(Width - 1) -> Chars] /\ KeysTyped'
    BY <1>1, <1>2 DEF TypeOK, KeysTyped, user, host, reading
  <2> QED
    BY <1>1, <1>2, <1>3, <2>1, TypeFromParts
<1>5. PressesInOrder'
  BY <1>2, <1>3 DEF IInv, PressesInOrder, Held, user, host, reading
<1> QED
  BY <1>4, <1>5 DEF IInv

-----------------------------------------------------------------------------
(* A key is taken *)

\* What is read was not read before.
LEMMA ReadsNewPress ==
  IInv /\ WaitKey => fresh /\ (alone => readPress' > readPress)
BY DEF IInv, TypeOK, PressesInOrder, WaitKey

LEMMA EditKeyType ==
  ASSUME TypeOK, NEW k, EditKey(k)
  PROVE  screen' \in [Memory -> Chars] /\ cursor' \in 0..(Size - 1)
<1>1. screen \in [Memory -> Chars] /\ cursor \in 0..(Size - 1)
  BY DEF TypeOK
<1>2. CASE k = "backspace" /\ BackSpace
  BY <1>1, <1>2, SizeType, ConsoleAssumption DEF BackSpace, display
<1>3. CASE k = "clear" /\ ClearScreen
  BY <1>3, ClearedType, SizeType DEF ClearScreen
<1>4. CASE /\ k \in {"up", "down", "left", "right"}
           /\ cursor' = (cursor + Step(k)) % Size /\ UNCHANGED screen
  <2>1. Step(k) \in Int
    BY <1>4, SizeType DEF Step
  <2>2. cursor + Step(k) \in Int /\ Size \in Nat \ {0}
    BY <1>1, <2>1, SizeType
  <2> QED
    BY <1>1, <1>4, <2>2
<1>5. CASE k = "other" /\ UNCHANGED display
  BY <1>1, <1>5 DEF display
<1> QED
  BY <1>2, <1>3, <1>4, <1>5 DEF EditKey, Controls

LEMMA WaitKeyStep == IInv /\ WaitKey => IInv'
<1> SUFFICES ASSUME IInv, WaitKey PROVE IInv'
  OBVIOUS
<1> DEFINE Parts ==
      /\ screen' \in [Memory -> Chars] /\ cursor' \in 0..(Size - 1)
      /\ pc' \in {"run", "getkey", "move", "scroll"}
      /\ x' \in 0..Size /\ x' % 2 = 0 /\ (pc' = "scroll" => x' < Size)
      /\ stop' \in {1, Tab, Width} /\ caller' \in {"run", "getkey"}
      /\ line' \in [0..(Width - 1) -> Chars]
<1>1. TypeOK /\ port \in Chars \cup Controls /\ line \in [0..(Width - 1) -> Chars]
  BY DEF IInv, TypeOK, WaitKey
<1>2. lastKey' = port /\ readPress' = portPress /\ fresh' = FALSE
      /\ UNCHANGED <<user, host, outputs>>
  BY DEF WaitKey
<1>3. Parts
  <2>1. CASE TypeKey(port)
    BY <1>1, <2>1, PrintCharType DEF TypeKey
  <2>2. CASE TabKey(port) \/ ReturnKey(port)
    <3>1. /\ UNCHANGED display /\ x' = x /\ pc' = "move"
          /\ stop' \in {1, Tab, Width} /\ caller' \in {"run", "getkey"}
      BY <1>1, <2>2, MoveToType DEF TabKey, ReturnKey
    <3>2. line' \in [0..(Width - 1) -> Chars]
      BY <1>1, <2>2, CursorRowType DEF TabKey, ReturnKey
    <3> QED
      BY <1>1, <3>1, <3>2 DEF TypeOK, display
  <2>3. CASE EditKey(port)
    <3>1. screen' \in [Memory -> Chars] /\ cursor' \in 0..(Size - 1)
      BY <1>1, <2>3, EditKeyType
    <3>2. pc' = "getkey" /\ UNCHANGED <<x, stop, caller, line>>
      BY <2>3 DEF EditKey
    <3> QED
      BY <1>1, <3>1, <3>2 DEF TypeOK
  <2> QED
    BY <2>1, <2>2, <2>3 DEF WaitKey
<1>4. TypeOK'
  <2>1. /\ KeysTyped'
        /\ outputs' \in Nat
    BY <1>1, <1>2 DEF TypeOK, KeysTyped, user, host
  <2> QED
    BY <1>1, <1>3, <2>1, TypeFromParts
<1>5. PressesInOrder'
  BY <1>2, <1>3 DEF IInv, TypeOK, PressesInOrder, Held, user, host
<1> QED
  BY <1>4, <1>5 DEF IInv

-----------------------------------------------------------------------------
LEMMA NextIInv == IInv /\ [Next]_vars => IInv'
<1> SUFFICES ASSUME IInv, [Next]_vars PROVE IInv'
  OBVIOUS
<1>1. CASE UNCHANGED vars
  BY <1>1 DEF vars, display, loop, user, host, reading, IInv, TypeOK, PressesInOrder, Held
<1>2. CASE Next
  BY <1>2, ScrollStep, BlankStep, MoveCursorStep, GetKeyStep, WaitKeyStep,
     OutputStep, InputLineStep, UserStep, FrameStep
  DEF Next, Console, Program
<1> QED
  BY <1>1, <1>2

LEMMA Invariance == Spec => []IInv
BY InitIInv, NextIInv, PTL DEF Spec

\* On a screen of any size the cursor stays on the screen, and the scroll and
\* blank loops in memory (HWPrintChar, HWInputLine).
THEOREM CursorOnScreen == Spec => []TypeOK
<1>1. IInv => TypeOK
  BY DEF IInv
<1> QED
  BY <1>1, Invariance, PTL

\* HWInputLine reads what the port goes over to at most once, and each key press
\* at most once and in order if keys go down one at a time, however frames and
\* typing interleave with its two loops.
THEOREM PressesReadOnce == Spec => EachPressOnce
<1>1. IInv /\ [Next]_vars
        => [pc = "wait" /\ pc' # "wait" =>
              fresh /\ (alone => readPress' > readPress)]_vars
  <2> SUFFICES ASSUME IInv, Next, pc = "wait", pc' # "wait"
               PROVE  fresh /\ (alone => readPress' > readPress)
    BY DEF vars, loop
  <2>1. WaitKey
    BY DEF Next, Console, Program, User, Scroll, Blank, MoveCursor, GetKey,
           Output, InputLine, Frame, FrameShows, FrameShowsNone, Press, Release, loop
  <2> QED
    BY <2>1, ReadsNewPress
<1> QED
  BY <1>1, Invariance, PTL DEF Spec, EachPressOnce
-----------------------------------------------------------------------------
(***************************************************************************)
(* The console implements the terminal.  First the arithmetic of rows,     *)
(* columns and stops: the screen is one array, the page an array of rows.  *)
(***************************************************************************)
LEMMA RowsApart ==
  ASSUME NEW a \in Int, NEW b \in Int, NEW m \in Nat, a < b
  PROVE  a * m + m <= b * m
<1> DEFINE d == b - a - 1
<1>1. d \in Nat /\ b = a + d + 1
  OBVIOUS
<1> HIDE DEF d
<1>2. d * m \in Nat
  BY <1>1
<1>3. b * m = a * m + d * m + m
  BY <1>1
<1> QED
  BY <1>1, <1>2, <1>3

LEMMA Division ==
  ASSUME NEW i \in Int, NEW m \in Nat \ {0}
  PROVE  /\ i \div m \in Int /\ i % m \in 0..(m - 1)
         /\ i = (i \div m) * m + (i % m)
         /\ i >= 0 => i \div m >= 0
<1>1. i \div m \in Int /\ i % m \in 0..(m - 1)
  OBVIOUS
<1>2. i = m * (i \div m) + (i % m)
  OBVIOUS
<1>3. ASSUME i >= 0 PROVE ~(i \div m < 0)
  <2> DEFINE q == i \div m
             r == i % m
  <2>1. q \in Int /\ r \in 0..(m - 1) /\ i = m * q + r
    BY <1>1, <1>2
  <2> HIDE DEF q, r
  <2>2. ASSUME q < 0 PROVE FALSE
    <3>1. q * m + m <= 0 * m
      BY <2>1, <2>2, RowsApart
    <3> QED
      BY <1>3, <2>1, <3>1
  <2> QED
    BY <2>1, <2>2 DEF q
<1>4. m * (i \div m) = (i \div m) * m
  BY <1>1
<1> QED
  BY <1>1, <1>2, <1>3, <1>4

LEMMA NaturalDivision ==
  ASSUME NEW i \in Nat, NEW m \in Nat \ {0}
  PROVE  /\ i \div m \in Nat /\ i % m \in 0..(m - 1)
         /\ i = (i \div m) * m + (i % m)
<1>1. i \in Int /\ i >= 0
  OBVIOUS
<1>2. /\ i \div m \in Int /\ i % m \in 0..(m - 1)
      /\ i = (i \div m) * m + (i % m) /\ i \div m >= 0
  BY <1>1, Division
<1>3. i \div m \in Nat
  BY <1>2
<1> QED
  BY <1>2, <1>3

LEMMA DivisionUnique ==
  ASSUME NEW q \in Int, NEW m \in Nat \ {0}, NEW r \in 0..(m - 1)
  PROVE  (q * m + r) \div m = q /\ (q * m + r) % m = r
<1> DEFINE i == q * m + r
           p == i \div m
           s == i % m
<1>1. q * m \in Int /\ i \in Int
  OBVIOUS
<1>2. p \in Int /\ s \in 0..(m - 1) /\ i = p * m + s
  BY <1>1, Division
<1>3. i = q * m + r
  OBVIOUS
<1> HIDE DEF i, p, s
<1>4. ~(p < q)
  BY <1>1, <1>2, <1>3, RowsApart
<1>5. ~(q < p)
  BY <1>1, <1>2, <1>3, RowsApart
<1>6. p = q
  BY <1>2, <1>4, <1>5
<1>7. s = r
  BY <1>1, <1>2, <1>3, <1>6
<1> QED
  BY <1>6, <1>7 DEF p, s, i

\* Going round: one length more or less is the same place.
LEMMA WrapAround ==
  ASSUME NEW m \in Nat \ {0}, NEW j \in 0..(m - 1)
  PROVE  j % m = j /\ (j + m) % m = j /\ (j - m) % m = j
<1>1. \A q \in Int : (q * m + j) % m = j
  BY DivisionUnique
<1>2. 0 * m + j = j /\ 1 * m + j = j + m /\ (0 - 1) * m + j = j - m
  OBVIOUS
<1>3. 0 \in Int /\ 1 \in Int /\ 0 - 1 \in Int
  OBVIOUS
<1>4. (0 * m + j) % m = j
  BY <1>1, <1>3, Zenon
<1>5. (1 * m + j) % m = j
  BY <1>1, <1>3, Zenon
<1>6. ((0 - 1) * m + j) % m = j
  BY <1>1, <1>3, Zenon
<1> QED
  BY <1>2, <1>4, <1>5, <1>6

Cells == 0..(Size - 1)
RowNumbers == 0..(Height - 1)
ColumnNumbers == 0..(Width - 1)

\* A row and a column give a cell; the last row is the one that ends the page.
LEMMA CellOf ==
  ASSUME NEW r \in RowNumbers, NEW c \in ColumnNumbers
  PROVE  /\ r * Width + c \in Cells /\ r * Width \in Nat
         /\ (r + 1) * Width = r * Width + Width
         /\ r + 1 = Height => r * Width = Size - Width
         /\ r + 1 < Height => r * Width + Width <= Size - Width
<1>1. r \in Nat /\ c \in Nat /\ Width \in Nat /\ Height \in Nat /\ c < Width
      /\ r < Height /\ Size \in Nat
  BY ConsoleAssumption, SizeType DEF RowNumbers, ColumnNumbers
<1>2. r * Width + Width <= Height * Width /\ Height * Width = Width * Height
  BY <1>1, RowsApart
<1>3. r * Width \in Nat /\ (r + 1) * Width = r * Width + Width
  BY <1>1
<1>4. r + 1 < Height => (r + 1) * Width + Width <= Height * Width
  BY <1>1, RowsApart
<1>5. Size = Height * Width
  BY <1>2 DEF Size
<1>6. r + 1 = Height => Size = r * Width + Width
  BY <1>1, <1>3, <1>5
<1> HIDE DEF Size
<1> QED
  BY <1>1, <1>2, <1>3, <1>4, <1>5, <1>6 DEF Cells

LEMMA RowAndColumn ==
  ASSUME NEW i \in Cells
  PROVE  /\ i \div Width \in RowNumbers /\ i % Width \in ColumnNumbers
         /\ i = (i \div Width) * Width + (i % Width)
<1> DEFINE q == i \div Width
           r == i % Width
<1>1. i \in Nat /\ i < Size /\ Width \in Nat \ {0} /\ Height \in Nat
  BY SizeType, ConsoleAssumption DEF Cells
<1>2. q \in Nat /\ r \in 0..(Width - 1) /\ i = q * Width + r
  BY <1>1, NaturalDivision
<1> HIDE DEF q, r
<1>3. ~(Height <= q)
  <2> SUFFICES ASSUME Height <= q PROVE FALSE
    OBVIOUS
  <2>1. Height * Width <= q * Width
    BY <1>1, <1>2, RowsApart
  <2>2. Height * Width = Size
    BY <1>1 DEF Size
  <2>3. q * Width \in Nat
    BY <1>1, <1>2
  <2> HIDE DEF Size
  <2> QED
    BY <1>1, <1>2, <2>1, <2>2, <2>3
<1> QED
  BY <1>1, <1>2, <1>3 DEF q, r, RowNumbers, ColumnNumbers

\* What is at a row and column is found there again.
LEMMA CellFound ==
  ASSUME NEW r \in RowNumbers, NEW c \in ColumnNumbers
  PROVE  (r * Width + c) \div Width = r /\ (r * Width + c) % Width = c
BY DivisionUnique, ConsoleAssumption DEF RowNumbers, ColumnNumbers

LEMMA CellsApart ==
  ASSUME NEW r \in RowNumbers, NEW c \in ColumnNumbers,
         NEW q \in RowNumbers, NEW d \in ColumnNumbers,
         r * Width + c = q * Width + d
  PROVE  r = q /\ c = d
BY CellFound

\* A stop is a whole number of times in a row, so also in the page.
LEMMA StopDivides ==
  ASSUME NEW s \in {1, Tab, Width}
  PROVE  s \in Nat \ {0} /\ \E m \in Nat \ {0} : Width = m * s
<1>1. Width \in Nat \ {0} /\ Tab \in Nat \ {0} /\ Width % Tab = 0
  BY ConsoleAssumption
<1>2. CASE s = 1
  <2>1. Width = Width * s /\ s \in Nat \ {0}
    BY <1>1, <1>2
  <2> QED
    BY <1>1, <2>1, Zenon
<1>3. CASE s = Width
  <2>1. Width = 1 * s /\ s \in Nat \ {0} /\ 1 \in Nat \ {0}
    BY <1>1, <1>3
  <2> QED
    BY <2>1, Zenon
<1>4. CASE s = Tab
  <2> DEFINE m == Width \div Tab
  <2>1. m \in Nat /\ Width = m * Tab + (Width % Tab)
    BY <1>1, NaturalDivision
  <2> HIDE DEF m
  <2>2. Width = m * s
    BY <1>1, <1>4, <2>1
  <2>3. m \in Nat \ {0} /\ s \in Nat \ {0}
    BY <1>1, <1>4, <2>1, <2>2
  <2> QED
    BY <2>2, <2>3, Zenon
<1> QED
  BY <1>2, <1>3, <1>4

NextStop(i, s) == (i \div s + 1) * s

\* The next stop is the next one in the row; the stop at its end is the start of
\* the row below.
LEMMA StopInRow ==
  ASSUME NEW s \in {1, Tab, Width},
         NEW r \in RowNumbers, NEW c \in ColumnNumbers
  PROVE  /\ NextStop(r * Width + c, s) = r * Width + NextStop(c, s)
         /\ NextStop(c, s) \in 1..Width
<1> DEFINE k == c \div s
           d == c % s
<1>1. PICK m \in Nat \ {0} : Width = m * s
  BY StopDivides
<1>2. s \in Nat \ {0} /\ r \in Nat /\ c \in Nat /\ c < Width
  <2>1. s \in Nat \ {0}
    BY StopDivides
  <2> QED
    BY <2>1, ConsoleAssumption DEF RowNumbers, ColumnNumbers
<1>3. k \in Nat /\ d \in 0..(s - 1) /\ c = k * s + d
  BY <1>2, NaturalDivision
<1>4. NextStop(c, s) = (k + 1) * s
  BY DEF NextStop
<1> HIDE DEF k, d
<1>5. k * s \in Nat /\ (k + 1) * s = k * s + s
  BY <1>2, <1>3
<1>6. k < m
  <2> SUFFICES ASSUME m <= k PROVE FALSE
    BY <1>1, <1>3
  <2>1. m * s <= k * s
    BY <1>1, <1>2, <1>3, RowsApart
  <2> QED
    BY <1>1, <1>2, <1>3, <1>5, <2>1
<1>7. k * s + s <= m * s
  BY <1>1, <1>2, <1>3, <1>6, RowsApart
<1>8. (r * Width + c) \div s = r * m + k
  <2>1. r * m \in Nat /\ r * Width = (r * m) * s
    BY <1>1, <1>2
  <2>2. (r * m + k) * s = (r * m) * s + k * s
    BY <1>2, <1>3, <2>1
  <2>3. (r * m) * s \in Nat
    BY <1>2, <2>1
  <2>4. r * Width + c = (r * m + k) * s + d
    BY <1>2, <1>3, <1>5, <2>1, <2>2, <2>3
  <2> DEFINE q == r * m + k
  <2>5. q \in Int /\ r * Width + c = q * s + d
    BY <1>3, <2>1, <2>4
  <2> HIDE DEF q
  <2>6. (q * s + d) \div s = q
    BY <1>2, <1>3, <2>5, DivisionUnique
  <2>7. (r * Width + c) \div s = q
    BY <2>5, <2>6
  <2> QED
    BY <2>7 DEF q
<1>9. (r * m + k + 1) * s = r * Width + (k + 1) * s
  <2>1. r * m \in Nat /\ r * Width = (r * m) * s
    BY <1>1, <1>2
  <2> QED
    BY <1>2, <1>3, <1>5, <2>1
<1>10. NextStop(r * Width + c, s) = (r * m + k + 1) * s
  BY <1>8 DEF NextStop
<1>11. (k + 1) * s \in 1..Width
  BY <1>1, <1>2, <1>5, <1>7
<1> QED
  BY <1>4, <1>9, <1>10, <1>11

\* What HWMoveCursor does in one round: it meets the stop or has it still ahead.
LEMMA StopAheadOfCell ==
  ASSUME NEW s \in {1, Tab, Width}, NEW i \in Cells
  PROVE  /\ NextStop(i, s) \in (i + 1)..Size
         /\ i + 1 = Size => NextStop(i, s) = Size
         /\ (i + 1) % s = 0 => NextStop(i, s) = i + 1
         /\ (i + 1) % s # 0 => NextStop(i + 1, s) = NextStop(i, s)
<1> DEFINE r == i \div Width
           c == i % Width
           k == i \div s
           d == i % s
           n == NextStop(i, s)
<1>1. s \in Nat \ {0} /\ i \in Nat /\ i < Size /\ Size \in Nat
  <2>1. s \in Nat \ {0}
    BY StopDivides
  <2> QED
    BY <2>1, SizeType DEF Cells
<1>2. k \in Nat /\ d \in 0..(s - 1) /\ i = k * s + d
  BY <1>1, NaturalDivision
<1>3. n = (k + 1) * s
  BY DEF NextStop
<1>4. n <= Size
  <2>1. r \in RowNumbers /\ c \in ColumnNumbers /\ i = r * Width + c
    BY RowAndColumn
  <2> HIDE DEF r, c
  <2>2. n = r * Width + NextStop(c, s) /\ NextStop(c, s) \in 1..Width
    BY <2>1, StopInRow
  <2>3. r * Width + Width <= Size /\ r * Width \in Nat
    <3>1. CASE r + 1 = Height
      BY <2>1, <3>1, CellOf, SizeType
    <3>2. CASE r + 1 < Height
      BY <2>1, <3>2, CellOf, SizeType
    <3> QED
      BY <2>1, <3>1, <3>2, ConsoleAssumption DEF RowNumbers
  <2> HIDE DEF n
  <2> QED
    BY <1>1, <2>2, <2>3, SizeType
<1> HIDE DEF k, d, n, r, c
<1>5. (k + 1) * s = k * s + s /\ k * s \in Nat
  BY <1>1, <1>2
<1>6. n \in (i + 1)..Size
  BY <1>1, <1>2, <1>3, <1>4, <1>5
<1>7. CASE d + 1 = s
  <2>1. i + 1 = (k + 1) * s + 0 /\ k + 1 \in Nat /\ 0 \in 0..(s - 1)
    BY <1>1, <1>2, <1>5, <1>7
  <2>2. (i + 1) % s = 0
    BY <1>1, <2>1, DivisionUnique
  <2>3. n = i + 1
    BY <1>1, <1>2, <1>3, <2>1, <1>5
  <2> QED
    BY <1>6, <2>2, <2>3 DEF n
<1>8. CASE d + 1 # s
  <2>1. i + 1 = k * s + (d + 1) /\ d + 1 \in 0..(s - 1)
    BY <1>1, <1>2, <1>5, <1>8
  <2>2. (i + 1) \div s = k /\ (i + 1) % s = d + 1
    <3> DEFINE e == d + 1
    <3>1. i + 1 = k * s + e /\ e \in 0..(s - 1)
      BY <2>1
    <3> HIDE DEF e
    <3>2. (k * s + e) \div s = k /\ (k * s + e) % s = e
      BY <1>1, <1>2, <3>1, DivisionUnique
    <3>3. (i + 1) \div s = k /\ (i + 1) % s = e
      BY <3>1, <3>2
    <3> QED
      BY <3>3 DEF e
  <2>3. NextStop(i + 1, s) = n
    BY <1>3, <2>2 DEF NextStop
  <2>4. (i + 1) % s # 0
    BY <1>2, <2>2
  <2>5. n # i + 1 /\ (i + 1 = Size => n = Size)
    BY <1>1, <1>2, <1>3, <1>5, <1>6, <1>8
  <2> QED
    BY <1>6, <2>3, <2>4, <2>5 DEF n
<1> QED
  BY <1>7, <1>8

-----------------------------------------------------------------------------
(* Pages: an array of cells, and the rows that show it *)

ShiftedUp(p) ==
  [i \in Cells |-> IF i < Size - Width THEN p[i + Width] ELSE Space]
BlankPage == [i \in Cells |-> Space]

Written(p, r, c, x0) == [p EXCEPT ![r * Width + c] = x0]
WrittenInRow(rows, r, c, x0) == [rows EXCEPT ![r][c] = x0]

LEMMA WrittenRows ==
  ASSUME NEW p \in [Cells -> Chars], NEW x0,
         NEW r \in RowNumbers, NEW c \in ColumnNumbers
  PROVE  RowsOf(Written(p, r, c, x0)) = WrittenInRow(RowsOf(p), r, c, x0)
<1> DEFINE q == [p EXCEPT ![r * Width + c] = x0]
           R == [RowsOf(p) EXCEPT ![r][c] = x0]
<1>1. ASSUME NEW a \in RowNumbers, NEW b \in ColumnNumbers
      PROVE  q[a * Width + b] = R[a][b]
  <2>1. a * Width + b \in Cells
    BY CellOf
  <2>2. RowsOf(p)[a][b] = p[a * Width + b]
    BY DEF RowsOf, RowNumbers, ColumnNumbers
  <2>3. CASE a = r /\ b = c
    <3>1. q[a * Width + b] = x0
      BY <2>1, <2>3
    <3>2. R[a][b] = x0
      BY <2>3 DEF RowsOf, RowNumbers, ColumnNumbers
    <3> QED
      BY <3>1, <3>2
  <2>4. CASE ~(a = r /\ b = c)
    <3>1. a * Width + b # r * Width + c
      BY <2>4, CellsApart
    <3>2. q[a * Width + b] = p[a * Width + b]
      BY <2>1, <3>1
    <3>3. R[a][b] = RowsOf(p)[a][b]
      BY <2>4 DEF RowsOf, RowNumbers, ColumnNumbers
    <3> QED
      BY <2>2, <3>2, <3>3
  <2> QED
    BY <2>3, <2>4
<1>2. R = [a \in RowNumbers |-> [b \in ColumnNumbers |-> R[a][b]]]
  BY DEF RowsOf, RowNumbers, ColumnNumbers
<1>3. RowsOf(q) = [a \in RowNumbers |-> [b \in ColumnNumbers |-> q[a * Width + b]]]
  BY DEF RowsOf, RowNumbers, ColumnNumbers
<1> HIDE DEF q, R
<1>4. RowsOf(q) = R
  BY <1>1, <1>2, <1>3
<1> QED
  BY <1>4 DEF q, R, Written, WrittenInRow

LEMMA ShiftedRows ==
  ASSUME NEW p
  PROVE  RowsOf(ShiftedUp(p))
           = [r \in RowNumbers |-> IF r + 1 < Height THEN RowsOf(p)[r + 1]
                                   ELSE [c \in ColumnNumbers |-> Space]]
<1>1. ASSUME NEW r \in RowNumbers, NEW c \in ColumnNumbers
      PROVE  ShiftedUp(p)[r * Width + c]
               = IF r + 1 < Height THEN RowsOf(p)[r + 1][c] ELSE Space
  <2>1. r * Width + c \in Cells /\ r * Width \in Nat /\ c \in Nat /\ c < Width
        /\ Width \in Nat /\ Size \in Nat /\ r \in Nat
    <3>1. r * Width + c \in Cells /\ r * Width \in Nat
      BY CellOf
    <3> QED
      BY <3>1, SizeType, ConsoleAssumption DEF ColumnNumbers, RowNumbers
  <2>2. CASE r + 1 < Height
    <3>1. r * Width + c < Size - Width /\ (r + 1) * Width + c = r * Width + c + Width
      BY <2>1, <2>2, CellOf
    <3>2. r + 1 \in RowNumbers
      BY <2>1, <2>2, ConsoleAssumption DEF RowNumbers
    <3>3. RowsOf(p)[r + 1][c] = p[(r + 1) * Width + c]
      BY <3>2 DEF RowsOf, RowNumbers, ColumnNumbers
    <3>4. ShiftedUp(p)[r * Width + c] = p[r * Width + c + Width]
      BY <2>1, <3>1 DEF ShiftedUp
    <3> QED
      BY <2>2, <3>1, <3>3, <3>4
  <2>3. CASE ~(r + 1 < Height)
    <3>1. r + 1 = Height
      BY <2>1, <2>3, ConsoleAssumption DEF RowNumbers
    <3>2. ~(r * Width + c < Size - Width)
      BY <2>1, <3>1, CellOf
    <3> QED
      BY <2>1, <2>3, <3>2 DEF ShiftedUp
  <2> QED
    BY <2>2, <2>3
<1>2. ASSUME NEW r \in RowNumbers
      PROVE  RowsOf(ShiftedUp(p))[r]
               = IF r + 1 < Height THEN RowsOf(p)[r + 1]
                 ELSE [c \in ColumnNumbers |-> Space]
  <2>1. RowsOf(ShiftedUp(p))[r] = [c \in ColumnNumbers |-> ShiftedUp(p)[r * Width + c]]
    BY DEF RowsOf, RowNumbers, ColumnNumbers
  <2>2. CASE r + 1 < Height
    <3>1. r + 1 \in RowNumbers
      BY <2>2, ConsoleAssumption DEF RowNumbers
    <3>2. RowsOf(p)[r + 1] = [c \in ColumnNumbers |-> RowsOf(p)[r + 1][c]]
      BY <3>1 DEF RowsOf, RowNumbers, ColumnNumbers
    <3> QED
      BY <1>1, <2>1, <2>2, <3>2
  <2>3. CASE ~(r + 1 < Height)
    BY <1>1, <2>1, <2>3
  <2> QED
    BY <2>2, <2>3
<1>3. RowsOf(ShiftedUp(p)) = [r \in RowNumbers |-> RowsOf(ShiftedUp(p))[r]]
  BY DEF RowsOf, RowNumbers
<1> QED
  BY <1>2, <1>3

LEMMA BlankRows ==
  RowsOf(BlankPage) = [r \in RowNumbers |-> [c \in ColumnNumbers |-> Space]]
<1>1. ASSUME NEW r \in RowNumbers, NEW c \in ColumnNumbers
      PROVE  BlankPage[r * Width + c] = Space
  BY CellOf DEF BlankPage
<1>2. RowsOf(BlankPage)
        = [r \in RowNumbers |-> [c \in ColumnNumbers |-> BlankPage[r * Width + c]]]
  BY DEF RowsOf, RowNumbers, ColumnNumbers
<1> QED
  BY <1>1, <1>2

-----------------------------------------------------------------------------
(***************************************************************************)
(* What the page is: the screen when no loop is at work; when the cursor   *)
(* is on its way to a stop, the screen it will leave there.                *)
(***************************************************************************)
Shown == [i \in Cells |-> screen[i]]

\* The page p when the cursor has come to n, and where the cursor is then.
Landed(p, n) == IF n = Size THEN ShiftedUp(p) ELSE p
LandedAt(n) == IF n = Size THEN Size - Width ELSE n

\* While the page scrolls the cursor waits at the start of the last row, and the
\* blank loop has blanked what it has passed.
ScrollWaits ==
  /\ pc \in {"scroll", "blank"} => cursor = Size - Width
  /\ pc = "blank" => \A i \in (Size - Width)..(x - 1) : screen[i] = Space

LEMMA AtRest ==
  TypeOK /\ pc \in {"run", "getkey", "wait"}
    => page = Shown /\ CursorAhead = cursor
BY DEF page, Shown, Cells, Cell, CursorAhead, Scrolls

LEMMA OnTheWay ==
  TypeOK /\ pc = "move"
    => /\ page = Landed(Shown, NextStop(cursor, stop))
       /\ CursorAhead = LandedAt(NextStop(cursor, stop))
<1> SUFFICES ASSUME TypeOK, pc = "move"
             PROVE  /\ page = Landed(Shown, NextStop(cursor, stop))
                    /\ CursorAhead = LandedAt(NextStop(cursor, stop))
  OBVIOUS
<1>1. StopAhead = NextStop(cursor, stop) /\ (Scrolls <=> StopAhead = Size)
  BY DEF StopAhead, NextStop, Scrolls
<1>2. CASE Scrolls
  <2>1. ASSUME NEW i \in Cells
        PROVE  Cell(i) = IF i < Size - Width THEN Shown[i + Width] ELSE Space
    <3>1. i \in Int /\ i >= 0 /\ Size \in Nat /\ Width \in Nat
      BY SizeType DEF Cells
    <3>2. i < Size - Width => Shown[i + Width] = screen[i + Width]
      BY <3>1 DEF Shown, Cells
    <3> QED
      BY <1>2, <3>1, <3>2 DEF Cell
  <2>2. page = ShiftedUp(Shown)
    BY <2>1 DEF page, ShiftedUp, Cells
  <2> QED
    BY <1>1, <1>2, <2>2 DEF Landed, LandedAt, CursorAhead
<1>3. CASE ~Scrolls
  <2>1. page = Shown
    BY <1>3 DEF page, Shown, Cells, Cell
  <2> QED
    BY <1>1, <1>3, <2>1 DEF Landed, LandedAt, CursorAhead
<1> QED
  BY <1>2, <1>3

LEMMA ScrollBegins ==
  TypeOK /\ pc = "scroll" /\ x = 0
    => page = ShiftedUp(Shown) /\ CursorAhead = cursor
<1> SUFFICES ASSUME TypeOK, pc = "scroll", x = 0
             PROVE  page = ShiftedUp(Shown) /\ CursorAhead = cursor
  OBVIOUS
<1>1. ASSUME NEW i \in Cells
      PROVE  Cell(i) = IF i < Size - Width THEN Shown[i + Width] ELSE Space
  <2>1. i \in Int /\ i >= 0 /\ Size \in Nat /\ Width \in Nat
    BY SizeType DEF Cells
  <2>2. i < Size - Width => Shown[i + Width] = screen[i + Width]
    BY <2>1 DEF Shown, Cells
  <2> QED
    BY <2>1, <2>2 DEF Cell
<1>2. page = ShiftedUp(Shown)
  BY <1>1 DEF page, ShiftedUp, Cells
<1> QED
  BY <1>2 DEF CursorAhead

\* The same of the next state.
LEMMA AtRestNext ==
  TypeOK' /\ (pc \in {"run", "getkey", "wait"})'
    => (page = Shown /\ CursorAhead = cursor)'
BY AtRest, PTL

LEMMA OnTheWayNext ==
  TypeOK' /\ (pc = "move")'
    => (/\ page = Landed(Shown, NextStop(cursor, stop))
        /\ CursorAhead = LandedAt(NextStop(cursor, stop)))'
BY OnTheWay, PTL

LEMMA ScrollBeginsNext ==
  TypeOK' /\ (pc = "scroll" /\ x = 0)'
    => (page = ShiftedUp(Shown) /\ CursorAhead = cursor)'
BY ScrollBegins, PTL

-----------------------------------------------------------------------------
(* What happens to the page, said in the terminal's rows and columns *)

LEMMA PointType ==
  CursorAhead \in Cells
    => /\ pageRow \in RowNumbers /\ pageCol \in ColumnNumbers
       /\ CursorAhead = pageRow * Width + pageCol
BY RowAndColumn DEF pageRow, pageCol

LEMMA PointTypeNext ==
  (CursorAhead \in Cells)'
    => (/\ pageRow \in RowNumbers /\ pageCol \in ColumnNumbers
        /\ CursorAhead = pageRow * Width + pageCol)'
BY PointType, PTL

LEMMA PointIs ==
  ASSUME NEW r \in RowNumbers, NEW c \in ColumnNumbers,
         CursorAhead' = r * Width + c
  PROVE  pageRow' = r /\ pageCol' = c
BY CellFound DEF pageRow, pageCol

\* The cursor comes to the start of the row below.
LEMMA NextRowFollows ==
  ASSUME NEW p, CursorAhead \in Cells,
         page' = Landed(p, pageRow * Width + Width),
         CursorAhead' = LandedAt(pageRow * Width + Width)
  PROVE  T!NextRow(RowsOf(p))
<1>1. pageRow \in RowNumbers /\ pageRow \in Nat /\ pageRow < Height
      /\ 0 \in ColumnNumbers /\ Height \in Nat /\ Width \in Nat /\ Width > 0
      /\ Size \in Nat
  BY PointType, ConsoleAssumption, SizeType DEF RowNumbers, ColumnNumbers
<1>2. CASE pageRow + 1 < Height
  <2>1. /\ (pageRow + 1) * Width = pageRow * Width + Width
        /\ pageRow * Width + Width <= Size - Width /\ pageRow * Width \in Nat
    BY <1>1, <1>2, CellOf
  <2>2. pageRow * Width + Width # Size
    BY <1>1, <2>1
  <2>3. page' = p /\ CursorAhead' = (pageRow + 1) * Width
    BY <2>1, <2>2 DEF Landed, LandedAt
  <2>4. CursorAhead' = (pageRow + 1) * Width + 0 /\ pageRow + 1 \in RowNumbers
    BY <1>1, <1>2, <2>3 DEF RowNumbers
  <2>5. pageRow' = pageRow + 1 /\ pageCol' = 0
    BY <1>1, <2>4, PointIs
  <2>6. pageRows' = RowsOf(p)
    BY <2>3 DEF pageRows
  <2> QED
    BY <1>2, <2>5, <2>6 DEF T!NextRow
<1>3. CASE pageRow + 1 = Height
  <2>1. pageRow * Width = Size - Width /\ pageRow * Width \in Nat
    BY <1>1, <1>3, CellOf
  <2>2. page' = ShiftedUp(p) /\ CursorAhead' = pageRow * Width + 0
    BY <1>1, <2>1 DEF Landed, LandedAt
  <2>3. pageRow' = pageRow /\ pageCol' = 0
    BY <1>1, <2>2, PointIs
  <2>4. pageRows' = RowsOf(ShiftedUp(p))
    BY <2>2 DEF pageRows
  <2>5. pageRows' = [r \in T!Rows |-> IF r + 1 < Height THEN RowsOf(p)[r + 1]
                                      ELSE T!BlankRow]
    BY <2>4, ShiftedRows
    DEF T!Rows, T!BlankRow, T!Columns, RowNumbers, ColumnNumbers
  <2> QED
    BY <1>3, <2>3, <2>5 DEF T!NextRow
<1> QED
  BY <1>1, <1>2, <1>3

LEMMA TypeFollows ==
  ASSUME NEW c \in Chars, CursorAhead \in Cells, page \in [Cells -> Chars],
         page' = Landed([page EXCEPT ![CursorAhead] = c], CursorAhead + 1),
         CursorAhead' = LandedAt(CursorAhead + 1), line' = line
  PROVE  T!Type(c)
<1> DEFINE p == [page EXCEPT ![CursorAhead] = c]
<1>1. pageRow \in RowNumbers /\ pageCol \in ColumnNumbers
      /\ CursorAhead = pageRow * Width + pageCol
  BY PointType
<1>2. RowsOf(p) = [pageRows EXCEPT ![pageRow][pageCol] = c]
  <2>1. RowsOf(Written(page, pageRow, pageCol, c))
          = WrittenInRow(RowsOf(page), pageRow, pageCol, c)
    BY <1>1, WrittenRows
  <2>2. Written(page, pageRow, pageCol, c) = p
    BY <1>1 DEF Written
  <2> QED
    BY <2>1, <2>2 DEF pageRows, WrittenInRow
<1>3. page' = Landed(p, CursorAhead + 1)
  OBVIOUS
<1> HIDE DEF p
<1>4. pageRow * Width \in Nat /\ pageCol \in Nat /\ Width \in Nat /\ Size \in Nat
      /\ pageCol < Width
  BY <1>1, CellOf, SizeType DEF ColumnNumbers
<1>5. CASE pageCol + 1 < Width
  <2>1. pageCol + 1 \in ColumnNumbers
        /\ CursorAhead + 1 = pageRow * Width + (pageCol + 1)
    BY <1>1, <1>4, <1>5 DEF ColumnNumbers
  <2>2. CursorAhead + 1 \in Cells
    BY <1>1, <2>1, CellOf
  <2>3. CursorAhead + 1 # Size
    BY <1>4, <2>2 DEF Cells
  <2>4. page' = p /\ CursorAhead' = pageRow * Width + (pageCol + 1)
    BY <1>3, <2>1, <2>3 DEF Landed, LandedAt
  <2>5. pageRow' = pageRow /\ pageCol' = pageCol + 1
    BY <1>1, <2>1, <2>4, PointIs
  <2>6. pageRows' = [pageRows EXCEPT ![pageRow][pageCol] = c]
    BY <1>2, <2>4 DEF pageRows
  <2> QED
    BY <1>5, <2>5, <2>6 DEF T!Type
<1>6. CASE pageCol + 1 = Width
  <2>1. CursorAhead + 1 = pageRow * Width + Width
    BY <1>1, <1>4, <1>6
  <2>2. T!NextRow(RowsOf(p))
    BY <1>3, <2>1, NextRowFollows
  <2>3. T!NextRow([pageRows EXCEPT ![pageRow][pageCol] = c])
    BY <1>2, <2>2
  <2> QED
    BY <1>6, <2>3 DEF T!Type
<1> QED
  BY <1>4, <1>5, <1>6

LEMMA ToStopFollows ==
  ASSUME NEW s \in {1, Tab, Width}, CursorAhead \in Cells,
         page' = Landed(page, NextStop(CursorAhead, s)),
         CursorAhead' = LandedAt(NextStop(CursorAhead, s))
  PROVE  T!ToStop(s)
<1> DEFINE next == NextStop(pageCol, s)
<1>1. pageRow \in RowNumbers /\ pageCol \in ColumnNumbers
      /\ CursorAhead = pageRow * Width + pageCol
  BY PointType
<1>2. NextStop(CursorAhead, s) = pageRow * Width + next /\ next \in 1..Width
  BY <1>1, StopInRow
<1>3. next = (pageCol \div s + 1) * s
  BY DEF NextStop
<1> HIDE DEF next
<1>4. pageRow * Width \in Nat /\ Width \in Nat /\ Size \in Nat
  BY <1>1, CellOf, SizeType
<1>5. CASE next < Width
  <2>1. next \in ColumnNumbers
    BY <1>2, <1>4, <1>5 DEF ColumnNumbers
  <2>2. pageRow * Width + next \in Cells
    BY <1>1, <2>1, CellOf
  <2>3. pageRow * Width + next # Size
    BY <1>4, <2>2 DEF Cells
  <2>4. page' = page /\ CursorAhead' = pageRow * Width + next
    BY <1>2, <2>3 DEF Landed, LandedAt
  <2>5. pageRow' = pageRow /\ pageCol' = next
    BY <1>1, <2>1, <2>4, PointIs
  <2>6. pageRows' = pageRows
    BY <2>4 DEF pageRows
  <2> QED
    BY <1>3, <1>5, <2>5, <2>6 DEF T!ToStop
<1>6. CASE next = Width
  <2>1. T!NextRow(RowsOf(page))
    BY <1>2, <1>6, NextRowFollows
  <2>2. T!NextRow(pageRows)
    BY <2>1 DEF pageRows
  <2>3. next >= Width
    BY <1>4, <1>6
  <2> QED
    BY <1>3, <2>2, <2>3 DEF T!ToStop
<1> QED
  BY <1>2, <1>4, <1>5, <1>6

LEMMA ClearFollows ==
  ASSUME page' = BlankPage, CursorAhead' = 0, line' = line
  PROVE  T!Clear
<1>1. 0 \in RowNumbers /\ 0 \in ColumnNumbers /\ 0 * Width + 0 = 0
  BY ConsoleAssumption DEF RowNumbers, ColumnNumbers
<1>2. pageRow' = 0 /\ pageCol' = 0
  BY <1>1, PointIs
<1>3. pageRows' = [r \in T!Rows |-> T!BlankRow]
  BY BlankRows
  DEF pageRows, T!Rows, T!BlankRow, T!Columns, RowNumbers, ColumnNumbers
<1> QED
  BY <1>2, <1>3 DEF T!Clear

\* The cursor keys: one cell on or back along the page, or one row of cells.
LEMMA LeftFollows ==
  ASSUME CursorAhead \in Cells, CursorAhead' = (CursorAhead - 1) % Size
  PROVE  T!Left
<1> DEFINE a == CursorAhead
           r == pageRow
           c == pageCol
<1>1. r \in RowNumbers /\ c \in ColumnNumbers /\ a = r * Width + c
  BY PointType
<1>2. /\ r \in Nat /\ r < Height /\ c \in Nat /\ c < Width /\ a \in Nat /\ a < Size
      /\ Width \in Nat \ {0} /\ Height \in Nat \ {0} /\ Size \in Nat \ {0}
      /\ r * Width \in Nat
  BY <1>1, CellOf, SizeType, ConsoleAssumption
  DEF RowNumbers, ColumnNumbers, Cells
<1>3. CursorAhead' = (a - 1) % Size
  OBVIOUS
<1> HIDE DEF a, r, c
<1>4. CASE c # 0
  <2>1. a - 1 \in 0..(Size - 1) /\ c - 1 \in 0..(Width - 1)
    BY <1>1, <1>2, <1>4
  <2>2. (a - 1) % Size = a - 1 /\ ((c - 1) + Width) % Width = c - 1
    BY <1>2, <2>1, WrapAround
  <2>3. CursorAhead' = r * Width + (c - 1) /\ c - 1 \in ColumnNumbers
    BY <1>1, <1>2, <1>3, <2>1, <2>2 DEF ColumnNumbers
  <2>4. pageRow' = r /\ pageCol' = c - 1
    BY <1>1, <2>3, PointIs
  <2>5. (c + Width - 1) % Width = c - 1
    <3>1. c + Width - 1 = (c - 1) + Width
      BY <1>2
    <3> QED
      BY <2>2, <3>1
  <2> QED
    BY <1>4, <2>4, <2>5 DEF T!Left, r, c
<1>5. CASE c = 0
  <2>1. Width - 1 \in 0..(Width - 1) /\ Width - 1 \in ColumnNumbers
    BY <1>2 DEF ColumnNumbers
  <2>2. (Width - 1) % Width = Width - 1 /\ c + Width - 1 = Width - 1
    BY <1>2, <1>5, <2>1, WrapAround
  <2>3. CASE r # 0
    <3>1. r - 1 \in RowNumbers /\ r - 1 \in 0..(Height - 1)
      BY <1>2, <2>3 DEF RowNumbers
    <3>2. r * Width = (r - 1) * Width + Width /\ (r - 1) * Width \in Nat
      <4>1. (r - 1) + 1 = r
        BY <1>2
      <4> QED
        BY <2>1, <3>1, <4>1, CellOf
    <3>3. a - 1 \in 0..(Size - 1)
      BY <1>1, <1>2, <1>5, <3>2
    <3>4. (a - 1) % Size = a - 1 /\ ((r - 1) + Height) % Height = r - 1
      BY <1>2, <3>1, <3>3, WrapAround
    <3>5. CursorAhead' = (r - 1) * Width + (Width - 1)
      BY <1>1, <1>2, <1>3, <1>5, <3>2, <3>4
    <3>6. pageRow' = r - 1 /\ pageCol' = Width - 1
      BY <2>1, <3>1, <3>5, PointIs
    <3>7. (r + Height - 1) % Height = r - 1
      <4>1. r + Height - 1 = (r - 1) + Height
        BY <1>2
      <4> QED
        BY <3>4, <4>1
    <3> QED
      BY <1>5, <2>2, <3>6, <3>7 DEF T!Left, r, c
  <2>4. CASE r = 0
    <3>1. a = 0 /\ Size - 1 \in 0..(Size - 1)
      BY <1>1, <1>2, <1>5, <2>4
    <3>2. ((Size - 1) - Size) % Size = Size - 1
      BY <1>2, <3>1, WrapAround
    <3>3. (a - 1) % Size = Size - 1
      <4>1. a - 1 = (Size - 1) - Size
        BY <1>2, <3>1
      <4> QED
        BY <3>2, <4>1
    <3>4. Height - 1 \in RowNumbers /\ Height - 1 \in 0..(Height - 1)
      BY <1>2 DEF RowNumbers
    <3>5. (Height - 1) * Width = Size - Width
      <4>1. (Height - 1) + 1 = Height
        BY <1>2
      <4> QED
        BY <2>1, <3>4, <4>1, CellOf
    <3>6. CursorAhead' = (Height - 1) * Width + (Width - 1)
      BY <1>2, <1>3, <3>3, <3>5
    <3>7. pageRow' = Height - 1 /\ pageCol' = Width - 1
      BY <2>1, <3>4, <3>6, PointIs
    <3>8. (r + Height - 1) % Height = Height - 1
      <4>1. r + Height - 1 = Height - 1
        BY <1>2, <2>4
      <4>2. (Height - 1) % Height = Height - 1
        BY <1>2, <3>4, WrapAround
      <4> QED
        BY <4>1, <4>2
    <3> QED
      BY <1>5, <2>2, <3>7, <3>8 DEF T!Left, r, c
  <2> QED
    BY <2>3, <2>4
<1> QED
  BY <1>4, <1>5

LEMMA RightFollows ==
  ASSUME CursorAhead \in Cells, CursorAhead' = (CursorAhead + 1) % Size
  PROVE  T!Right
<1> DEFINE a == CursorAhead
           r == pageRow
           c == pageCol
<1>1. r \in RowNumbers /\ c \in ColumnNumbers /\ a = r * Width + c
  BY PointType
<1>2. /\ r \in Nat /\ r < Height /\ c \in Nat /\ c < Width /\ a \in Nat /\ a < Size
      /\ Width \in Nat \ {0} /\ Height \in Nat \ {0} /\ Size \in Nat \ {0}
      /\ r * Width \in Nat
  BY <1>1, CellOf, SizeType, ConsoleAssumption
  DEF RowNumbers, ColumnNumbers, Cells
<1>3. CursorAhead' = (a + 1) % Size
  OBVIOUS
<1>4. 0 \in RowNumbers /\ 0 \in ColumnNumbers /\ 0 \in 0..(Height - 1)
      /\ 0 \in 0..(Width - 1) /\ 0 \in 0..(Size - 1)
  BY <1>2 DEF RowNumbers, ColumnNumbers
<1> HIDE DEF a, r, c
<1>5. CASE c + 1 # Width
  <2>1. c + 1 \in ColumnNumbers /\ c + 1 \in 0..(Width - 1)
    BY <1>2, <1>5 DEF ColumnNumbers
  <2>2. r * Width + (c + 1) \in Cells /\ r * Width + (c + 1) = a + 1
    BY <1>1, <1>2, <2>1, CellOf
  <2>3. a + 1 \in 0..(Size - 1)
    BY <2>2 DEF Cells
  <2>4. (a + 1) % Size = a + 1 /\ (c + 1) % Width = c + 1
    BY <1>2, <2>1, <2>3, WrapAround
  <2>5. CursorAhead' = r * Width + (c + 1)
    BY <1>3, <2>2, <2>4
  <2>6. pageRow' = r /\ pageCol' = c + 1
    BY <1>1, <2>1, <2>5, PointIs
  <2> QED
    BY <1>5, <2>4, <2>6 DEF T!Right, r, c
<1>6. CASE c + 1 = Width
  <2>1. (0 + Width) % Width = 0 /\ (0 + Height) % Height = 0 /\ (0 + Size) % Size = 0
    BY <1>2, <1>4, WrapAround
  <2>2. (c + 1) % Width = 0
    <3>1. c + 1 = 0 + Width
      BY <1>2, <1>6
    <3> QED
      BY <2>1, <3>1
  <2>3. CASE r + 1 # Height
    <3>1. r + 1 \in RowNumbers /\ r + 1 \in 0..(Height - 1)
      BY <1>2, <2>3 DEF RowNumbers
    <3>2. (r + 1) * Width = r * Width + Width
      BY <1>1, CellOf
    <3>3. a + 1 = (r + 1) * Width + 0 /\ (r + 1) * Width + 0 \in Cells
      BY <1>1, <1>2, <1>4, <1>6, <3>1, <3>2, CellOf
    <3>4. a + 1 \in 0..(Size - 1)
      BY <3>3 DEF Cells
    <3>5. (a + 1) % Size = a + 1 /\ (r + 1) % Height = r + 1
      BY <1>2, <3>1, <3>4, WrapAround
    <3>6. CursorAhead' = (r + 1) * Width + 0
      BY <1>3, <3>3, <3>5
    <3>7. pageRow' = r + 1 /\ pageCol' = 0
      BY <1>4, <3>1, <3>6, PointIs
    <3> QED
      BY <1>6, <2>2, <3>5, <3>7 DEF T!Right, r, c
  <2>4. CASE r + 1 = Height
    <3>1. r * Width = Size - Width
      BY <1>1, <2>4, CellOf
    <3>2. a + 1 = 0 + Size
      BY <1>1, <1>2, <1>6, <3>1
    <3>3. CursorAhead' = 0 * Width + 0
      BY <1>2, <1>3, <2>1, <3>2
    <3>4. pageRow' = 0 /\ pageCol' = 0
      BY <1>4, <3>3, PointIs
    <3>5. (r + 1) % Height = 0
      <4>1. r + 1 = 0 + Height
        BY <1>2, <2>4
      <4> QED
        BY <2>1, <4>1
    <3> QED
      BY <1>6, <2>2, <3>4, <3>5 DEF T!Right, r, c
  <2> QED
    BY <2>3, <2>4
<1> QED
  BY <1>5, <1>6

LEMMA UpFollows ==
  ASSUME CursorAhead \in Cells, CursorAhead' = (CursorAhead - Width) % Size
  PROVE  T!Up
<1> DEFINE a == CursorAhead
           r == pageRow
           c == pageCol
<1>1. r \in RowNumbers /\ c \in ColumnNumbers /\ a = r * Width + c
  BY PointType
<1>2. /\ r \in Nat /\ r < Height /\ c \in Nat /\ c < Width /\ a \in Nat /\ a < Size
      /\ Width \in Nat \ {0} /\ Height \in Nat \ {0} /\ Size \in Nat \ {0}
      /\ r * Width \in Nat
  BY <1>1, CellOf, SizeType, ConsoleAssumption
  DEF RowNumbers, ColumnNumbers, Cells
<1>3. CursorAhead' = (a - Width) % Size
  OBVIOUS
<1> HIDE DEF a, r, c
<1>4. CASE r # 0
  <2>1. r - 1 \in RowNumbers /\ r - 1 \in 0..(Height - 1)
    BY <1>2, <1>4 DEF RowNumbers
  <2>2. r * Width = (r - 1) * Width + Width
    <3>1. (r - 1) + 1 = r
      BY <1>2
    <3> QED
      BY <1>1, <2>1, <3>1, CellOf
  <2>3. (r - 1) * Width + c \in Cells /\ (r - 1) * Width \in Nat
    BY <1>1, <2>1, CellOf
  <2>4. a - Width = (r - 1) * Width + c
    BY <1>1, <1>2, <2>2, <2>3
  <2>5. a - Width \in 0..(Size - 1)
    BY <2>3, <2>4 DEF Cells
  <2>6. (a - Width) % Size = a - Width /\ ((r - 1) + Height) % Height = r - 1
    BY <1>2, <2>1, <2>5, WrapAround
  <2>7. CursorAhead' = (r - 1) * Width + c
    BY <1>3, <2>4, <2>6
  <2>8. pageRow' = r - 1 /\ pageCol' = c
    BY <1>1, <2>1, <2>7, PointIs
  <2>9. (r + Height - 1) % Height = r - 1
    <3>1. r + Height - 1 = (r - 1) + Height
      BY <1>2
    <3> QED
      BY <2>6, <3>1
  <2> QED
    BY <2>8, <2>9 DEF T!Up, r, c
<1>5. CASE r = 0
  <2>1. Height - 1 \in RowNumbers /\ Height - 1 \in 0..(Height - 1)
    BY <1>2 DEF RowNumbers
  <2>2. (Height - 1) * Width = Size - Width
    <3>1. (Height - 1) + 1 = Height
      BY <1>2
    <3> QED
      BY <1>1, <2>1, <3>1, CellOf
  <2>3. (Height - 1) * Width + c \in Cells
    BY <1>1, <2>1, CellOf
  <2> DEFINE j == (Height - 1) * Width + c
  <2>4. j \in 0..(Size - 1) /\ j = (Height - 1) * Width + c
    BY <2>3 DEF Cells
  <2> HIDE DEF j
  <2>5. a - Width = j - Size
    BY <1>1, <1>2, <1>5, <2>2, <2>4
  <2>6. (j - Size) % Size = j /\ (Height - 1) % Height = Height - 1
    BY <1>2, <2>1, <2>4, WrapAround
  <2>7. CursorAhead' = (Height - 1) * Width + c
    BY <1>3, <2>4, <2>5, <2>6
  <2>8. pageRow' = Height - 1 /\ pageCol' = c
    BY <1>1, <2>1, <2>7, PointIs
  <2>9. (r + Height - 1) % Height = Height - 1
    <3>1. r + Height - 1 = Height - 1
      BY <1>2, <1>5
    <3> QED
      BY <2>6, <3>1
  <2> QED
    BY <2>8, <2>9 DEF T!Up, r, c
<1> QED
  BY <1>4, <1>5

LEMMA DownFollows ==
  ASSUME CursorAhead \in Cells, CursorAhead' = (CursorAhead + Width) % Size
  PROVE  T!Down
<1> DEFINE a == CursorAhead
           r == pageRow
           c == pageCol
<1>1. r \in RowNumbers /\ c \in ColumnNumbers /\ a = r * Width + c
  BY PointType
<1>2. /\ r \in Nat /\ r < Height /\ c \in Nat /\ c < Width /\ a \in Nat /\ a < Size
      /\ Width \in Nat \ {0} /\ Height \in Nat \ {0} /\ Size \in Nat \ {0}
      /\ r * Width \in Nat
  BY <1>1, CellOf, SizeType, ConsoleAssumption
  DEF RowNumbers, ColumnNumbers, Cells
<1>3. CursorAhead' = (a + Width) % Size
  OBVIOUS
<1> HIDE DEF a, r, c
<1>4. CASE r + 1 # Height
  <2>1. r + 1 \in RowNumbers /\ r + 1 \in 0..(Height - 1)
    BY <1>2, <1>4 DEF RowNumbers
  <2>2. (r + 1) * Width = r * Width + Width
    BY <1>1, CellOf
  <2>3. (r + 1) * Width + c \in Cells
    BY <1>1, <2>1, CellOf
  <2>4. a + Width = (r + 1) * Width + c
    BY <1>1, <1>2, <2>2
  <2>5. a + Width \in 0..(Size - 1)
    BY <2>3, <2>4 DEF Cells
  <2>6. (a + Width) % Size = a + Width /\ (r + 1) % Height = r + 1
    BY <1>2, <2>1, <2>5, WrapAround
  <2>7. CursorAhead' = (r + 1) * Width + c
    BY <1>3, <2>4, <2>6
  <2>8. pageRow' = r + 1 /\ pageCol' = c
    BY <1>1, <2>1, <2>7, PointIs
  <2> QED
    BY <2>6, <2>8 DEF T!Down, r, c
<1>5. CASE r + 1 = Height
  <2>1. 0 \in RowNumbers /\ 0 \in 0..(Height - 1) /\ c \in 0..(Size - 1)
    BY <1>1, <1>2 DEF RowNumbers
  <2>2. r * Width = Size - Width
    BY <1>1, <1>5, CellOf
  <2>3. a + Width = c + Size
    BY <1>1, <1>2, <2>2
  <2>4. (c + Size) % Size = c /\ (0 + Height) % Height = 0
    BY <1>2, <2>1, WrapAround
  <2>5. CursorAhead' = 0 * Width + c
    BY <1>2, <1>3, <2>3, <2>4
  <2>6. pageRow' = 0 /\ pageCol' = c
    BY <1>1, <2>1, <2>5, PointIs
  <2>7. (r + 1) % Height = 0
    <3>1. r + 1 = 0 + Height
      BY <1>2, <1>5
    <3> QED
      BY <2>4, <3>1
  <2> QED
    BY <2>6, <2>7 DEF T!Down, r, c
<1> QED
  BY <1>4, <1>5

\* HWBackSpace: back by one cell, which is blanked.
LEMMA EraseFollows ==
  ASSUME CursorAhead \in Cells, CursorAhead # 0, page \in [Cells -> Chars],
         CursorAhead' = CursorAhead - 1,
         page' = [page EXCEPT ![CursorAhead - 1] = Space], line' = line
  PROVE  T!Erase
<1>1. CursorAhead \in Nat /\ CursorAhead - 1 \in 0..(Size - 1) /\ Size \in Nat \ {0}
  BY SizeType DEF Cells
<1>2. (CursorAhead - 1) % Size = CursorAhead - 1
  BY <1>1, WrapAround
<1>3. T!Left
  BY <1>2, LeftFollows
<1>4. <<pageRow, pageCol>> # <<0, 0>>
  <2> SUFFICES ASSUME pageRow = 0, pageCol = 0 PROVE FALSE
    OBVIOUS
  <2>1. CursorAhead = 0 * Width + 0
    BY PointType
  <2> QED
    BY <2>1, SizeType
<1>5. pageRow' \in RowNumbers /\ pageCol' \in ColumnNumbers
      /\ CursorAhead' = pageRow' * Width + pageCol'
  <2>1. CursorAhead' \in Cells
    BY <1>1 DEF Cells
  <2> QED
    BY <2>1, PointTypeNext
<1>6. RowsOf(Written(page, pageRow', pageCol', Space))
        = WrittenInRow(RowsOf(page), pageRow', pageCol', Space)
  BY <1>5, WrittenRows
<1>7. page' = Written(page, pageRow', pageCol', Space)
  BY <1>5 DEF Written
<1>8. pageRows' = [pageRows EXCEPT ![pageRow'][pageCol'] = Space]
  BY <1>6, <1>7 DEF pageRows, WrittenInRow
<1> QED
  BY <1>3, <1>4, <1>8 DEF T!Erase

-----------------------------------------------------------------------------
(* While the page scrolls *)

LEMMA PrintCharWaits ==
  ASSUME TypeOK, NEW c, NEW back \in {"run", "getkey"}, NEW step,
         PrintChar(c, back, step)
  PROVE  ScrollWaits'
<1>1. cursor \in 0..(Size - 1)
  BY DEF TypeOK
<1>2. CASE cursor + 1 = Size
  BY <1>1, <1>2, SizeType DEF PrintChar, ScrollWaits
<1>3. CASE cursor + 1 # Size
  BY <1>3 DEF PrintChar, Moved, ScrollWaits
<1> QED
  BY <1>2, <1>3

LEMMA ScrollWaitsStep == IInv /\ ScrollWaits /\ [Next]_vars => ScrollWaits'
<1> SUFFICES ASSUME IInv, ScrollWaits, [Next]_vars PROVE ScrollWaits'
  OBVIOUS
<1>1. TypeOK
  BY DEF IInv
<1>2. CASE UNCHANGED vars
  BY <1>2 DEF vars, display, loop, ScrollWaits
<1>3. CASE Scroll
  <2>1. cursor' = cursor /\ cursor = Size - Width
    BY <1>3 DEF Scroll, ScrollWaits
  <2>2. pc' = "blank" => x' = Size - Width
    BY <1>3 DEF Scroll
  <2> QED
    BY <2>1, <2>2, SizeType DEF ScrollWaits
<1>4. CASE Blank
  <2>1. /\ cursor' = cursor /\ cursor = Size - Width /\ x' = x + 2
        /\ screen' = [screen EXCEPT ![x] = Space, ![x + 1] = Space]
    BY <1>4 DEF Blank, ScrollWaits
  <2>2. x \in (Size - Width)..(Size - 1) /\ screen \in [Memory -> Chars]
        /\ \A i \in (Size - Width)..(x - 1) : screen[i] = Space
    BY <1>1, <1>4 DEF Blank, TypeOK, ScrollWaits
  <2>3. pc' = "blank" => x' \in (Size - Width)..(Size - 1)
    <3>1. TypeOK'
      BY NextIInv DEF IInv
    <3> QED
      BY <3>1 DEF TypeOK
  <2>4. ASSUME pc' = "blank"
        PROVE  \A i \in (Size - Width)..(x + 1) : screen'[i] = Space
    <3>1. x + 1 < Size
      BY <2>1, <2>2, <2>3, <2>4, SizeType
    <3>2. \A i \in (Size - Width)..(x + 1) :
            /\ i \in Memory
            /\ i \in (Size - Width)..(x - 1) \/ i = x \/ i = x + 1
      BY <2>2, <3>1, SizeType DEF Memory
    <3> QED
      BY <2>1, <2>2, <3>2
  <2>5. x' - 1 = x + 1
    BY <2>1, <2>2, SizeType
  <2> QED
    BY <2>1, <2>4, <2>5 DEF ScrollWaits
<1>5. CASE MoveCursor
  BY <1>1, <1>5, PrintCharWaits DEF MoveCursor, TypeOK
<1>6. CASE GetKey \/ InputLine
  BY <1>6 DEF GetKey, InputLine, ScrollWaits
<1>7. CASE User \/ Frame
  BY <1>7 DEF User, Press, Release, Frame, FrameShows, FrameShowsNone, ScrollWaits, display, loop
<1>8. CASE Output
  <2>1. CASE \E c \in Chars : PrintChar(c, "run", 1)
    BY <1>1, <2>1, PrintCharWaits
  <2>2. CASE MoveTo(Width, "run") \/ MoveTo(Tab, "run")
    BY <2>2 DEF MoveTo, ScrollWaits
  <2>3. CASE ClearScreen /\ UNCHANGED loop
    BY <1>8, <2>3 DEF Output, loop, ScrollWaits
  <2> QED
    BY <1>8, <2>1, <2>2, <2>3 DEF Output
<1>9. CASE WaitKey
  <2>1. CASE TypeKey(port)
    BY <1>1, <2>1, PrintCharWaits DEF TypeKey
  <2>2. CASE TabKey(port) \/ ReturnKey(port)
    BY <2>2 DEF TabKey, ReturnKey, MoveTo, ScrollWaits
  <2>3. CASE EditKey(port)
    BY <2>3 DEF EditKey, ScrollWaits
  <2> QED
    BY <1>9, <2>1, <2>2, <2>3 DEF WaitKey
<1> QED
  BY <1>2, <1>3, <1>4, <1>5, <1>6, <1>7, <1>8, <1>9
  DEF Next, Console, Program

LEMMA ScrollWaitsInvariant == Spec => []ScrollWaits
<1>1. Init => ScrollWaits
  BY DEF Init, ScrollWaits
<1> QED
  BY <1>1, ScrollWaitsStep, Invariance, PTL DEF Spec

-----------------------------------------------------------------------------
(* The page through each step *)

SamePage == page' = page /\ CursorAhead' = CursorAhead

LEMMA ShownType == TypeOK => Shown \in [Cells -> Chars] /\ cursor \in Cells
BY MemoryType DEF TypeOK, Shown, Cells

LEMMA PrintCharPage ==
  ASSUME TypeOK, TypeOK', pc \in {"run", "wait"},
         NEW c \in Chars, NEW back \in {"run", "getkey"}, PrintChar(c, back, 1)
  PROVE  /\ CursorAhead \in Cells /\ page \in [Cells -> Chars]
         /\ page' = Landed([page EXCEPT ![CursorAhead] = c], CursorAhead + 1)
         /\ CursorAhead' = LandedAt(CursorAhead + 1)
<1>1. page = Shown /\ CursorAhead = cursor
  BY AtRest
<1>2. Shown \in [Cells -> Chars] /\ cursor \in Cells /\ screen \in [Memory -> Chars]
  BY ShownType DEF TypeOK
<1>3. Shown' = [Shown EXCEPT ![cursor] = c]
  <2>1. screen' = [screen EXCEPT ![cursor] = c]
    BY ConsoleAssumption DEF PrintChar
  <2>2. \A i \in Cells : i \in Memory
    BY MemoryType DEF Cells
  <2> QED
    BY <1>2, <2>1, <2>2 DEF Shown
<1>4. CASE cursor + 1 = Size
  <2>1. pc' = "scroll" /\ x' = 0 /\ cursor' = Size - Width
    BY <1>2, <1>4, SizeType DEF PrintChar, Cells
  <2>2. page' = ShiftedUp(Shown') /\ CursorAhead' = cursor'
    BY <2>1, ScrollBeginsNext DEF ShiftedUp, Cells, Size
  <2> QED
    BY <1>1, <1>2, <1>3, <1>4, <2>1, <2>2 DEF Landed, LandedAt
<1>5. CASE cursor + 1 # Size
  <2>1. cursor' = cursor + 1 /\ pc' = Moved(cursor + 1, back, 1)
    BY <1>5 DEF PrintChar
  <2>2. (cursor + 1) % 1 = 0
    BY <1>2, SizeType DEF Cells
  <2>3. pc' = back
    BY <2>1, <2>2 DEF Moved
  <2>4. page' = Shown' /\ CursorAhead' = cursor'
    BY <2>3, AtRestNext
  <2> QED
    BY <1>1, <1>2, <1>3, <1>5, <2>1, <2>4 DEF Landed, LandedAt
<1> QED
  BY <1>4, <1>5

LEMMA MoveToPage ==
  ASSUME TypeOK, TypeOK', pc \in {"run", "wait"},
         NEW s \in {1, Tab, Width}, NEW back, MoveTo(s, back)
  PROVE  /\ CursorAhead \in Cells
         /\ page' = Landed(page, NextStop(CursorAhead, s))
         /\ CursorAhead' = LandedAt(NextStop(CursorAhead, s))
<1>1. page = Shown /\ CursorAhead = cursor /\ cursor \in Cells
  BY AtRest, ShownType
<1>2. pc' = "move" /\ stop' = s /\ cursor' = cursor /\ Shown' = Shown
  BY DEF MoveTo, display, Shown
<1>3. /\ page' = Landed(Shown, NextStop(cursor, stop))'
      /\ CursorAhead' = LandedAt(NextStop(cursor, stop))'
  BY <1>2, OnTheWayNext
<1>4. NextStop(cursor, stop)' = NextStop(cursor, s)
  BY <1>2 DEF NextStop
<1>5. /\ page' = Landed(Shown, NextStop(cursor, s))
      /\ CursorAhead' = LandedAt(NextStop(cursor, s))
  BY <1>2, <1>3, <1>4 DEF Landed, LandedAt, ShiftedUp, Cells, Size
<1> QED
  BY <1>1, <1>5

\* HWMoveCursor's loop changes nothing that can be seen when it is done.
LEMMA MoveCursorPage ==
  ASSUME TypeOK, TypeOK', MoveCursor
  PROVE  SamePage
<1> DEFINE n == NextStop(cursor, stop)
<1>1. /\ cursor \in Cells /\ stop \in {1, Tab, Width} /\ caller \in {"run", "getkey"}
      /\ Shown \in [Cells -> Chars] /\ Size \in Nat
  BY ShownType, SizeType DEF TypeOK
<1>2. page = Landed(Shown, n) /\ CursorAhead = LandedAt(n)
  BY OnTheWay DEF MoveCursor
<1>3. /\ n \in (cursor + 1)..Size
      /\ cursor + 1 = Size => n = Size
      /\ (cursor + 1) % stop = 0 => n = cursor + 1
      /\ (cursor + 1) % stop # 0 => NextStop(cursor + 1, stop) = n
  BY <1>1, StopAheadOfCell
<1>4. PrintChar(None, caller, stop) /\ screen' = screen /\ Shown' = Shown
      /\ stop' = stop
  BY DEF MoveCursor, PrintChar, Shown
<1> HIDE DEF n
<1>5. CASE cursor + 1 = Size
  <2>1. pc' = "scroll" /\ x' = 0 /\ cursor' = Size - Width
    BY <1>1, <1>4, <1>5, SizeType DEF PrintChar, Cells
  <2>2. page' = ShiftedUp(Shown)' /\ CursorAhead' = cursor'
    BY <2>1, ScrollBeginsNext
  <2>3. page' = ShiftedUp(Shown)
    BY <1>4, <2>2 DEF ShiftedUp, Cells, Size
  <2> QED
    BY <1>2, <1>3, <1>5, <2>1, <2>2, <2>3 DEF Landed, LandedAt, SamePage
<1>6. CASE cursor + 1 # Size
  <2>1. cursor' = cursor + 1 /\ pc' = Moved(cursor + 1, caller, stop)
    BY <1>4, <1>6 DEF PrintChar
  <2>2. CASE (cursor + 1) % stop = 0
    <3>1. pc' = caller
      BY <2>1, <2>2 DEF Moved
    <3>2. page' = Shown /\ CursorAhead' = cursor + 1
      BY <1>1, <1>4, <2>1, <3>1, AtRestNext
    <3> QED
      BY <1>2, <1>3, <1>6, <2>2, <3>2 DEF Landed, LandedAt, SamePage
  <2>3. CASE (cursor + 1) % stop # 0
    <3>1. pc' = "move"
      BY <2>1, <2>3 DEF Moved
    <3>2. /\ page' = Landed(Shown, NextStop(cursor, stop))'
          /\ CursorAhead' = LandedAt(NextStop(cursor, stop))'
      BY <3>1, OnTheWayNext
    <3>3. NextStop(cursor, stop)' = n
      BY <1>3, <1>4, <2>1, <2>3 DEF NextStop
    <3>4. page' = Landed(Shown, n) /\ CursorAhead' = LandedAt(n)
      BY <1>4, <3>2, <3>3 DEF Landed, LandedAt, ShiftedUp, Cells, Size
    <3> QED
      BY <1>2, <3>4 DEF SamePage
  <2> QED
    BY <2>2, <2>3
<1> QED
  BY <1>5, <1>6

\* The scroll loop copies what the page showed already.
LEMMA ScrollPage ==
  ASSUME TypeOK, TypeOK', Scroll
  PROVE  SamePage
<1>1. /\ screen \in [Memory -> Chars] /\ x \in 0..(Size - 1) /\ pc = "scroll"
      /\ cursor' = cursor /\ Size \in Nat /\ Width \in Nat /\ Width >= 2
      /\ Size >= Width
  BY SizeType DEF TypeOK, Scroll
<1>2. x + 1 \in 0..(Size - 1)
  <2>1. x % 2 = 0
    BY DEF TypeOK
  <2> QED
    BY <1>1, <2>1, WordType
<1>3. /\ screen' = [screen EXCEPT ![x] = screen[x + Width],
                                  ![x + 1] = screen[x + 1 + Width]]
      /\ IF x + 2 = Size THEN pc' = "blank" ELSE pc' = "scroll" /\ x' = x + 2
  BY <1>1 DEF Scroll
<1>4. ASSUME NEW i \in Cells PROVE Cell(i)' = Cell(i)
  <2>1. i \in Nat /\ i < Size /\ i \in Memory
    BY MemoryType, SizeType DEF Cells
  <2>2. CASE i >= Size - Width
    BY <1>1, <1>3, <2>2 DEF Cell
  <2>3. CASE i < Size - Width
    <3>1. i + Width \in Memory /\ i + Width < Size
      BY <1>1, <2>1, <2>3 DEF Memory
    <3>2. CASE i < x
      <4>1. Cell(i) = screen[i]
        BY <1>1, <2>1, <2>3, <3>2 DEF Cell, Scrolls
      <4>2. screen'[i] = screen[i]
        BY <1>1, <1>3, <2>1, <3>2
      <4>3. Cell(i)' = screen'[i]
        BY <1>1, <1>3, <2>1, <2>3, <3>2 DEF Cell, Scrolls
      <4> QED
        BY <4>1, <4>2, <4>3
    <3>3. CASE i = x \/ i = x + 1
      <4>1. Cell(i) = screen[i + Width]
        BY <1>1, <2>1, <2>3, <3>3 DEF Cell
      <4>2. screen'[i] = screen[i + Width]
        <5>1. x \in Memory /\ x + 1 \in Memory /\ x # x + 1
          BY <1>1, <1>2, MemoryType
        <5>2. x + 1 + Width = (x + 1) + Width
          BY <1>1
        <5> QED
          BY <1>1, <1>3, <3>3, <5>1, <5>2
      <4>3. Cell(i)' = screen'[i]
        BY <1>1, <1>3, <2>1, <2>3, <3>3 DEF Cell, Scrolls
      <4> QED
        BY <4>1, <4>2, <4>3
    <3>4. CASE i > x + 1
      <4>1. Cell(i) = screen[i + Width]
        BY <1>1, <2>1, <2>3, <3>4 DEF Cell
      <4>2. screen'[i + Width] = screen[i + Width]
        BY <1>1, <1>3, <2>1, <3>1, <3>4
      <4>3. x + 2 # Size /\ pc' = "scroll" /\ x' = x + 2
        BY <1>1, <1>3, <2>1, <3>4
      <4>4. Cell(i)' = screen'[i + Width]
        BY <1>1, <2>1, <2>3, <3>4, <4>3 DEF Cell
      <4> QED
        BY <4>1, <4>2, <4>4
    <3> QED
      BY <1>1, <2>1, <3>2, <3>3, <3>4
  <2> QED
    BY <1>1, <2>1, <2>2, <2>3
<1>5. page' = page
  BY <1>4 DEF page, Cells, Size
<1>6. CursorAhead' = CursorAhead
  BY <1>1, <1>3 DEF CursorAhead
<1> QED
  BY <1>5, <1>6 DEF SamePage

\* The last row, which the page showed blank, is blanked.
LEMMA BlankPageStays ==
  ASSUME TypeOK, TypeOK', ScrollWaits, Blank
  PROVE  SamePage
<1>1. /\ screen \in [Memory -> Chars] /\ x \in (Size - Width)..(Size - 1)
      /\ pc = "blank" /\ cursor' = cursor /\ cursor = Size - Width /\ x' = x + 2
      /\ caller \in {"run", "getkey"} /\ stop \in {1, Tab, Width}
      /\ screen' = [screen EXCEPT ![x] = Space, ![x + 1] = Space]
      /\ \A i \in (Size - Width)..(x - 1) : screen[i] = Space
  BY DEF TypeOK, Blank, ScrollWaits
<1>2. Size \in Nat /\ Width \in Nat /\ Size >= Width
  BY SizeType
<1>3. pc' = "blank" \/ (x' = Size /\ pc' = caller)
  <2>1. CASE x' # Size
    <3>1. pc' = "blank"
      BY <2>1 DEF Blank
    <3> QED
      BY <3>1
  <2>2. CASE x' = Size
    <3>1. pc' = Moved(cursor, caller, stop)
      BY <2>2 DEF Blank
    <3>2. cursor % stop = 0
      <4>1. PICK m \in Nat \ {0} : Width = m * stop
        BY <1>1, StopDivides
      <4>2. stop \in Nat \ {0}
        BY <1>1, StopDivides
      <4> DEFINE r == Height - 1
      <4>3. r \in RowNumbers /\ 0 \in ColumnNumbers /\ r + 1 = Height /\ r \in Nat
        BY ConsoleAssumption DEF RowNumbers, ColumnNumbers
      <4> HIDE DEF r
      <4>4. cursor = r * Width
        BY <1>1, <4>3, CellOf
      <4> DEFINE k == r * m
      <4>5. k \in Int /\ cursor = k * stop + 0
        BY <4>1, <4>2, <4>3, <4>4
      <4> HIDE DEF k
      <4>6. 0 \in 0..(stop - 1)
        BY <4>2
      <4>7. (k * stop + 0) % stop = 0
        BY <4>2, <4>5, <4>6, DivisionUnique
      <4> QED
        BY <4>5, <4>7
    <3> QED
      BY <2>2, <3>1, <3>2 DEF Moved
  <2> QED
    BY <2>1, <2>2
<1>4. ASSUME NEW i \in Cells PROVE Cell(i)' = Cell(i)
  <2>1. i \in Nat /\ i < Size /\ i \in Memory
    BY MemoryType, SizeType DEF Cells
  <2>2. CASE i >= Size - Width
    <3>1. Cell(i) = Space
      BY <1>1, <2>2 DEF Cell
    <3>2. CASE pc' = "blank"
      BY <2>2, <3>1, <3>2 DEF Cell
    <3>3. CASE x' = Size /\ pc' = caller
      <4>1. i \in (Size - Width)..(x - 1) \/ i = x \/ i = x + 1
        BY <1>1, <1>2, <2>1, <2>2, <3>3
      <4>2. screen'[i] = Space
        BY <1>1, <2>1, <4>1
      <4>3. Cell(i)' = screen'[i]
        BY <1>1, <3>3 DEF Cell, Scrolls
      <4> QED
        BY <3>1, <4>2, <4>3
    <3> QED
      BY <1>3, <3>2, <3>3
  <2>3. CASE i < Size - Width
    <3>1. Cell(i) = screen[i] /\ Cell(i)' = screen'[i]
      BY <1>1, <1>2, <1>3, <2>1, <2>3 DEF Cell, Scrolls
    <3>2. screen'[i] = screen[i]
      BY <1>1, <1>2, <2>1, <2>3
    <3> QED
      BY <3>1, <3>2
  <2> QED
    BY <1>2, <2>1, <2>2, <2>3
<1>5. page' = page
  BY <1>4 DEF page, Cells, Size
<1>6. CursorAhead' = CursorAhead
  BY <1>1, <1>3 DEF CursorAhead
<1> QED
  BY <1>5, <1>6 DEF SamePage

\* Nobody but the processor's own loops and calls changes the page.
LEMMA OthersPage ==
  ASSUME TypeOK, TypeOK', InputLine \/ GetKey \/ User \/ Frame
  PROVE  SamePage
<1>1. CASE InputLine \/ GetKey
  <2>1. pc \in {"run", "getkey", "wait"} /\ pc' \in {"run", "getkey", "wait"}
        /\ screen' = screen /\ cursor' = cursor
    BY <1>1 DEF InputLine, GetKey, display
  <2> QED
    BY <2>1, AtRest, AtRestNext DEF Shown, SamePage
<1>2. CASE User \/ Frame
  <2>1. UNCHANGED <<screen, cursor, pc, x, stop, caller>>
    BY <1>2 DEF User, Press, Release, Frame, FrameShows, FrameShowsNone, display, loop
  <2> QED
    BY <2>1 DEF SamePage, page, Cell, CursorAhead, Scrolls, StopAhead
<1> QED
  BY <1>1, <1>2

LEMMA ClearPage ==
  ASSUME TypeOK, TypeOK', pc \in {"run", "wait"}, pc' \in {"run", "getkey"},
         ClearScreen
  PROVE  page' = BlankPage /\ CursorAhead' = 0
<1>1. Shown' = BlankPage
  <2>1. \A i \in Cells : i \in Memory /\ i < Size
    BY MemoryType, SizeType DEF Cells
  <2> QED
    BY <2>1 DEF ClearScreen, Cleared, Shown, BlankPage
<1>2. page' = Shown' /\ CursorAhead' = cursor'
  BY AtRestNext
<1> QED
  BY <1>1, <1>2 DEF ClearScreen

LEMMA EditKeyPage ==
  ASSUME TypeOK, TypeOK', pc = "wait", NEW k, EditKey(k)
  PROVE  (SamePage /\ line' = line) \/ T!Clear \/ T!Move \/ T!Erase
<1>1. page = Shown /\ CursorAhead = cursor /\ cursor \in Cells /\ cursor \in Int
      /\ Shown \in [Cells -> Chars] /\ screen \in [Memory -> Chars]
  BY AtRest, ShownType DEF TypeOK
<1>2. pc' = "getkey" /\ line' = line
  BY DEF EditKey
<1>3. page' = Shown' /\ CursorAhead' = cursor'
  BY <1>2, AtRestNext
<1>4. CASE k = "backspace" /\ BackSpace
  <2>1. CASE cursor = 0
    <3>1. Shown' = Shown /\ cursor' = cursor
      BY <1>4, <2>1 DEF BackSpace, display, Shown
    <3> QED
      BY <1>1, <1>2, <1>3, <3>1 DEF SamePage
  <2>2. CASE cursor # 0
    <3>1. /\ screen' = [screen EXCEPT ![cursor - 1] = Space]
          /\ cursor' = cursor - 1
      BY <1>4, <2>2 DEF BackSpace
    <3>2. Shown' = [Shown EXCEPT ![cursor - 1] = Space]
      <4>1. \A i \in Cells : i \in Memory
        BY MemoryType DEF Cells
      <4> QED
        BY <1>1, <3>1, <4>1 DEF Shown
    <3>3. T!Erase
      BY <1>1, <1>2, <1>3, <2>2, <3>1, <3>2, EraseFollows
    <3> QED
      BY <3>3
  <2> QED
    BY <2>1, <2>2
<1>5. CASE k = "clear" /\ ClearScreen
  <2>1. page' = BlankPage /\ CursorAhead' = 0
    BY <1>2, <1>5, ClearPage
  <2> QED
    BY <1>2, <2>1, ClearFollows
<1>6. CASE /\ k \in {"up", "down", "left", "right"}
           /\ cursor' = (cursor + Step(k)) % Size /\ UNCHANGED screen
  <2>1. Shown' = Shown
    BY <1>6 DEF Shown
  <2>2. pageRows' = pageRows
    BY <1>1, <1>3, <2>1 DEF pageRows
  <2>3. CursorAhead' = (CursorAhead + Step(k)) % Size /\ CursorAhead \in Cells
    BY <1>1, <1>3, <1>6
  <2>4. CASE k = "left"
    <3>1. CursorAhead + Step(k) = CursorAhead - 1
      BY <1>1, <2>4 DEF Step
    <3>2. T!Left
      BY <2>3, <3>1, LeftFollows
    <3> QED
      BY <1>2, <2>2, <3>2 DEF T!Move
  <2>5. CASE k = "right"
    <3>1. CursorAhead + Step(k) = CursorAhead + 1
      BY <1>1, <2>5 DEF Step
    <3>2. T!Right
      BY <2>3, <3>1, RightFollows
    <3> QED
      BY <1>2, <2>2, <3>2 DEF T!Move
  <2>6. CASE k = "up"
    <3>1. CursorAhead + Step(k) = CursorAhead - Width
      BY <1>1, <2>6, SizeType DEF Step
    <3>2. T!Up
      BY <2>3, <3>1, UpFollows
    <3> QED
      BY <1>2, <2>2, <3>2 DEF T!Move
  <2>7. CASE k = "down"
    <3>1. CursorAhead + Step(k) = CursorAhead + Width
      BY <1>1, <2>7, SizeType DEF Step
    <3>2. T!Down
      BY <2>3, <3>1, DownFollows
    <3> QED
      BY <1>2, <2>2, <3>2 DEF T!Move
  <2> QED
    BY <1>6, <2>4, <2>5, <2>6, <2>7
<1>7. CASE k = "other" /\ UNCHANGED display
  BY <1>1, <1>2, <1>3, <1>7 DEF display, Shown, SamePage
<1> QED
  BY <1>4, <1>5, <1>6, <1>7 DEF EditKey, Controls

-----------------------------------------------------------------------------
LEMMA InitTerminal == Init => T!Init
<1> SUFFICES ASSUME Init PROVE T!Init
  OBVIOUS
<1>1. TypeOK /\ pc = "run" /\ cursor = 0
  BY InitIInv DEF Init, IInv
<1>2. page = Shown /\ CursorAhead = 0
  BY <1>1, AtRest
<1>3. Shown = BlankPage
  <2>1. \A i \in Cells : i \in Memory /\ i < Size
    BY MemoryType, SizeType DEF Cells
  <2> QED
    BY <2>1 DEF Init, Shown, BlankPage
<1>4. 0 \in RowNumbers /\ 0 \in ColumnNumbers /\ 0 * Width + 0 = 0
  BY ConsoleAssumption DEF RowNumbers, ColumnNumbers
<1>5. (0 * Width + 0) \div Width = 0 /\ (0 * Width + 0) % Width = 0
  BY <1>4, CellFound
<1>6. pageRow = 0 /\ pageCol = 0
  BY <1>2, <1>4, <1>5 DEF pageRow, pageCol
<1>7. pageRows = [r \in T!Rows |-> T!BlankRow]
  BY <1>2, <1>3, BlankRows
  DEF pageRows, T!Rows, T!BlankRow, T!Columns, RowNumbers, ColumnNumbers
<1>8. line = T!BlankRow
  BY DEF Init, T!BlankRow, T!Columns
<1> QED
  BY <1>6, <1>7, <1>8 DEF T!Init

LEMMA StutterTerminal ==
  ASSUME SamePage, line' = line
  PROVE  UNCHANGED <<pageRows, pageRow, pageCol, line>>
BY DEF SamePage, pageRows, pageRow, pageCol

\* The line is the row of the page the cursor is on (HWInputLine's copy loop).
LEMMA CursorRowShown ==
  ASSUME TypeOK, pc = "wait"
  PROVE  CursorRow = pageRows[pageRow]
<1>1. page = Shown /\ CursorAhead = cursor /\ cursor \in Cells
  BY AtRest, ShownType
<1>2. /\ pageRow \in RowNumbers /\ pageCol \in ColumnNumbers
      /\ cursor = pageRow * Width + pageCol
  BY <1>1, PointType
<1>3. cursor % Width = pageCol
  BY <1>1 DEF pageCol
<1>4. pageRow * Width \in Nat /\ pageCol \in Nat
  BY <1>2, CellOf DEF ColumnNumbers
<1>5. cursor - (cursor % Width) = pageRow * Width
  BY <1>2, <1>3, <1>4
<1>6. ASSUME NEW c \in ColumnNumbers
      PROVE  screen[cursor - (cursor % Width) + c] = page[pageRow * Width + c]
  <2>1. pageRow * Width + c \in Cells
    BY <1>2, CellOf
  <2> QED
    BY <1>1, <1>5, <2>1 DEF Shown
<1>7. pageRows[pageRow] = [c \in ColumnNumbers |-> page[pageRow * Width + c]]
  BY <1>2 DEF pageRows, RowsOf, RowNumbers, ColumnNumbers
<1> QED
  BY <1>6, <1>7 DEF CursorRow, ColumnNumbers

LEMMA StepTerminal ==
  IInv /\ IInv' /\ ScrollWaits /\ [Next]_vars
    => [T!Next]_<<pageRows, pageRow, pageCol, line>>
<1> SUFFICES ASSUME IInv, IInv', ScrollWaits, [Next]_vars
             PROVE  [T!Next]_<<pageRows, pageRow, pageCol, line>>
  OBVIOUS
<1>1. TypeOK /\ TypeOK'
  BY DEF IInv
<1>2. CASE UNCHANGED vars
  <2>1. UNCHANGED <<screen, cursor, pc, x, stop, caller, line>>
    BY <1>2 DEF vars, display, loop, reading
  <2>2. SamePage
    BY <2>1 DEF SamePage, page, Cell, CursorAhead, Scrolls, StopAhead
  <2> QED
    BY <2>1, <2>2, StutterTerminal
<1>3. CASE Scroll \/ Blank \/ MoveCursor
  <2>1. SamePage
    BY <1>1, <1>3, ScrollPage, BlankPageStays, MoveCursorPage
  <2>2. line' = line
    BY <1>3 DEF Scroll, Blank, MoveCursor, reading
  <2> QED
    BY <2>1, <2>2, StutterTerminal
<1>4. CASE InputLine \/ GetKey \/ User \/ Frame
  <2>1. SamePage
    BY <1>1, <1>4, OthersPage
  <2>2. line' = line
    BY <1>4 DEF InputLine, GetKey, User, Press, Release, Frame, FrameShows, FrameShowsNone, reading
  <2> QED
    BY <2>1, <2>2, StutterTerminal
<1>5. CASE Output
  <2>1. pc = "run" /\ line' = line
    BY <1>5 DEF Output, reading
  <2>2. CASE \E c \in Chars : PrintChar(c, "run", 1)
    <3>1. PICK c \in Chars : PrintChar(c, "run", 1)
      BY <2>2
    <3>2. /\ CursorAhead \in Cells /\ page \in [Cells -> Chars]
          /\ page' = Landed([page EXCEPT ![CursorAhead] = c], CursorAhead + 1)
          /\ CursorAhead' = LandedAt(CursorAhead + 1)
      BY <1>1, <2>1, <3>1, PrintCharPage
    <3>3. T!Type(c)
      BY <2>1, <3>2, TypeFollows
    <3> QED
      BY <3>3 DEF T!Next
  <2>3. CASE MoveTo(Width, "run")
    <3>1. /\ CursorAhead \in Cells
          /\ page' = Landed(page, NextStop(CursorAhead, Width))
          /\ CursorAhead' = LandedAt(NextStop(CursorAhead, Width))
      BY <1>1, <2>1, <2>3, MoveToPage
    <3>2. T!ToStop(Width)
      BY <3>1, ToStopFollows
    <3> QED
      BY <2>1, <3>2 DEF T!Next, T!NewLine
  <2>4. CASE MoveTo(Tab, "run")
    <3>1. /\ CursorAhead \in Cells
          /\ page' = Landed(page, NextStop(CursorAhead, Tab))
          /\ CursorAhead' = LandedAt(NextStop(CursorAhead, Tab))
      BY <1>1, <2>1, <2>4, MoveToPage
    <3>2. T!ToStop(Tab)
      BY <3>1, ToStopFollows
    <3> QED
      BY <2>1, <3>2 DEF T!Next, T!NextTab
  <2>5. CASE ClearScreen /\ UNCHANGED loop
    <3>1. pc' = "run"
      BY <2>1, <2>5 DEF loop
    <3>2. page' = BlankPage /\ CursorAhead' = 0
      BY <1>1, <2>1, <2>5, <3>1, ClearPage
    <3>3. T!Clear
      BY <2>1, <3>2, ClearFollows
    <3> QED
      BY <3>3 DEF T!Next
  <2> QED
    BY <1>5, <2>2, <2>3, <2>4, <2>5 DEF Output
<1>6. CASE WaitKey
  <2>1. pc = "wait"
    BY <1>6 DEF WaitKey
  <2>2. CASE TypeKey(port)
    <3>1. port \in Chars /\ PrintChar(port, "getkey", 1) /\ line' = line
      BY <2>2 DEF TypeKey
    <3>2. /\ CursorAhead \in Cells /\ page \in [Cells -> Chars]
          /\ page' = Landed([page EXCEPT ![CursorAhead] = port], CursorAhead + 1)
          /\ CursorAhead' = LandedAt(CursorAhead + 1)
      BY <1>1, <2>1, <3>1, PrintCharPage
    <3>3. T!Type(port)
      BY <3>1, <3>2, TypeFollows
    <3> QED
      BY <3>1, <3>3 DEF T!Next
  <2>3. CASE TabKey(port)
    <3>1. MoveTo(Tab, "getkey") /\ line' = line
      BY <2>3 DEF TabKey
    <3>2. /\ CursorAhead \in Cells
          /\ page' = Landed(page, NextStop(CursorAhead, Tab))
          /\ CursorAhead' = LandedAt(NextStop(CursorAhead, Tab))
      BY <1>1, <2>1, <3>1, MoveToPage
    <3>3. T!ToStop(Tab)
      BY <3>2, ToStopFollows
    <3> QED
      BY <3>1, <3>3 DEF T!Next, T!NextTab
  <2>4. CASE ReturnKey(port)
    <3>1. MoveTo(Width, "run") /\ line' = CursorRow
      BY <2>4 DEF ReturnKey
    <3>2. /\ CursorAhead \in Cells
          /\ page' = Landed(page, NextStop(CursorAhead, Width))
          /\ CursorAhead' = LandedAt(NextStop(CursorAhead, Width))
      BY <1>1, <2>1, <3>1, MoveToPage
    <3>3. T!ToStop(Width)
      BY <3>2, ToStopFollows
    <3>4. line' = pageRows[pageRow]
      BY <1>1, <2>1, <3>1, CursorRowShown
    <3> QED
      BY <3>3, <3>4 DEF T!Next, T!Return
  <2>5. CASE EditKey(port)
    <3>1. (SamePage /\ line' = line) \/ T!Clear \/ T!Move \/ T!Erase
      BY <1>1, <2>1, <2>5, EditKeyPage
    <3> QED
      BY <3>1, StutterTerminal DEF T!Next
  <2> QED
    BY <1>6, <2>2, <2>3, <2>4, <2>5 DEF WaitKey
<1> QED
  BY <1>2, <1>3, <1>4, <1>5, <1>6 DEF Next, Console, Program

\* On a screen of any size, with tab stops that divide its rows and any keys,
\* what is typed and printed shows as on the terminal of the module Terminal, and
\* the line BASIC gets is the row the cursor was on (HWPrintChar, HWInputLine).
THEOREM TerminalImplemented == Spec => ImplementsTerminal
<1>1. Spec => []IInv /\ []ScrollWaits
  BY Invariance, ScrollWaitsInvariant
<1> QED
  BY <1>1, InitTerminal, StepTerminal, PTL DEF Spec, T!Spec, ImplementsTerminal
=============================================================================
