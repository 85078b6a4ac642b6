---------------------------- MODULE LineEditor ----------------------------
(***************************************************************************)
(* The program area and the line editor (utility/editline.asm, the editing *)
(* branch of basic.asm, FindCodeEnd and ClearVariablesPointersAndStacks of *)
(* run.asm), and the host script that builds the first program             *)
(* (scripts/basicblock.py).                                                *)
(*                                                                         *)
(* A line is: offset to the next line, number, tokens, a zero word.  A     *)
(* word below $100 among the tokens starts a string and is the bytes to    *)
(* skip, so a zero word inside a string is not the end of the line.  A     *)
(* zero offset ends the program.  Memory is words at even byte addresses.  *)
(* Each loop of the editor moves one word per step, so the order in which  *)
(* overlapping lines are moved is part of the model.                       *)
(***************************************************************************)
EXTENDS Integers, Sequences

CONSTANTS
  Numbers,       \* the line numbers that are entered (1..32767)
  Bodies,        \* the tokenised bodies, << >> for a number alone
  ProgramStart,  \* DBaseAddress + Block_ProgramStart
  HighAddress,   \* DHighAddress: the end of the BASIC workspace
  MemLast,       \* bound: the last word the model keeps (>= HighAddress)
  Reserve        \* what the host script wants to be free (1024 bytes)

VARIABLES
  mem,       \* the words from ProgramStart up
  low,       \* Block_LowMemoryPtr
  buffer,    \* the token buffer: the number and the rest of the line
  pc,        \* where the editor is
  x, y,      \* the index registers
  t1, t2, t3, t4, t4b, t5,   \* DTemp1 ... DTemp5 (t4b is DTemp4+2)
  lastLine,  \* lastProgramLineNumber of the host script
  listing    \* auxiliary: the program as it was listed at the last prompt

memory == <<mem, low>>
\* The registers and temporaries; they are dead at the prompt, where the model
\* forgets them.
temps == <<x, y, t1, t2, t3, t4, t4b, t5>>
vars == <<mem, low, buffer, pc, x, y, t1, t2, t3, t4, t4b, t5,
          lastLine, listing>>

Addrs == {ProgramStart + 2 * i : i \in 0..((MemLast - ProgramStart) \div 2)}
EndMarker == 61166          \* $EEEE
MaxWord == 65535
MaxNumber == 32767           \* of a line
Word == 0..MaxWord
StringLimit == 256          \* $0100: a smaller word is a string's length

\* The words of a token: a string has its bytes, in whole words.
TokenWords(token) == IF token < StringLimit THEN (token + 1) \div 2 ELSE 1
\* Token after token, the body is used up to its end; each token's data are in
\* it, and no token is a zero word.
Tokenised(body, at) ==
  /\ at \subseteq 1..(Len(body) + 1) /\ 1 \in at /\ Len(body) + 1 \in at
  /\ \A i \in at \ {Len(body) + 1} :
       /\ body[i] # 0 /\ (body[i] < StringLimit => body[i] % 2 = 0)
       /\ i + TokenWords(body[i]) \in at

ASSUME LineEditorAssumption ==
  /\ ProgramStart \in Nat /\ ProgramStart % 2 = 0
  /\ HighAddress \in Nat /\ MemLast \in Nat /\ MemLast <= MaxWord
  /\ ProgramStart + 6 <= MemLast /\ HighAddress <= MemLast
  /\ Numbers \subseteq 1..MaxNumber /\ Reserve \in Nat
ASSUME BodiesAssumption ==
  /\ << >> \in Bodies /\ Bodies \subseteq Seq(Word)
  /\ \A body \in Bodies :
       \E at \in SUBSET (1..(Len(body) + 1)) : Tokenised(body, at)

----------------------------------------------------------------------------
(* Reading a program. *)

\* Offsets and lengths are followed as long as they lead to a word that is
\* kept here; the end of a program is met before that.

\* The $0000 offset at the end of the program.
FindCodeEnd(m) ==
  LET end[a \in Addrs] ==
        IF m[a] = 0 \/ a + m[a] \notin Addrs THEN a ELSE end[a + m[a]]
  IN  end[ProgramStart]

\* The tokens from address a up to the zero word that ends the line.
TokensAt(m, a) ==
  LET from[b \in Addrs] ==
        IF m[b] = 0 \/ b + 2 * TokenWords(m[b]) \notin Addrs THEN << >>
        ELSE [i \in 1..TokenWords(m[b]) |-> m[b + 2 * (i - 1)]]
               \o from[b + 2 * TokenWords(m[b])]
  IN  from[a]

\* The addresses of the lines, in the order of the links.
LinesOf(m) ==
  LET from[a \in Addrs] ==
        IF m[a] = 0 \/ a + m[a] \notin Addrs THEN << >>
        ELSE <<a>> \o from[a + m[a]]
  IN  from[ProgramStart]

\* What LIST shows: the body of each number.
Listed(m) ==
  [n \in Numbers |->
     LET at == {i \in 1..Len(LinesOf(m)) : m[LinesOf(m)[i] + 2] = n}
     IN  IF at = {} THEN << >>
         ELSE TokensAt(m, LinesOf(m)[CHOOSE i \in at : \A j \in at : i <= j] + 4)]

\* A line's size with its offset, number and closing zero.
LineSize(body) == 2 * Len(body) + 6

----------------------------------------------------------------------------
(* The host builds the first program in ascending order of numbers, then   *)
(* the machine is switched on.                                             *)

Marked(m, end) == [m EXCEPT ![end + 2] = EndMarker, ![end + 4] = EndMarker]

Forget ==
  /\ x' = 0 /\ y' = 0
  /\ t1' = 0 /\ t2' = 0 /\ t3' = 0 /\ t4' = 0 /\ t4b' = 0 /\ t5' = 0

\* clearMemory, resetLowMemory
Init ==
  /\ mem = Marked([a \in Addrs |-> 0], ProgramStart)
  /\ low = ProgramStart + 6
  /\ buffer = [number |-> 0, code |-> << >>]
  /\ pc = "host" /\ lastLine = 0
  /\ x = 0 /\ y = 0
  /\ t1 = 0 /\ t2 = 0 /\ t3 = 0 /\ t4 = 0 /\ t4b = 0 /\ t5 = 0
  /\ listing = [n \in Numbers |-> << >>]

AddBASICLine(n, body) ==
  LET pos == FindCodeEnd(mem)
      line == <<LineSize(body), n>> \o body \o <<0, 0>>
      end == pos + LineSize(body)
      written == [a \in Addrs |-> IF a \in pos..end
                                  THEN line[((a - pos) \div 2) + 1] ELSE mem[a]]
  IN
  /\ pc = "host" /\ body # << >> /\ n > lastLine
  /\ end + 6 + Reserve < HighAddress           \* assert "PROGRAM FULL"
  /\ mem' = Marked(written, end) /\ low' = end + 6
  /\ lastLine' = n
  /\ listing' = Listed(mem')
  /\ UNCHANGED <<buffer, pc, temps>>

Boot == /\ pc = "host" /\ pc' = "next"
        /\ UNCHANGED <<memory, buffer, temps, lastLine, listing>>

----------------------------------------------------------------------------
(* NextCommand, ExecuteTokenBuffer: a line that starts with a number. *)

\* The model's memory has room for the line (a bound, not a check of the code).
Bounded(body) == FindCodeEnd(mem) + LineSize(body) + 4 <= MemLast

TypeLine(n, body) ==
  /\ pc = "next" /\ Bounded(body)
  /\ buffer' = [number |-> n, code |-> body]
  /\ y' = ProgramStart
  /\ pc' = "ldLoop"
  /\ UNCHANGED <<memory, x, t1, t2, t3, t4, t4b, t5, lastLine, listing>>

\* "Cannot have line 0": an error, back to the prompt.
TypeLineZero(body) ==
  /\ pc = "next"
  /\ buffer' = [number |-> 0, code |-> body]
  /\ UNCHANGED <<memory, pc, temps, lastLine, listing>>

----------------------------------------------------------------------------
(* LineDelete *)

DeleteSearch ==
  /\ pc = "ldLoop"
  /\ \/ mem[y] = 0 /\ pc' = "deleted" /\ UNCHANGED <<x, y, t1, t2>>
     \/ /\ mem[y] # 0 /\ mem[y + 2] = buffer.number
        /\ t1' = y /\ t2' = y + mem[y]
        /\ x' = FindCodeEnd(mem) - t2' + 2
        /\ y' = 0 /\ pc' = "ldCopy"
     \/ /\ mem[y] # 0 /\ mem[y + 2] # buffer.number
        /\ y' = y + mem[y]
        /\ UNCHANGED <<pc, x, t1, t2>>
  /\ UNCHANGED <<memory, buffer, t3, t4, t4b, t5, lastLine, listing>>

DeleteCopy ==
  /\ pc = "ldCopy"
  /\ mem' = [mem EXCEPT ![t1 + y] = mem[t2 + y]]
  /\ y' = y + 2 /\ x' = x - 2
  /\ pc' = IF x' = 0 THEN "deleted" ELSE "ldCopy"
  /\ UNCHANGED <<low, buffer, t1, t2, t3, t4, t4b, t5, lastLine, listing>>

ClearMarkersOnly ==                                      \* mutant
  LET end == FindCodeEnd(mem) IN
  /\ mem' = Marked(mem, end)
  /\ UNCHANGED low

\* ClearVariablesPointersAndStacks, as far as the program area is concerned.
ClearVariables ==
  LET end == FindCodeEnd(mem) IN
  /\ mem' = Marked(mem, end)
  /\ low' = end + 6

\* After the delete: "is there any code ?"
Deleted ==
  /\ pc = "deleted"
  /\ ClearVariables
  /\ \/ /\ buffer.code = << >>
        /\ pc' = "next" /\ listing' = Listed(mem') /\ Forget
     \/ /\ buffer.code # << >>
        /\ t1' = 0 /\ t2' = buffer.number /\ y' = 0     \* LineInsert
        /\ pc' = "liLength"
        /\ UNCHANGED <<x, t3, t4, t4b, t5, listing>>
  /\ UNCHANGED <<buffer, lastLine>>

----------------------------------------------------------------------------
(* LineInsert.  t1 and y are offsets into the code in the token buffer. *)

Code(a) == (buffer.code \o <<0>>)[(a \div 2) + 1]

CodeStepIntoString(token) == 2                           \* mutant

\* A quoted string is skipped, anything else is one word.
CodeStep(token) == IF token < StringLimit THEN token ELSE 2

InsertLength ==
  /\ pc = "liLength"
  /\ \/ /\ Code(y) = 0
        /\ t3' = y + 6 /\ y' = ProgramStart /\ pc' = "liFind"
     \/ /\ Code(y) # 0
        /\ y' = y + CodeStep(Code(y))
        /\ UNCHANGED <<t3, pc>>
  /\ UNCHANGED <<memory, buffer, x, t1, t2, t4, t4b, t5, lastLine, listing>>

HereLast == mem[y] = 0                                   \* mutant

\* "if offset is zero, end, so insert here", or at the first number that is
\* not smaller.
Here == mem[y] = 0 \/ mem[y + 2] >= t2

SkipNothing == y                                         \* mutant
NextLine == y + mem[y]

InsertFind ==
  /\ pc = "liFind"
  /\ \/ /\ Here
        /\ t5' = y
        /\ t4' = FindCodeEnd(mem) /\ t4b' = t4' + t3
        /\ pc' = "liMove" /\ UNCHANGED y
     \/ /\ ~Here
        /\ y' = NextLine
        /\ UNCHANGED <<pc, t4, t4b, t5>>
  /\ UNCHANGED <<memory, buffer, x, t1, t2, t3, lastLine, listing>>

\* Opening up space from the end of the program down.  Nothing compares
\* t4b with the end of the workspace.
InsertMove ==
  /\ pc = "liMove"
  /\ mem' = [mem EXCEPT ![t4b] = mem[t4]]
  /\ \/ t4 = t5 /\ pc' = "liHeader" /\ UNCHANGED <<t4, t4b>>
     \/ t4 # t5 /\ t4' = t4 - 2 /\ t4b' = t4b - 2 /\ UNCHANGED pc
  /\ UNCHANGED <<low, buffer, x, y, t1, t2, t3, t5, lastLine, listing>>

InsertHeader ==
  /\ pc = "liHeader"
  /\ mem' = [mem EXCEPT ![t5] = t3, ![t5 + 2] = t2]
  /\ y' = 4 /\ pc' = "liTokens"
  /\ UNCHANGED <<low, buffer, x, t1, t2, t3, t4, t4b, t5, lastLine, listing>>

InsertTokens ==
  /\ pc = "liTokens"
  /\ mem' = [mem EXCEPT ![t5 + y] = Code(t1)]
  /\ y' = y + 2 /\ t1' = t1 + 2 /\ t3' = t3 - 2
  /\ pc' = IF t3' = 4 THEN "inserted" ELSE "liTokens"
  /\ UNCHANGED <<low, buffer, x, t2, t4, t4b, t5, lastLine, listing>>

Inserted ==
  /\ pc = "inserted"
  /\ ClearVariables
  /\ pc' = "next" /\ listing' = Listed(mem') /\ Forget
  /\ UNCHANGED <<buffer, lastLine>>

----------------------------------------------------------------------------
Host == Boot \/ \E n \in Numbers, body \in Bodies : AddBASICLine(n, body)

Keyboard == \E body \in Bodies :
  \/ TypeLineZero(body)
  \/ \E n \in Numbers : TypeLine(n, body)

Editor ==
  \/ DeleteSearch \/ DeleteCopy \/ Deleted
  \/ InsertLength \/ InsertFind \/ InsertMove \/ InsertHeader
  \/ InsertTokens \/ Inserted

Next == Host \/ Keyboard \/ Editor

Spec == Init /\ [][Next]_vars

\* The editor is a loop of the only processor: it goes on when it can.  The
\* host and the keyboard need not do anything.
FairSpec == Spec /\ WF_vars(Editor)

----------------------------------------------------------------------------
(* Properties *)

AtPrompt == pc \in {"host", "next"}

\* The variables have the types the code gives them.
TypeOK ==
  /\ mem \in [Addrs -> Word] /\ low \in Nat
  /\ buffer.number \in Numbers \cup {0} /\ buffer.code \in Bodies
  /\ pc \in {"host", "next", "ldLoop", "ldCopy", "deleted", "liLength",
             "liFind", "liMove", "liHeader", "liTokens", "inserted"}
  /\ <<x, y, t1, t2, t3, t4, t4b, t5>> \in [1..8 -> Nat]
  /\ lastLine \in Nat /\ listing \in [Numbers -> Bodies]

\* The variables have their types, and whenever the prompt is back the links
\* are right: each offset is exactly the size of its line, counted over strings
\* (what check_editor.py compares), and the numbers ascend strictly, as RUN,
\* GOTO and the next edit rely on.
ProgramSound ==
  /\ TypeOK
  /\ AtPrompt =>
       LET lines == LinesOf(mem) IN
       \A i \in 1..Len(lines) :
         /\ mem[lines[i]] = LineSize(TokensAt(mem, lines[i] + 4))
         /\ i > 1 => mem[lines[i - 1] + 2] < mem[lines[i] + 2]

\* The program's copy of the end of the code, the low memory pointer, is never
\* stale at the prompt: variables made by the next command start six bytes
\* above the final offset, past the $EEEE markers.
LowPastProgram ==
  AtPrompt =>
    LET end == FindCodeEnd(mem) IN
    low = end + 6 /\ mem[end + 2] = EndMarker /\ mem[end + 4] = EndMarker

\* Entering a line is one step on the abstract program: it changes that line
\* and no other, whatever was moved in memory (editline.asm; the test is
\* scripts/make_editor.py with scripts/check_editor.py).
Store == INSTANCE ProgramStore WITH program <- listing, NoLine <- << >>
ImplementsProgramStore == Store!Spec

\* Every edit ends: the search, copy and move loops count to their exact end
\* values (bne, cmp #4) and must hit them.
EditEnds == pc = "ldLoop" ~> pc = "next"
=============================================================================
