---------------------------- MODULE StringHeap -----------------------------
(***************************************************************************)
(* The string memory of one BASIC block: utility/stringconcrete.asm,       *)
(* utility/stringtemp.asm, and everything that moves the two pointers the  *)
(* strings live between: VariableCreate, DIM, LOCAL, PROC, CLEAR.          *)
(*                                                                         *)
(*     lowPtr        temps (growing down)   gap   highPtr       MemTop     *)
(*   ----+-----------------[..][...]-------------[block][block]--+         *)
(*                                                                         *)
(* A permanent block is: its capacity (1 byte), then the string (a length  *)
(* byte and the characters), so it takes capacity + 2 bytes; a variable    *)
(* points at the length byte.  A string is its length and a text (what the *)
(* characters are); a write that hits another string changes its text to   *)
(* Junk.                                                                   *)
(***************************************************************************)
EXTENDS Integers, Sequences, FiniteSets, SequencesExt

CONSTANTS
  Vars,        \* the string variables of the program
  Strings,     \* the strings that expressions produce
  MemStart,    \* lowPtr after CLEAR: end of the program + 6
  MemTop,      \* DHighAddress, highPtr after CLEAR
  MaxLen,      \* longest string (255)
  Spare,       \* extra capacity of a new block (8)
  Gap,         \* distance of the first temp string from highPtr (256)
  RecSize,     \* bytes of a variable record (8)
  Clones,      \* bytes an identifier typed at the keyboard adds ({0} in a program)
  DimSizes,    \* bytes of an array: record and elements
  MaxParams,   \* bound: string parameters of a PROC
  MaxTemps,    \* bound: temp strings of a statement
  MaxStack,    \* bound: entries of the BASIC stack
  CaseConv,    \* BOOLEAN: does the program use UPPER$ and LOWER$
  Unset        \* see StringStore

ASSUME LayoutAssumption ==
  /\ MemStart \in Nat /\ MemTop \in Nat /\ MemStart < MemTop
  /\ MaxLen \in Nat /\ Spare \in Nat /\ Gap \in Nat \ {0}
  /\ RecSize \in Nat /\ Clones \subseteq Nat /\ DimSizes \subseteq Nat
  /\ MaxParams \in Nat /\ MaxTemps \in Nat /\ MaxStack \in Nat
  /\ CaseConv \in BOOLEAN

Junk == "junk"
Empty == [len |-> 0, txt |-> "nil"]     \* Block_NullString

ASSUME StringsAssumption ==
  /\ Strings \subseteq [len : 0..MaxLen, txt : STRING]
  /\ Empty \in Strings
  /\ \A s \in Strings : s.txt # Junk
  /\ Unset \notin Strings

VARIABLES
  lowPtr,      \* Block_LowMemoryPtr
  highPtr,     \* Block_HighMemoryPtr
  created,     \* the variables that have a record
  storage,     \* [Vars -> the string pointer in the record, 0 at first]
  heap,        \* [address of a capacity byte -> block]; abandoned blocks too
  tempPtr,     \* DTempStringPointer
  temps,       \* [address of a length byte -> temp string]
  stack,       \* the BASIC stack: procedure markers, LOCAL strings, other frames
  op,          \* the statement being executed and how many targets it bound
  args,        \* PRMBuffer / EXSValueL: the sources evaluated for it
  oom,         \* an out of memory error has been reported since CLEAR
  wild         \* a string was written outside the areas above: the variables
               \* or the program are damaged, and the model stops there

vars == <<lowPtr, highPtr, created, storage, heap, tempPtr, temps, stack, op,
          args, oom, wild>>

None == [a \in {} |-> Empty]
NoOp == [name |-> "none", targets |-> <<>>, done |-> 0]
Lengths == 0..MaxLen

Init ==
  /\ lowPtr = MemStart /\ highPtr = MemTop
  /\ created = {} /\ storage = [v \in Vars |-> 0]
  /\ heap = None /\ tempPtr = 0 /\ temps = None
  /\ stack = <<>> /\ op = NoOp /\ args = <<>>
  /\ oom = FALSE /\ wild = FALSE

(***************************************************************************)
(* Statement boundaries.  FRun_NextInstruction and NextCommand zero        *)
(* DTempStringPointer before the next statement can use it.                *)
(***************************************************************************)
Ready == op = NoOp /\ ~wild

StartOp(name, ts) == op' = [name |-> name, targets |-> ts, done |-> 0]

EndStatement ==
  /\ op' = NoOp /\ args' = <<>> /\ tempPtr' = 0 /\ temps' = None

\* ErrorHandler: back to the prompt.  Neither pointer nor the stack is undone.
OutOfMemoryError == oom' = TRUE /\ EndStatement

\* Bound: pointers that have crossed move no further.  (Every later allocation
\* fails too, and moves its pointer a little more each time.)
NotCrossed == lowPtr <= highPtr

(***************************************************************************)
(* Low memory: variable records and arrays.                                *)
(***************************************************************************)
\* lowPtr once v has a record; c bytes are added for a cloned identifier.
LowWith(v, c) == IF v \in created THEN lowPtr ELSE lowPtr + RecSize + c

CannotCreateEarly(v) == v \notin created /\ lowPtr >= highPtr   \* mutant

\* VariableCreate advances the pointer first and checks afterwards; the clone
\* is made after the check.
CannotCreate(v) == v \notin created /\ lowPtr + RecSize >= highPtr

CreateFails(v) ==
  /\ CannotCreate(v)
  /\ NotCrossed                                       \* bound
  /\ lowPtr' = lowPtr + RecSize
  /\ OutOfMemoryError
  /\ UNCHANGED <<highPtr, created, storage, heap, stack, wild>>

\* A cloned identifier that crosses highPtr overwrites the lowest block.
CloneOverruns(v, c) == v \notin created /\ lowPtr + RecSize + c > highPtr

Dim(n) ==
  /\ Ready
  /\ NotCrossed                                       \* bound
  /\ lowPtr' = lowPtr + n
  /\ oom' = (oom \/ lowPtr + n >= highPtr)
  /\ UNCHANGED <<highPtr, created, storage, heap, tempPtr, temps, stack, op,
                 args, wild>>

Clear ==
  /\ Ready
  /\ lowPtr' = MemStart /\ highPtr' = MemTop
  /\ created' = {} /\ storage' = [v \in Vars |-> 0] /\ heap' = None
  /\ stack' = <<>> /\ oom' = FALSE
  /\ EndStatement
  /\ UNCHANGED wild

(***************************************************************************)
(* Writing over strings.                                                   *)
(***************************************************************************)
\* Does the string s stored at a have a byte in lo..hi?
Hit(a, s, lo, hi) == a <= hi /\ lo <= a + s.len

\* The temp strings after lo..hi is overwritten: a string that is hit has other
\* characters, and any length if its length byte is hit.
Scribbled(t, lo, hi) ==
  LET cut == {a \in DOMAIN t : a \in lo..hi}
  IN  {[a \in DOMAIN t |->
          IF Hit(a, t[a], lo, hi)
            THEN [len |-> IF a \in cut THEN n[a] ELSE t[a].len, txt |-> Junk]
            ELSE t[a]] : n \in [cut -> Lengths]}

With(f, a, x) == [b \in DOMAIN f \cup {a} |-> IF b = a THEN x ELSE f[b]]
Without(f, S) == [b \in DOMAIN f \ S |-> f[b]]

(***************************************************************************)
(* Temporary strings.                                                      *)
(***************************************************************************)
\* StringTempAllocate for n characters.  It does not look at lowPtr.
TempAddress(n) == (IF tempPtr = 0 THEN highPtr - Gap ELSE tempPtr) - n - 1

Evaluating == op # NoOp /\ Len(args) < Len(op.targets) /\ ~wild

\* StringTempAllocate(n), then the string s is written into it.
NewTemp(n, s) ==
  LET a == TempAddress(n) IN
  /\ Cardinality(DOMAIN temps) < MaxTemps             \* bound
  /\ a \notin DOMAIN temps
  /\ tempPtr' = a
  /\ temps' \in {With(t, a, s) : t \in Scribbled(temps, a, a + s.len)}
  /\ wild' = (a < lowPtr)
  /\ UNCHANGED <<lowPtr, highPtr, created, storage, heap, stack, op, args, oom>>

\* Concatenation, LEFT$, MID$, RIGHT$, CHR$ and SPC allocate what they write.
\* (STR$ allocates 34 bytes whatever it writes.)
Temp(s) == Evaluating /\ NewTemp(s.len, s)

(***************************************************************************)
(* Sources.  The value of a string expression is an address; at = 0 stands *)
(* for one outside the heap and the temps (a literal in the program, the   *)
(* null string).  val is what was there when the expression was evaluated. *)
(***************************************************************************)
Literal(s) == [at |-> 0, val |-> s]

\* VariableAccessExpression: a variable that has a record; unset reads as "".
VariableRef(v) ==
  IF storage[v] = 0 THEN Literal(Empty)
  ELSE [at |-> storage[v], val |-> heap[storage[v] - 1].str]

TempRef(a) == [at |-> a, val |-> temps[a]]

Sources == {Literal(s) : s \in Strings} \cup {VariableRef(v) : v \in created}
             \cup {TempRef(a) : a \in DOMAIN temps}

\* What reading the source finds now.  Inside a block that has replaced the one
\* it pointed to there is no telling: a character is taken for a length.
Contents(src) ==
  IF src.at = 0 THEN {src.val}
  ELSE IF src.at \in DOMAIN temps THEN {temps[src.at]}
  ELSE IF src.at - 1 \in DOMAIN heap THEN {heap[src.at - 1].str}
  ELSE [len : Lengths, txt : {Junk}]

\* UPPER$ and LOWER$ pass the ADDRESS of the string as the length to allocate,
\* of which StringTempAllocate keeps the low byte; then they copy the string.
CaseChange(src) ==
  /\ CaseConv /\ Evaluating
  /\ \E s \in Contents(src) :
       \E n \in IF src.at = 0 THEN Lengths ELSE {src.at % Gap} : NewTemp(n, s)

\* Evaluate returns the address for the next target.
Argument(src) ==
  /\ Evaluating
  /\ args' = Append(args, src)
  /\ UNCHANGED <<lowPtr, highPtr, created, storage, heap, tempPtr, temps,
                 stack, op, oom, wild>>

\* Any error while the statement is evaluated or between two parameters.
Abort ==
  /\ op # NoOp /\ ~wild
  /\ EndStatement
  /\ UNCHANGED <<lowPtr, highPtr, created, storage, heap, stack, oom, wild>>

(***************************************************************************)
(* StringAssign(v, src, s, low): src goes to v; s is what src reads as     *)
(* when it starts, and low is lowPtr.                                      *)
(***************************************************************************)
Capacity(n) == IF n + Spare < MaxLen THEN n + Spare ELSE MaxLen
BlockSize(b) == b.cap + 2

\* The string pointer lies in the string area.
HasBlock(v) == storage[v] # 0 /\ storage[v] >= highPtr
FitsAlways(v, s) == HasBlock(v)                       \* mutant
FitsNever(v, s) == FALSE                              \* mutant
Fits(v, s) == HasBlock(v) /\ heap[storage[v] - 1].cap >= s.len

\* The bottom-most block is given back before the new one is taken.
Returned(v) == IF HasBlock(v) /\ storage[v] - 1 = highPtr THEN {highPtr} ELSE {}
NewBlockShort(v, s) ==                                \* mutant
  (IF Returned(v) = {} THEN highPtr ELSE highPtr + BlockSize(heap[highPtr]) - 1)
    - (Capacity(s.len) + 2)
NewBlock(v, s) ==
  (IF Returned(v) = {} THEN highPtr ELSE highPtr + BlockSize(heap[highPtr]))
    - (Capacity(s.len) + 2)

\* Copying upwards to p from a source just below p repeats the first bytes.
Copied(src, s, p) ==
  IF src.at \in DOMAIN temps /\ src.at < p /\ Hit(src.at, s, p, p + s.len)
    THEN [s EXCEPT !.txt = Junk] ELSE s

\* The statement ends with its last target; until then lo..hi is overwritten.
Bound(lo, hi) ==
  IF op.done + 1 = Len(op.targets) THEN EndStatement
  ELSE /\ op' = [op EXCEPT !.done = @ + 1]
       /\ temps' \in Scribbled(temps, lo, hi)
       /\ UNCHANGED <<args, tempPtr>>

CopyInPlace(v, src, s) ==
  LET p == storage[v] IN
  /\ Fits(v, s)
  /\ heap' = [heap EXCEPT ![p - 1].str = Copied(src, s, p)]
  /\ Bound(p, p + s.len)
  /\ UNCHANGED <<highPtr, storage>>

\* The capacity is stored as a word, over the bytes b and b + 1, before the
\* string is read again and copied.
Reread(src, s, b, cap) ==
  IF src.at \notin DOMAIN temps \/ ~Hit(src.at, s, b, b + 1) THEN s
  ELSE [len |-> IF src.at = b THEN cap ELSE IF src.at = b + 1 THEN 0 ELSE s.len,
        txt |-> Junk]

CopyToNewBlock(v, src, s, low) ==
  LET b   == NewBlock(v, s)
      cap == Capacity(s.len)
      r   == Reread(src, s, b, cap)
  IN
  /\ ~Fits(v, s) /\ b >= low
  /\ highPtr' = b
  /\ storage' = [storage EXCEPT ![v] = b + 1]
  /\ heap' = With(Without(heap, Returned(v)), b,
                  [cap |-> cap, str |-> Copied(src, r, b + 1)])
  /\ Bound(b, b + 1 + r.len)

StringAssign(v, src, s, low) ==
  CopyInPlace(v, src, s) \/ CopyToNewBlock(v, src, s, low)

\* Out of memory: highPtr has been moved already.
AssignFails(v, s, low) ==
  /\ NotCrossed                                       \* bound
  /\ ~Fits(v, s) /\ NewBlock(v, s) < low
  /\ highPtr' = NewBlock(v, s)
  /\ OutOfMemoryError
  /\ UNCHANGED <<storage, heap, wild>>

(***************************************************************************)
(* LET.  The variable is created before the right hand side is evaluated.  *)
(***************************************************************************)
Let(v) ==
  /\ Ready
  /\ \/ CreateFails(v)
     \/ \E c \in Clones :
          /\ ~CannotCreate(v)
          /\ lowPtr' = LowWith(v, c) /\ created' = created \cup {v}
          /\ wild' = CloneOverruns(v, c)
          /\ StartOp("let", <<v>>)
          /\ UNCHANGED <<highPtr, storage, heap, tempPtr, temps, stack, args, oom>>

AllEvaluated(name) ==
  op.name = name /\ Len(args) = Len(op.targets) /\ ~wild

AssignLet ==
  /\ AllEvaluated("let")
  /\ LET v == op.targets[1] src == args[1] IN
     \E s \in Contents(src) :
       \/ /\ StringAssign(v, src, s, lowPtr)
          /\ UNCHANGED <<lowPtr, created, stack, oom, wild>>
       \/ /\ AssignFails(v, s, lowPtr)
          /\ UNCHANGED <<lowPtr, created, stack>>

(***************************************************************************)
(* PROC: first every argument is evaluated, then parameter by parameter    *)
(* LocalProcessVariable and StringAssign.                                  *)
(***************************************************************************)
Marker == [kind |-> "proc"]
Loop == [kind |-> "loop"]     \* any other frame (see ControlFlow)

PushedBlock(v) ==                                     \* mutant
  IF storage[v] = 0 THEN stack
  ELSE LET b == heap[storage[v] - 1] IN
       Append(stack, [kind |-> "local", var |-> v,
                      str |-> [b.str EXCEPT !.len = BlockSize(b)]])

\* LocalProcessVariable stacks a copy of the string; nothing for an unset one.
Pushed(v) ==
  IF storage[v] = 0 THEN stack
  ELSE Append(stack, [kind |-> "local", var |-> v, str |-> heap[storage[v] - 1].str])

Proc(ps) ==
  /\ Ready /\ Len(stack) < MaxStack                   \* bound
  /\ stack' = Append(stack, Marker)
  /\ StartOp("proc", ps)
  /\ UNCHANGED <<lowPtr, highPtr, created, storage, heap, tempPtr, temps, args,
                 oom, wild>>

BindParameter ==
  /\ AllEvaluated("proc")
  /\ LET k   == op.done + 1
         v   == op.targets[k]
         src == args[k]
         low == LowWith(v, 0)
     IN
     \/ CreateFails(v)
     \/ /\ ~CannotCreate(v)
        /\ lowPtr' = low /\ created' = created \cup {v}
        /\ stack' = Pushed(v)
        /\ \E s \in Contents(src) :
             \/ /\ StringAssign(v, src, s, low)
                /\ UNCHANGED <<oom, wild>>
             \/ AssignFails(v, s, low)

Local(v) ==
  /\ Ready /\ Len(stack) < MaxStack                   \* bound
  /\ \/ CreateFails(v)
     \/ \E c \in Clones :
          /\ ~CannotCreate(v)
          /\ lowPtr' = LowWith(v, c) /\ created' = created \cup {v}
          /\ wild' = CloneOverruns(v, c)
          /\ stack' = Pushed(v)
          /\ UNCHANGED <<highPtr, storage, heap, tempPtr, temps, op, args, oom>>

(***************************************************************************)
(* ENDPROC: LocalRestore copies every string above the last marker back    *)
(* into the storage its variable has NOW, from the top of the stack down,  *)
(* so the oldest entry of a variable is the one that stays.  It does not   *)
(* compare lengths and capacities.  Then the marker goes; if the frame of  *)
(* a loop is there instead, it stays, and ENDPROC is an error.             *)
(***************************************************************************)
LastOther == SelectLastInSeq(stack, LAMBDA f : f.kind # "local")
LocalFrames == (LastOther + 1)..Len(stack)
AfterEndProc ==
  SubSeq(stack, 1, IF LastOther # 0 /\ stack[LastOther].kind = "proc"
                     THEN LastOther - 1 ELSE LastOther)
FrameFits(f) == storage[f.var] # 0 /\ f.str.len <= heap[storage[f.var] - 1].cap

Newest(own) == CHOOSE i \in own : \A j \in own : j <= i          \* mutant
RestoredFrom(own) == CHOOSE i \in own : \A j \in own : i <= j

EndProc ==
  /\ Ready
  /\ wild' = (\E i \in LocalFrames : ~FrameFits(stack[i]))
  /\ heap' = [a \in DOMAIN heap |->
       LET own == {i \in LocalFrames : storage[stack[i].var] = a + 1} IN
       IF own = {} THEN heap[a]
       ELSE [heap[a] EXCEPT !.str = stack[RestoredFrom(own)].str]]
  /\ stack' = AfterEndProc
  /\ UNCHANGED <<lowPtr, highPtr, created, storage, tempPtr, temps, op, args, oom>>

\* A structure (FOR, REPEAT, WHILE, IF) or GOSUB is entered or left.
Structure ==
  /\ Ready
  /\ \/ Len(stack) < MaxStack /\ stack' = Append(stack, Loop)     \* bound
     \/ stack # <<>> /\ Last(stack) = Loop /\ stack' = Front(stack)
  /\ UNCHANGED <<lowPtr, highPtr, created, storage, heap, tempPtr, temps, op,
                 args, oom, wild>>

ParamLists == UNION {[1..n -> Vars] : n \in 1..MaxParams}

Next ==
  \/ \E v \in Vars : Let(v)
  \/ \E v \in Vars : Local(v)
  \/ \E ps \in ParamLists : Proc(ps)
  \/ \E n \in DimSizes : Dim(n)
  \/ Clear
  \/ \E s \in Strings : Temp(s)
  \/ \E src \in Sources : CaseChange(src)
  \/ \E src \in Sources : Argument(src)
  \/ Abort
  \/ AssignLet
  \/ BindParameter
  \/ EndProc
  \/ Structure

Spec == Init /\ [][Next]_vars

-----------------------------------------------------------------------------
(***************************************************************************)
(* Properties.                                                             *)
(***************************************************************************)
Texts == {s.txt : s \in Strings} \cup {Junk}
AnyString == [len : Lengths, txt : Texts]
Block == [cap : Lengths, str : AnyString]
Frame == [kind : {"proc", "loop"}] \cup [kind : {"local"}, var : Vars, str : AnyString]
Source == [at : Int, val : AnyString]

\* Every variable has its type (data.asm and the layout of the block).
TypeOK ==
  /\ lowPtr \in Nat /\ highPtr \in Int
  /\ created \subseteq Vars
  /\ storage \in [Vars -> Int]
  /\ DOMAIN heap \subseteq Int /\ heap \in [DOMAIN heap -> Block]
  /\ tempPtr \in Int
  /\ DOMAIN temps \subseteq Int /\ temps \in [DOMAIN temps -> AnyString]
  /\ stack \in Seq(Frame)
  /\ op \in [name : {"none", "let", "proc"}, targets : Seq(Vars), done : Nat]
  /\ args \in Seq(Source)
  /\ oom \in BOOLEAN /\ wild \in BOOLEAN

EndOf(a) == a + BlockSize(heap[a])

\* The blocks tile the memory from highPtr to MemTop: each one ends where the
\* next begins, and highPtr is the lowest one unless an out of memory error has
\* left it further down.  (stringconcrete.asm: the growth path gives back the
\* bottom-most block and takes a larger one.)
HeapTiled ==
  /\ \A a \in DOMAIN heap : EndOf(a) = MemTop \/ EndOf(a) \in DOMAIN heap
  /\ \A a, b \in DOMAIN heap : a < b => EndOf(a) <= b
  /\ \A a \in DOMAIN heap : highPtr <= a
  /\ ~oom => highPtr = MemTop \/ highPtr \in DOMAIN heap

\* A string pointer is 0 or points into a block of its own that is large enough
\* for the string in it.  (StringAssign reuses, gives back and abandons blocks;
\* LOCAL copies strings back without looking at the capacity.)
StorageSound ==
  /\ \A v \in Vars : storage[v] # 0 =>
       /\ storage[v] - 1 \in DOMAIN heap
       /\ heap[storage[v] - 1].str.len <= heap[storage[v] - 1].cap
  /\ \A v, w \in Vars : storage[v] # 0 /\ storage[v] = storage[w] => v = w

\* LocalRestore checks nothing, yet what it copies back always fits the block
\* the variable has by then.  (local.asm _LRRecover.)
LocalsFit ==
  \A i \in DOMAIN stack : stack[i].kind = "local" => FrameFits(stack[i])

\* Low memory and the heap do not cross without an out of memory error having
\* been reported.  (VariableCreate, DIMCreateArrayBlock and StringAssign each
\* move a pointer before they compare it.)
NoSilentCrossing == ~oom => lowPtr <= highPtr

\* Nothing but a temp string below lowPtr is ever written outside its area: the
\* missing check of StringTempAllocate is the only one that is missing.
OnlyTempsOverrun == wild => (tempPtr # 0 /\ tempPtr < lowPtr)

\* Until CLEAR a variable's storage never shrinks, so a string that was in it
\* once can always be put back.
StorageNeverShrinks ==
  [][\A v \in Vars : storage[v] # 0 /\ storage'[v] # 0 =>
       heap'[storage'[v] - 1].cap >= heap[storage[v] - 1].cap]_vars

\* LET gives the variable the string its right hand side evaluated to.
\* (Basic Internals: the gap below the heap "is sufficient for any string
\* length required"; StringAssign takes the new block out of that gap.)
LetStoresValue ==
  [][AssignLet /\ oom' = oom =>
       LET v == op.targets[1] IN heap'[storage'[v] - 1].str = args[1].val]_vars

(***************************************************************************)
(* The string store this memory implements.                                *)
(***************************************************************************)
valueBar == [v \in Vars |->
               IF storage[v] = 0 THEN Unset ELSE heap[storage[v] - 1].str]
argsBar == [i \in DOMAIN args |-> args[i].val]

Store == INSTANCE StringStore
           WITH value <- valueBar, saved <- stack, args <- argsBar

\* The memory of blocks, pointers and temp strings behaves as a store of values.
ImplementsStore == Store!Spec
=============================================================================
