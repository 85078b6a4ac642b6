# TLA+ models of Basic65816

Basic65816 is a BASIC interpreter for the 65816 processor: some 6300 lines of
assembly under `src/source`, with build scripts in Python and an emulator in C++
that runs it. The interpreter is one program without threads or files, so what is
hard about it differs from what is hard about a server: pointers that are held
while the memory under them is rearranged, registers that must agree and are kept
in step by hand, stacks that outlive the command that filled them, copies within
one area of memory, arithmetic that wraps round, and a screen and keyboard that
change between any two instructions. This directory models the interpreter, its
host tokeniser and block builder, and the loop of the emulator; checks the models
with TLC; and proves the central invariants with TLAPS.

## 1. The system

| Component | Source | State | Operations | Talks to |
|---|---|---|---|---|
| String memory | `utility/stringconcrete.asm`, `utility/stringtemp.asm`, `commands/let.asm`, `local.asm`, `dim.asm`, `unary/caseconv.asm` | low and high memory pointer, blocks, temp string pointer, string pointers of variables | `StringAssign`, `StringTempAllocate`, LET, LOCAL, parameters, ENDPROC, CLEAR | expressions (temp strings), variables, BASIC stack |
| Run loop and structures | `commands/run.asm`, `basic.asm`, `if.asm`, `for.asm`, `repeat.asm`, `while.asm`, `transfer.asm` | `DCodePtr`, `DLineNumber`, `DStack`, token buffer, program text | prompt, RUN, NEW, CLEAR, END, every structure and jump, errors, break | program text, BASIC stack, 65816 stack |
| Procedures | `commands/procedure.asm`, `local.asm` | `PRMBuffer`, BASIC stack | PROC, ENDPROC, LOCAL | run loop, variables, strings |
| Variables, arrays | `variable.asm`, `dim.asm`, `let.asm` | hash heads, chains of records, array blocks | find, create, subscript, DIM, LET | low memory, expressions |
| Line editor | `utility/editline.asm`, `basic.asm`, `scripts/basicblock.py` | linked lines in memory | insert, replace, delete, build a block on the host | prompt, low memory |
| Expressions | `expression.asm`, `binary/*`, `data.asm` | expression stack above the BASIC stack | precedence climbing, types, 32 bit operators, comparison | unary functions, variables, 65816 stack |
| Unary functions | `unary/*` | temp strings | LEFT$, MID$, RIGHT$, INSTR, STR$, VAL, … | expressions, string memory |
| Tokeniser, LIST | `utility/tokeniser.asm`, `commands/list.asm`, `scripts/tokeniser.py` | token buffer, indentation | text to tokens, tokens to text | prompt, line editor |
| Console | `utility/hwinterface.asm` | screen memory, cursor, `LastKey`, input line | print, tab, scroll, screen editor, read a line | keyboard port, PRINT, prompt |
| Emulator shell | `emulator/framework/*`, `emulator/sys_processor.cpp` | key record, run mode, breakpoints, displayed addresses, cycle count | event loop, debugger commands, run a frame, keyboard port | processor, console |
| Sessions | `basic.asm`, `temp/block.inc` | block header | enter, boot, warm start | all |
| Build scripts | `scripts/*.py` | – | token tables, program blocks, test programs | build and tests |
| PRINT, POKE, LINK, … | `commands/*.asm` | – | one statement each | console, raw memory |
| VICE | `core/vice-3.3` | – | vendored emulation | – |

Components call each other directly. They share the two memory pointers (strings
come down from `Block_HighMemoryPtr`, records and arrays go up from
`Block_LowMemoryPtr`, temp strings lie in between without being accounted for), one
data page (parameter buffer, BASIC stack, expression stack and 65816 stack), and
`DCodePtr`/`DLineNumber`. An error may come from anywhere and goes straight to the
prompt: it resets the 65816 stack, and **not** the BASIC stack, the memory pointers
or the variables. The emulator meets the interpreter at three places: the keyboard
port, the break flag at the end of a frame, and the program counter.

### What is hard, and what makes each part correct

* *String memory.* Blocks must tile the memory; each variable must own a block large
  enough for its string after any sequence of growing, giving back the lowest block,
  LOCAL and ENDPROC (which copies back without comparing lengths). A LET must store
  what was evaluated although its source may lie where the new block is taken.
* *Run loop.* `DLineNumber` must be the number of the line `DCodePtr` is in; every
  jump keeps the two in step in its own way, and messages and the end of a line rely
  on it. What a structure leaves on the stack must agree with the level counter of
  `ScanForwardLevel` on every path.
* *Line editor.* Lines are moved over themselves word by word; direction and count
  decide whether the program survives.
* *Variables and procedures.* Names that share a first word share a chain; records,
  copied names and arrays come from one pointer; ENDPROC must undo any LOCALs and a
  parameter list that failed half way.
* *Expressions and numbers.* The type of a level is a bit that earlier evaluations
  left behind; signs, carries and wrapped differences decide division, comparison
  and loops.
* *Tokeniser and LIST.* Two tokenisers must agree, and a listing must read back.
* *Console and emulator.* A key arrives in the middle of anything; several keys are
  handled in one frame; a breakpoint can outlive its run.

`PROJECT.json` lists each hazard at its line, with the property that is about it.

## 2. Modules

| Module | Role |
|---|---|
| `StringStore` | what string variables promise: values, LET, PROC, LOCAL, ENDPROC, no memory |
| `StringHeap` | the string memory as the code does it: addresses, capacities, pointers |
| `ControlFlow` | run loop, prompt, structures, jumps, frames of the BASIC stack |
| `ProgramStore` / `LineEditor` | a map from numbers to lines / the linked words in memory, moved one at a time |
| `VariableStore` / `Variables` | names with integers and arrays / hash chains, records and array blocks in a bank |
| `ScopeStore` / `Locals` | scopes with saved values / frames, parameter buffer and LOCAL entries |
| `ExpressionTree`, `Expression` | the value of an expression from its grammar / the precedence climber with its levels |
| `DataPage` | where the stacks of the data page lie while expressions and calls run |
| `Arithmetic` | multiply, divide, modulus and shifts, one bit a step |
| `Comparison`, `Conversion`, `Substring`, `Counting` | relational operators; STR$ and VAL; parts of strings and INSTR; FOR and NEXT |
| `TokenReference`, `Tokeniser`, `Listing` | tokens as the host makes them / the native tokeniser / LIST |
| `Terminal` / `Console` | a page of rows / screen memory, scroll loops, keyboard port |
| `Emulator` | host loop, debugger keys, breakpoints, frames |
| `MC…` | instances for TLC; `MCStore`, `MCText` and `MCNumbers` put several modules side by side |
| `…Proofs`, `SequenceLemmas` | theorems and proofs |

### The correspondence to the code

**StringHeap.** A permanent block at address *a* holds its capacity at *a*, the
length at *a + 1* and the characters after that; `storage[v]` is the address of the
length byte, as in a variable's record. `heap` maps a block's address to its capacity
and string, abandoned blocks included; `temps` does so for temp strings. A string is
a length and a name for its characters; writing over part of it changes the name to
`Junk`. A statement is several actions, because the hazard lies between them:
`Let(v)` or `Proc(ps)` begins it, `Temp` and `CaseChange` make temp strings,
`Argument` records the address an expression yields and the value there *then*,
`AssignLet` or `BindParameter` runs `StringAssign` on what is there *now*, `Abort` is
any error in between. `StringAssign` ends as `CopyInPlace`, `CopyToNewBlock` or
`AssignFails`; `EndProc` is `LocalRestore`. When something is written outside the area
meant for it (`wild`) the interpreter's own data are damaged and the model stops;
`OnlyTempsOverrun` says when that can happen. `oom` remembers an out of memory error,
because errors do not move the pointers back.

**ControlFlow.** A program is a sequence of numbered lines of statements `[tok, arg]`; the
place `<<l, i>>` is `DCodePtr`, line 0 the token buffer. One action per statement, plus
`EndOfLine`, `Break`, `Fail` (an error before the statement has an effect), and what is
typed: `TypeCommand`, `TypeLine`, and `TypeNoCommand` for an empty line and for one that
the tokeniser or the test for line 0 refuses. Only RUN of the token buffer sets
`DLineNumber` to 0, so that a refusal is reported with the line the last command stopped
in; `ErrorsNameTheirLine` is about statements that are run (section 5). Conditions and
loop counts are nondeterministic, so that every path is taken. `Scan` is
`ScanForwardLevel` with its level counter and both of its token classes. Frames that point
into the token buffer become `Nowhere` when the next command is typed over it; going
there, or scanning out of the buffer, ends in mode `lost`. Syntax checks and expressions
are abstracted to their result.

**LineEditor.** Memory is words at even addresses; `pc` and the variables `x`, `y`,
`t1` … are the loops and registers of `editline.asm`. Each loop moves one word a step.
The host's `AddBASICLine` and `Boot` make the states the prompt starts from; a
program may hold strings with zero words in them. `listing` is the program as it was
at the last prompt, which is what `ProgramStore` sees.

**Variables.** The bank is a function from even addresses to words: hash heads,
records of eight bytes (link, address of the name, value), names copied from the token
buffer, array blocks. `Find` walks the chain and compares names word by word. `Begin`
to `Store` is a statement with the evaluation in the middle, which may fail; `Dim` and
`DimSize` are the two halves of DIM, of which the first leaves a record when the second
fails. Variables of one letter, A to Z, have no record but a fixed place below the hash
heads (`variable.asm:99`); they are in `Locals` and not here, so `Find` begins where
the code has found that a name is longer.

**Locals.** A call pushes its frame, evaluates the arguments into the buffer, then
binds one parameter a step (`BindParameter`), each of which may fail. `LocalRestore`
is the function `Restored`: entries are put back (`PutBack`) from the top of the stack
down to the first thing that is not one (`Base`). Integer values are here; `StringHeap` has
the strings. `Fast` are the variables of one letter: CLEAR, NEW and RUN clear the hash heads
only (`run.asm:206-215`), so these keep their values (`Cleared`), in `ScopeStore` too.

**Expression.** `ex` and `x` are the expression stack and its index; what the callers
of the open levels do on return is the sequence `calls`. A level keeps its old type
bit until a routine sets it, which is what `Stale` makes visible. Strings are addresses
of temp strings; a sum of two whose length would not fit a byte is an error. The errors of
the operators are actions of their own: `AddFails`, `ConcatenateFails`, `CompareFails`,
`NumericFails`. `LEN(`, `CHR$(` and `T(` stand for the functions of one string, of one
integer, and for arrays.

**DataPage.** Sizes and places only: frames upwards, levels sixteen bytes above them,
callers' words downwards, the columns of the parameter buffer. NEXT takes its frame
off before it evaluates target and step, and reads it after.

**Arithmetic, Conversion, Comparison, Substring, Counting.** One turn of each loop is
a step, on words of a parameterised width; carries and signs are those of the code.

**Tokeniser, Listing.** One item of a line is a step. Lines are character codes and
tokens records of what the words hold, with sizes in bytes, so that the end of the
token buffer can be met. `Listing` has the indentation scan, the padding loop on a
byte length, and the spacing behind keywords.

**Console.** `pc` is the loop the processor is in and `x` its index. Scrolling moves
two bytes a step, in place. Keys go down and up at any time, any number of them
together. The port changes only in `Frame`: the scan of the host keeps the held key with
the highest code (`Topmost`), and when that is another one than in the last frame its
character is shown, as Shift and Ctrl are then (`Shows`). `press`, `portPress` and
`readPress` number the key presses, `fresh` says that the port went over to a key after
the last one was read, `alone` that no key ever went down while another was held; they are
auxiliary.

**Emulator.** `phase` is the statement the host thread is at: it takes events, then
handles one frame key by key, in the order of the code (of the keys held the one with the
highest code counts, letters with that of their lower case: `CurrentKey`), then runs the
processor one instruction a step. The processor is external: a graph of addresses with the
opcodes the host looks at.

## 3. Runs

| Run | Shows |
|---|---|
| `heap_short` | Strings that fit the gap, arrays, nested LOCALs, loops, CLEAR, out of memory: the store of strings is implemented, pointers do not cross silently, only temp strings are written out of place, storage never shrinks |
| `heap_any` | The heap stays tiled, pointers sound and LOCALs fitting even where values do not survive: long strings, two parameters, UPPER$/LOWER$ |
| `heap_gap` | **violated** `LetStoresValue`: a new block is taken out of the gap and runs over the temp string that is copied into it |
| `flow_nested` | All well nested programs of six statements (two a line), programs with calls and jumps inside structures, and one without a way back: the stack mirrors the nesting, no structure error occurs, and what only leads forward comes back to the prompt |
| `flow_frames` | Badly nested programs, edits, errors, RUN and NEW in programs, structures typed at the prompt and lines it refuses: line number and code agree, frames are sound, the message of a statement that fails names its line |
| `editor_edit` | Three line numbers, programs made by the host and edited at the prompt: links, order and low memory pointer are right, each edit changes one line only, and ends |
| `emulator_keys` | Debugger keys held in every combination over a program with calls, a NOP and a COP, in frames of two instructions: the displayed address follows the processor, a run has no stale breakpoint, and the frame handler returns |
| `console_line` | Three presses of two keys, also together, and an output call in any interleaving with scrolls, tabs and frames: the screen is the page of a terminal, what the port goes over to is read once, each press once when keys go down one at a time, and the selected key is read |
| `store_all` | Four statements over two integers and two arrays that share chains and first words of names; calls, LOCALs, ENDPROC, CLEAR and errors on a stack of five, over one variable with a record and one without: areas do not overlap, one variable changes at a time, scopes are restored; on the page they use, levels spare the frames, NEXT's included, and eight parameters arrive |
| `expression_all` | All expressions of three tokens, sums of three terms and bracketed sums, with strings that pass the limit of a length when joined, have the value, type and errors of their trees |
| `text_lines` | All lines of five characters become the host's tokens within the buffer; listed lines read back; indentation shows the nesting for every range |
| `numbers_all` | Products and quotients of six bits, numbers of eight bits in all bases, loops of five bits; comparison, LEFT$, RIGHT$, MID$, INSTR and shifts as the generated tests assert |

`heap_gap` contradicts what the repository says of the code; `findings` in
`PROJECT.json` quotes the line. `heap_short` and `heap_any` have to be read with it:
the first is the memory under the condition that strings fit the gap, the second shows
that the heap's own structure does not depend on that.

### Several modules in one run

`MCStore`, `MCText` and `MCNumbers` hold modules that take turns on the one processor
and share no state that their models have in common. Such a module has a variable (`part`, `routine`) that is chosen at the start; the part that is not chosen
rests in an initial state. The next-state relation is the disjunction of the parts,
each of which leaves the other's variables alone. What the refinements promise is
then stated for the moving part: `ImplementsVariableStore` and `ImplementsScopes` are
the abstract specifications with the guard on `part` in the step. `MCEmulator`
has two users, whose sets of keys and start conditions differ; `Edit` is the module
once more with the second set.

### Bounds, and why they are enough

* *String memory.* Addresses are scaled: strings up to 4 characters (255 in the code),
  1 or 2 spare bytes (8), a gap of 5 (256), records of 2 (8), 16 to 18 bytes between
  program and `MemTop`. What matters is the order of these numbers: strings that fit
  the gap and strings that do not, capacities limited by the maximum and not, room for
  three or four blocks, so growth, giving back, abandonment and both kinds of out of
  memory within a few statements. The gap is one more than the longest string, as in
  the code. Two variables give a block below, above and between. Pointers that have
  crossed are not moved again, since every later allocation fails in the same way. The
  two variables are interchangeable in `heap_any`, which has invariants only: symmetry.
* *Programs* of six statements hold every nesting of depth three and every pair of
  structures in sequence, with lines split inside structures; hand-written ones add
  calls inside structures and structures inside procedures. `MaxStack` 4 or 5 cuts
  deeper recursion, which repeats the same frames; `MaxCpu` bounds the words RUN leaves
  on the 65816 stack.
* *Line editor.* Three numbers (a line in front, between and behind), an empty body, a
  short one and one with a zero word in a string, and room for a program of all three
  lines being moved. `MemLast` is where an insertion that would go on into other memory
  is not made.
* *Variables.* A space of 128 bytes with 52 free: four statements make every
  order of records, copied names and arrays, and run out of memory; sizes −1 to 1
  and subscripts −1 to 2 have the sign checks, the last element and the one after it.
  *Locals.* Procedures that take the variables in both orders, twice, or with a string
  or array; arguments that are the variables themselves, too few, too many, of the
  wrong type, or errors.
* *Expressions.* Two operators of equal and of different precedence on either side,
  each operand bracketed, a function, an array element or negated; long words of six
  bits with halves of four and two, so that limits of CHR$ and of subscripts are met;
  strings of two and three characters in lengths below eight, so that the sums of three
  strings fall below the limit, on it and above.
  *Data page*: the addresses and sizes of `data.asm`; four frames, four levels, eight
  parameters.
* *Numbers* are exhaustive in small words: all signs, carries and wraps occur, and
  limits are where the code has them (half the words, the byte of a length, the
  largest power of a base). `Counting` leaves out the steps 0, which never ends, and
  half the words.
* *Text.* A keyword table with every kind of entry the real one has; a buffer of ten
  bytes, so that the last word, a string and a shifted constant meet its end.
* *Console.* A page of two rows of four cells with tabs of two: every call meets the
  end of a row and of the page, so that one output call and the echo of the keys scroll.
  Two keys are one above and one below the other in the host's scan; three presses are
  enough to hold one while the other is tapped, or to hold a key while a statement runs and
  press it again.
* *Emulator.* Frames of two instructions end inside calls and on breakpoints; a
  subroutine that calls again fills a processor stack of two.

Deadlock is checked in `flow_nested`. The other models do stop: after a closed window,
a result, a bound, or damaged data (`wild`, `lost`).

### Fairness

Each assumption is weak and says that something which runs by itself goes on; nothing
is assumed about what is typed, which way a condition goes, or that a bounded
environment acts.

* `flow_nested`: `WF_vars(Step)`. `run.asm` goes from a statement to the next without
  waiting for anything.
* `editor_edit`: `WF_vars(Editor)`. The editor is a loop of the only processor.
* `console_line`: `WF_vars(Console)`, the loops of `hwinterface.asm`, and
  `WF_vars(Frame)`, the host's frames, which come by its clock and in which the port is
  written. Keys and the program's calls have no fairness.
* `emulator_keys`: `WF_vars(Handler)`. The host thread reads the events there are
  (`SDL_PollEvent` does not wait) and goes on to the frame.

## 4. Proofs

The theorems hold for **every** value of the constants under the assumptions named in
each module; none of them bounds a memory, a program or a word.

`ControlFlowProofs` (`ProgramsAssumption`: programs are sequences of statements with
positive line numbers): `TypeCorrect`, `LineTheorem`, `FramesTheorem`, and `ErrorTheorem`
for statements that are run. Neither of the middle two is inductive alone. A jump back to
a frame keeps the line number right only because the frame is sound, and a frame is sound only because the
line number was right when it was stacked. `IInv` is the conjunction of the types, of
`LineMatchesCode` and of "the stack is a sequence of sound frames". The lemmas follow
the code: one for each building block (`Resume`, `GoTo`, `Scan`, `Report`,
`StartLine`), one for each action.

`NestingTheorem` and `NoStructureTheorem` (`MirrorsNesting`, `NoStructureErrors`) have
the hypothesis `TypedToRun`: what is typed goes into a program by RUN only, as in
`flow_nested`. A loop typed at the prompt that jumps into the program, or a word that
closes a structure typed after an error, is not in the program's text, and the
statements are false of it. What is open in front of each place of a program follows from
what is open in front of the place before (`OpenAlong`, `OpenAfterLines`); that such
functions exist at all is `Iterates` of `SequenceLemmas`. In a well nested program
nothing is ever closed that is not open, since a "bad" would stay to the end
(`Balanced`). The counter with which `if.asm` and `while.asm` scan is the number of words
of the one kind opened less those closed, so it follows the structures open: the
first place where it is back is where the structure begun is closed, there is one, and
what is open behind it is what was open in front (the lemmas under "Scans"). The inductive
invariant `Nesting` says of the frames what `Mirrored` says: each stands for a structure
or a call (`Nests`), they stand together for what is open at the code pointer, and each leads
to a place where what is open is what is on the stack when it is gone back to. That
is needed for all frames and not for the top one only, as a jump back comes long after the
frame was stacked, and ENDPROC drops several. What the frames stand for can be read off
the stack in one way only (`ContextIs`), which gives the property.

`StringHeapProofs` (`LayoutAssumption`: sizes are natural numbers, the gap is not empty,
`MemStart < MemTop`; `StringsAssumption`: no string is longer than `MaxLen`): `HeapTypes`,
`TiledTheorem`, `StorageTheorem`, `LocalsTheorem`, `GrowthTheorem`, and
`CrossingTheorem` under `Clones = {0}`, without which it is false (section 5). They
depend on each other: what LOCAL stacked fits when it is put back because storage never
shrinks; storage never shrinks because a variable with storage always has its block at
`highPtr` or above, so `StringAssign` never mistakes it for a literal; and blocks stay
apart because a new one is taken only while `highPtr` is the lowest block or `MemTop`.
After an out of memory error it is not, but then the pointers have met, and every
allocation fails until CLEAR. `InPlaceMem`, `NewBlockMem` and `FailedMem` are the three
ways `StringAssign` can end, `EndProcMem` is `LocalRestore`.

Two more results have hypotheses. `OverrunTheorem` (`Clones = {0}` and
`MemStart > 2 * MaxLen + 2 * Gap + 3`): only temp strings are written out of their
area. `tempPtr` is 0 where there is no temp string, so an address of a temp string
must not become 0 by subtraction; the machine's layout, with some 1030 bytes below the
memory, is far from that, and `heap_short` has the hypotheses too. `TempsPlaced` says
where the pointer is while a statement is evaluated. `StoreImplemented` (`PlainProgram`:
at most one parameter, no UPPER$ or LOWER$, strings whose capacity and two bytes more
fit the gap): each step of the memory is a step of `StringStore` or stutters. Outside
it the store is not implemented (`heap_gap`, section 5). The invariant `StoreInv` adds
five facts to the structure of the heap: what the variables and the frames hold are
strings some expression yields (`LiveStrings`, `GenuineFrames`), temp strings end below
the gap that the next block is taken from (`TempsApart`), a statement has one target
(`OneTarget`), and the source of the assignment still reads as it did when it was
evaluated (`ArgsCurrent`), which is what the in place copy and the new block must not
spoil before they have read it.

`LineEditorProofs` (`LineEditorAssumption`: an even start and memory within a word;
`BodiesAssumption`: a tokenised line has no token that is a zero word, its strings have
even lengths and end within it): `EditingKeepsProgramSound`, `VariablesStartPastProgram`,
`EditingImplementsStore`. The only bound of the model is `Bounded`, that a line typed
has room, for which the code has no check (section 5). A program is described without
its memory: `p` has the addresses of the lines, the end, and a number and a body for
each line, and `Holds(m, p)` says that the words of `m` are that program. The functions
that read memory (`FindCodeEnd`, `LinesOf`, `TokensAt`) find just `p`; this is shown from
the highest address down (`Descent`), since links lead upwards. `Without` and `With` are
the program after deletion and insertion, and `WithoutHolds` and `WithHolds` say that
memory moved completely is that program. The invariant `Inv` has one clause for each
place of the code: in the copy of `LineDelete` the words behind `x` are where they go
and the others where they were, in the move of `LineInsert` the same from the top
down, then the header and the tokens written so far. That the words not yet moved have
not been written over is why the one loop must run up and the other down.

`EmulatorProofs` (`EmulatorAssumption`: key codes, and a program whose calls have a
place to return to): `EmulatorTypes`, `DisplayFollowsProcessor`, `RunHasNoStepBreak`.
The displayed address is stale in the middle of the handler and only while it runs;
`IInv` says at which statements it has to be right already (`HomeUnlessRunning`), and
that a step breakpoint is there only for a run that a step over began, or before the
statement that clears it. Keys are handled in a chain, so each lemma is about one
statement with everything held that may be held.

`ConsoleProofs` (`ConsoleAssumption`: an even width that is a multiple of the tab
distance): `CursorOnScreen`, that the cursor and the indices of the copy loops stay in
the screen, `PressesReadOnce`, and `TerminalImplemented`, the refinement of `Terminal`.
The first needs the parity of the index and that the scroll loop starts at 0 and ends
exactly at `Size - Width`. The second has two parts. A key is read only while the port
shows one that it went over to after the last was read (`fresh`). As long as keys have gone
down one at a time (`alone`), the key held is that of the last press, it is the one selected if
the port has shown that press, and so a key the port goes over to is that of a later press
(`PressesInOrder`). In the third the page is ahead of the
memory: when a scroll begins the page has scrolled, and the steps of the loops show
nothing, since the words not copied yet are counted as where they go. For that the
cursor must wait in the last row, and the blank loop have blanked what it has passed
(`ScrollWaits`).

`LineEditorProofs` also has the token buffer the lines come from, where `Tokeniser` is an
instance with variables of its own (`TextsAssumption`; `EvenBuffer`: its size is even and
more than two words): `TokensStayInBuffer`. The check looks for one place only, the end of
the page, and not for places behind it. That this is enough follows from what `EmitFits`
shows of every token: it takes an even number of bytes and all the even places among them
are written (`WritesFacts`), so that of the tokens of an item the one that would cross the
end writes the last word of the page first.

`LIST` is the third part of it, with `Listing` as an instance (`ListingAssumption`: lines
of at most `ByteTop` tokens, with numbers that LIST accepts): `IndentFollowsStructure`, for
every program that closes no structure it has not opened (`Balanced`), every range and
wherever the listing is broken off. `IndentShows` counts the opening and closing words of
whole lines, `ScanIndent` goes through the tokens of one; between them stands `Depth`, the
words up to a token counted (`Until`), which a token changes as `ScanIndent` does
(`DepthFacts`, where `Balanced` excludes that the depth is held at 0). The invariant
`Indents` says that `DIndent` is what is open behind the lines scanned and, while a line is
shown, `DIndent2` what was open before it.

`StoreProofs` is about the specification of `MCStore`, whose constants are general; the
parts that move there are independent.
* *Calls* (`LocalsAssumption`: names of one kind are not of another, procedures have their
  parameters and calls their arguments): `ScopesAreImplemented`. `Scopes` reads the
  sequence of scopes off the stack, one entry after the other from the bottom; `PutBack`
  runs from the top. Both are functions of how far they have come, and what they reach is
  compared by induction on that number, which is carried out with the least place where
  they differ (`Iterates` is that such a function exists at all). What ENDPROC puts back is
  what the top scope saved, the lowest entry of a variable last, as in the
  scope the first entry counts. `CallsInv` adds, for a call whose parameters are being set
  up, that the environment is the caller's with the first of them bound, and that the
  frame is the last thing on the stack below the entries for them: a call that fails
  there shows as a call with so many parameters.
* *The data page* (`DataPageAssumption`): `EvaluationSparesFrames`, from "the first level
  starts at least a word and a frame above `DStack` while a frame is held" (`BaseAbove`);
  and `EightParametersArrive`, under `ColumnsHold`: the columns of the buffer are as far
  apart as they have entries. `Collected` says what the buffer holds after each argument.
* *Variables and arrays* (`VariablesAssumption`, `LayoutAssumption`): `MemoryStaysSound`,
  that is `StoreSound`, and `VariablesAreImplemented`, the refinement of `VariableStore`.
  Both have two hypotheses, without which they are false (section 5): no program asks for
  the subscript 65535 (`Top - 1 \notin Sizes`), and the low pointer does not wrap round
  (`NeverRound`; DIM and a failed allocation add to it without looking at the carry). The
  programs and the memory of `store_all` meet both.
  Where the areas are is described beside the memory: the record of `n` is at `rec[n]`,
  with its typed name it ends at `to[n]`, its block is at `blk[n]` up to `upto[n]`, and 0
  stands for none. `Placed(m, lo, ...)` says that these areas lie below `lo` and apart
  (`SpansApart`), that the words of each chain lead downwards through the records of its
  names and to nothing else, and that records and blocks hold what leads on. The
  invariant `MemoryInv` is that there are such places for the memory at hand, and that
  the address a statement is about to write is that of a value (`Aimed`). New records and
  blocks come from `lo` upwards, so links lead down: `Find`, which follows them, is shown
  to arrive at `rec[n]`, by the number of records it may still look at. `MemorySteps` sorts the steps into those
  that leave memory alone, make a record, store a value, cut out a block and clear the
  tables; `NewRecordPlaced`, `NewBlockPlaced`, `StorePlaced` and `ClearPlaced` are that
  the places hold after each. `Held` is what a variable contains, read at its places; it
  depends on the words of its own record and block only (`HeldAlike`), which no other
  statement writes.

`NumberProofs` is about the specification of `MCNumbers`, where the other four routines
have invariants that hold while they run; `Arithmetic` runs or rests at one of its beginnings.
`AllOperatorsAsTested` puts the shifts, the comparisons and the parts of strings together.
* *Arithmetic* (`ArithmeticAssumption`: `Power` is the table of powers of two up to the
  width): `ArithmeticTypes`, `RemainderNeverOverflows`, `DivisionIsExact`,
  `ProductIsKept`, `ShiftsAreExact`. The invariant of division is that remainder and
  quotient bits so far make up the bits of the dividend so far, that the remainder is
  below the divisor, and that the divisor without its sign is at most half the words:
  so no bit is lost when the remainder is shifted. `Multiplying` is that sum plus
  multiplier times multiplicand is the product modulo the words, whatever falls out at
  the top; `Shifting`, that the word is the operand shifted by the steps done.
* *Counting* (`CountingAssumption`): `NextCounts`. While the body is run the wrapped
  index is the mathematical one (`OnTheWay`), provided there is room for the step
  behind the target (`Near`); then the sign of the wrapped difference is the true one.
* *Comparison* (`ComparisonAssumption`, `Countable`: characters are integers, and the
  shorter of two strings is no longer than half of what a byte counts, beyond which the
  statement is false, section 5): `ComparesAsTested`. For numbers the sign of the upper
  difference, put right by the overflow flag, is the sign of the true difference, and
  the carry stands for the comparison of the lower halves. `Comparing` is that the
  characters passed are equal and that passed and counted make up the shorter length.
* *Substring* (`SubstringAssumption`, `Writable`: characters are integers):
  `ExtractsAsTested`. `Copying` says that the result is the part copied so far and that
  the rest ends where it must; `Searching`, that the key matches at this place from the
  current character to its end, and at no earlier place.
* *Conversion* (`ConversionAssumption`; `Readable`: no case is the least integer in a base
  of which its magnitude is a power, which does not read back, section 5):
  `StringsReadBack`. While powers are stacked each is the base times the next one
  (`Places`), and as there are bits enough the last of them is found before the table
  ends (`Scaling`): when the next overflows, it would have been above the magnitude, or
  have been the half that `Readable` excludes. `Writing` is that the digits so far, the
  one in X and what is left make up the magnitude, and that what is left is less than
  the base times the power, which makes X a digit; `Reading`, that `DTemp1` is the value
  of the characters passed, modulo the words. The value of a string is a function of how
  many characters have been read (`ValueAlong`); `ValueFacts` shows that it has the
  values its definition names: there is such a function (`Iterates`), and two of them
  agree at every number (`UpTo`).

`SequenceLemmas` has the facts about sequences and about least and greatest numbers
that the others share.

*Model-checked only*:
* The comparisons with what a recursion over program text, an expression or a line
  computes: `EvaluatesTree`, `SameTokens`, `ReadsBack`. The induction
  theorems of the library are not available to these provers. The proofs about programs
  and stacks do without: they descend from the highest address, or compare two functions
  of a number at the least one where they differ. The tokeniser and the evaluator are
  recursive in several ways at once, and their references (`TokenReference`,
  `ExpressionTree`) in others. Of the run's `WithinBuffer` the part about the end
  of the buffer is proved, the form of the tokens is checked.
* Liveness: `Finishes`, `EditEnds`, `HeldKeyIsRead`, `FrameReturns`.

## 5. Observed divergences

Where the code does what a reader would not expect, and how the models deal with it.
The step is in the model unless it says that it is left out.

*Strings*
* `procedure.asm:194`: the parameter buffer keeps addresses of strings while earlier
  parameters are assigned. `PROC x(b$,a$)` to parameters `a$,b$` does not swap. In
  `StringHeap`; the refinement is checked with one parameter.
* `caseconv.asm:23`: UPPER$ and LOWER$ pass the string's address, not its length, to
  `StringTempAllocate`. `CaseChange` does so; only `heap_any` has it.
* `variable.asm:286`: the identifier of a variable made at the prompt is copied behind
  its record after the memory check, and can cross the heap. `Clones` has the sizes of
  such copies; `NoSilentCrossing` is claimed with `{0}`.
* `comparison.asm:213`: the characters compared are counted down in a byte and tested
  as signed: of strings that share 129 or more characters none is compared. Strings
  of `Comparison` stay below that.
* `simpleunary.asm:132`: CHR$ tests the upper word only, so 256 is taken and its low
  byte used; SPC tests alike. In `Expression` for CHR$.
* `expression.asm:187`: a bracket hands its value down and not its type, so that a string
  in brackets is taken for an integer. In `Expression`; `IntegersGrouped` keeps
  such expressions out of the comparison with the tree.

*Control*
* `if.asm:237`: a scan in the token buffer takes what follows for a link and goes on.
  In `ControlFlow`, mode `lost`.
* `run.asm:31`: RUN in a program is entered by a subroutine call it never returns from;
  a word is left on the 65816 stack each time. In `ControlFlow`, bounded by `MaxCpu`.
* `run.asm:139`: NEW in a program erases the text and goes on in it. In `ControlFlow`,
  which keeps the text that is still there.
* `utility.asm:23`: a message names `DLineNumber`, which `run.asm:41` sets to 0 when a
  command is run and nothing else does at the prompt. After a break at line 20 `0 X` and
  `PRINT "abc`, which are refused before they are run, report an error "at 20". In
  `ControlFlow` (`TypeNoCommand`); `ErrorsNameTheirLine` leaves the prompt out.
* An error among the arguments of a PROC names DEFPROC's line; `ErrorsNameTheirLine`
  excepts it. RETURN, NEXT or UNTIL typed after an error can go to a token buffer that
  has been typed over (`Nowhere`).

*Memory*
* `editline.asm:127`: insertion does not look at the end of the workspace. `LineEditor`
  makes no insertion past `MemLast`.
* `dim.asm:80` and `dim.asm:96`: 65535 + 1 elements are none, and a large array wraps
  the low pointer round past the check. `MCStore` has no sizes like these.
* `dim.asm:28`: a DIM that fails leaves the array's record without a block. `Broken` in
  `VariableStore`.
* `data.asm:94`, `expression.asm:233`: BASIC, expression and 65816 stack grow towards
  each other without a check. The models bound all three.
* `procedure.asm:142`: a ninth parameter is written over the first type.
  `MaxParameters` is eight.

*Numbers*
* `divide.asm:107`: the modulus is the remainder of the magnitudes, without a sign.
  `scripts/test_maths.py:22` would compute it with Python's sign but generates no test
  of it. `DivisionExact` states what the code computes.
* `str.asm:87`: the least integer in base 2 does not read back, as its magnitude is a
  power of the base that falls out at the top. `Readable` excludes it.
* `val.asm:115`: a letter is reduced to four bits before it is compared with the base,
  so letters beyond F read as digits. `BeyondF` in `Conversion`.
* `for.asm:187`: where target and index are half the integers apart the difference has
  the wrong sign. `Near` excludes it.

*Text*
* `list.asm:132`: the padding loop compares a byte with a depth that may be larger and
  then goes round. `Listing` counts in a byte; the programs of `MCText` stay below it.
* `list.asm:144`: a listed line longer than a string goes on over its end; lines of
  `MCText` are shorter.
* `list.asm:193`: names are listed without a space between them, so that they do not
  read back. `Separate` states where a line does.

*Emulator*
* `debugger.cpp:55`: of the keys held the port shows the one with the highest code. A key
  that is held while a higher one is tapped is shown once more, and as `hwinterface.asm:147`
  compares with the last key only, its one press is read twice. In `Console`;
  `EachPressOnce` claims one read a press for keys that go down one at a time.
* `sys_processor.cpp:117`: the end of a frame returns before the breakpoints are looked
  at, so one on that instruction is passed. In `Emulator`.
* `sys_processor.cpp:84`: the keyboard port is written in run mode only and shows a
  released key after a stop. In `Emulator`.

## 6. Not modelled, and what is left

* VICE (`src/core/vice-3.3`) is vendored and makes up all but a small part of the
  repository's lines; it takes no part in the interpreter. The processor core is
  external to `Emulator`. The documents are manuals and sketches of algorithms.
* POKE, PEEK of arbitrary memory and LINK reach any byte: there is nothing to promise.
  RND is a shift register without a promise; the bitwise operators and the
  remaining unary functions set one level from another and stand as members of a set.
* Drawing, sound, loading and dumping memory are output and input. The test generators
  make data for the programs whose assertions the models cite.
* The places of the variables A to Z in memory: they are fixed and outside all that moves.
* Several interpreters in one machine (`temp/block.inc`) share nothing but the machine.
* Colours, the wording of messages, and the layout of numbers in PRINT.

What would add most next:
1. The stack in words under `ControlFlow` and `Locals`: frames of 8, 6 and 2 bytes, with
   the distances of `DataPage`.
