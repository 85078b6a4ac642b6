----------------------------- MODULE Variables -----------------------------
(***************************************************************************)
(* Variables and arrays (variable.asm, commands/dim.asm, commands/let.asm) *)
(* in the bank of memory they share: hash heads, chains of eight byte      *)
(* records, identifiers typed at the prompt and copied behind them, array  *)
(* blocks.  Memory is a function from even addresses to words, and         *)
(* addresses wrap round at Top as the 16 bit registers do.                 *)
(*                                                                         *)
(* A record: +0 next record, +2 address of the name, +4 value or address   *)
(* of the array block.  An array block: +0 highest subscript, +2 elements  *)
(* of four bytes.  Strings come down from "high" and are not here.         *)
(*                                                                         *)
(* Names of one letter, A to Z, have no record: their values stand at      *)
(* fixed places below the hash heads, which nothing here moves or clears.  *)
(* They are not here either; Locals has them (Fast).                       *)
(***************************************************************************)
EXTENDS Integers, Sequences, FiniteSets

CONSTANTS
  Top,          \* size of the address space, 65536
  Low, High,    \* the free memory: end of the program, lowest string
  Names,        \* identifiers
  Arrays,       \* those with the array bit
  Tokens,       \* [Names -> Seq(Nat)]: the words of an identifier
  HeadAt,       \* [Names -> address of the head of its chain]
  NameAt,       \* [Names -> address of the identifier in the program]
  Values,       \* integers assigned: <<low word, high word>>
  Subscripts,   \* integers used as subscripts
  Sizes,        \* integers used as DIM sizes
  NoName,       \* no variable
  MaxStatements \* bound: statements

Word == 0..(Top - 1)
Address == {a \in Word : a % 2 = 0}
Zero == <<0, 0>>

ASSUME VariablesAssumption ==
  /\ Top \in Nat /\ Top % 4 = 0 /\ Low \in Address /\ High \in Address
  /\ Arrays \subseteq Names
  /\ Tokens \in [Names -> Seq(Nat \ {0})]
  /\ HeadAt \in [Names -> Address] /\ NameAt \in [Names -> Address]
  /\ Values \subseteq Word \X Word /\ Zero \in Values
  /\ Subscripts \subseteq Int /\ Sizes \subseteq Int /\ MaxStatements \in Nat

\* Hash tables and program lie below the free memory and share no word.  No
\* name is the start of another.
ASSUME LayoutAssumption ==
  /\ IsFiniteSet(Names) /\ Low < High
  /\ \A n \in Names :
       /\ 6 <= HeadAt[n] /\ HeadAt[n] < Low
       /\ 6 <= NameAt[n] /\ NameAt[n] + 2 * Len(Tokens[n]) <= Low
  /\ \A n, o \in Names : \A i \in 1..Len(Tokens[n]) :
       HeadAt[o] # NameAt[n] + 2 * (i - 1)
  /\ \A n, o \in Names : n # o =>
       /\ \/ NameAt[n] + 2 * Len(Tokens[n]) <= NameAt[o]
          \/ NameAt[o] + 2 * Len(Tokens[o]) <= NameAt[n]
       /\ \E i \in 1..Len(Tokens[n]) : i <= Len(Tokens[o]) /\ Tokens[n][i] # Tokens[o][i]

VARIABLES
  mem,          \* the bank
  low,          \* Block_LowMemoryPtr
  pc,           \* "idle", or the statement that waits for an expression
  name, target, \* its variable, and the address it will write
  result,       \* whether the last statement ended well
  statements    \* statements so far

vars == <<mem, low, pc, name, target, result, statements>>

Wrap(a) == a % Top

\* Words of the program's identifiers; everything else starts as zero, the
\* address 0 of the bank among it.
NameWords == UNION {{n} \X (1..Len(Tokens[n])) : n \in Names}
Init ==
  /\ mem = [a \in Address |->
             IF \E w \in NameWords : a = NameAt[w[1]] + 2 * (w[2] - 1)
               THEN LET w == CHOOSE w \in NameWords :
                               a = NameAt[w[1]] + 2 * (w[2] - 1)
                    IN  Tokens[w[1]][w[2]]
               ELSE 0]
  /\ low = Low /\ pc = "idle" /\ target = 0 /\ name = NoName
  /\ result = "ok" /\ statements = 0

----------------------------------------------------------------------------
(* VariableFind *)

NamedLoose(m, r, n) == m[m[r + 2]] = Tokens[n][1]       \* mutant

\* The words of the name are those of the identifier at the code pointer; the
\* last one has no continuation bit, so no name is the start of another.
Named(m, r, n) ==
  \A i \in 1..Len(Tokens[n]) : m[Wrap(m[r + 2] + 2 * (i - 1))] = Tokens[n][i]

\* The record of n in the chain from the word at a, 0 if there is none: what
\* the loop finds in so many turns.
RecordFrom(m, n) ==
  LET from[turns \in 0..Top] ==
        [a \in Address |->
          IF turns = 0 \/ m[a] = 0 THEN 0
          ELSE IF Named(m, m[a], n) THEN m[a]
          ELSE from[turns - 1][m[a]]]
  IN  from

\* More turns than a chain that goes down in memory has records.
FindIn(m, n) == RecordFrom(m, n)[Top][HeadAt[n]]
Find(n) == FindIn(mem, n)

----------------------------------------------------------------------------
(* VariableCreate and VCCloneIdentifier *)

\* memory, and the low pointer, with a record for n at "low"
Create(n, typed) ==
  LET r == low
      copied == [i \in 1..(IF typed THEN Len(Tokens[n]) ELSE 0) |-> r + 8 + 2 * (i - 1)]
  IN  /\ mem' = [a \in Address |->
                  CASE a = r -> mem[HeadAt[n]]
                    [] a = r + 2 -> IF typed THEN r + 8 ELSE NameAt[n]
                    [] a \in {r + 4, r + 6} -> 0
                    [] a = HeadAt[n] -> r
                    [] \E i \in DOMAIN copied : a = copied[i] ->
                         Tokens[n][(a - r - 8) \div 2 + 1]
                    [] OTHER -> mem[a]]
      /\ low' = Wrap(r + 8 + 2 * Len(copied))

RecordFits == Wrap(low + 8) < High

----------------------------------------------------------------------------
(* The statements *)

Begin ==
  pc = "idle" /\ statements < MaxStatements /\ statements' = statements + 1
Waits(where, n, a) ==
  pc' = where /\ name' = n /\ target' = a /\ UNCHANGED result
End(how) == pc' = "idle" /\ name' = NoName /\ target' = 0 /\ result' = how

\* The variable is made if it is not there; then the statement goes on.
OutOfMemory ==
  End("error") /\ low' = Wrap(low + 8) /\ UNCHANGED mem

\* LET, for an integer
LetInteger(n, typed) ==
  /\ Begin /\ n \notin Arrays
  /\ \/ /\ Find(n) # 0 /\ Waits("let", n, Find(n) + 4)
        /\ UNCHANGED <<mem, low>>
     \/ /\ Find(n) = 0 /\ RecordFits
        /\ Create(n, typed) /\ Waits("let", n, low + 4)
     \/ Find(n) = 0 /\ ~RecordFits /\ OutOfMemory

\* VariableSubscript
Block(n) == mem[Find(n) + 4]
HighSubscript(n) == mem[Block(n)]
InArray(n, i) == i \in Word /\ i <= HighSubscript(n)
Element(n, i) == Wrap(Block(n) + 2 + Wrap(4 * i))

\* LET, for an element
LetElement(n, i) ==
  /\ Begin /\ n \in Arrays
  /\ \/ Find(n) = 0 /\ End("error")              \* Undefined array
     \/ Find(n) # 0 /\ ~InArray(n, i) /\ End("error")   \* Bad Array Subscript
     \/ Find(n) # 0 /\ InArray(n, i) /\ Waits("let", n, Element(n, i))
  /\ UNCHANGED <<mem, low>>

\* The value after the "="
Store(v) ==
  /\ pc = "let" /\ End("ok")
  /\ mem' = [mem EXCEPT ![target] = v[1], ![Wrap(target + 2)] = v[2]]
  /\ UNCHANGED <<low, statements>>

\* DIM, up to the size
Dim(n, typed) ==
  /\ Begin /\ n \in Arrays
  /\ \/ Find(n) # 0 /\ End("error") /\ UNCHANGED <<mem, low>>
     \/ /\ Find(n) = 0 /\ RecordFits
        /\ Create(n, typed) /\ Waits("dim", n, low + 4)
     \/ Find(n) = 0 /\ ~RecordFits /\ OutOfMemory

\* DIMCreateArrayBlock: a carry out of either shift or the addition is an error
\* before anything is allocated; the sum with the low pointer is not looked at.
Elements(size) == Wrap(size + 1)
Bytes(size) == 4 * Elements(size) + 2

DimSizeShort(size) ==                                    \* mutant
  /\ pc = "dim" /\ size \in Word \ {0} /\ Bytes(size) < Top
  /\ low' = Wrap(low + Bytes(size) - 4)
  /\ \/ low' >= High /\ End("error") /\ UNCHANGED mem
     \/ /\ low' < High /\ End("ok")
        /\ mem' = [a \in Address |->
                     IF a = target THEN low
                     ELSE IF a = low THEN size
                     ELSE IF Wrap(a - low) < Bytes(size) THEN 0 ELSE mem[a]]
  /\ UNCHANGED statements

DimSize(size) ==
  /\ pc = "dim"
  /\ \/ size \notin Word \ {0} /\ End("error") /\ UNCHANGED <<mem, low>>
     \/ /\ size \in Word \ {0} /\ Bytes(size) >= Top
        /\ End("error") /\ UNCHANGED <<mem, low>>
     \/ /\ size \in Word \ {0} /\ Bytes(size) < Top
        /\ low' = Wrap(low + Bytes(size))
        /\ \/ low' >= High /\ End("error") /\ UNCHANGED mem
           \/ /\ low' < High /\ End("ok")
              /\ mem' = [a \in Address |->
                           IF a = target THEN low
                           ELSE IF a = low THEN size
                           ELSE IF Wrap(a - low) < Bytes(size) THEN 0
                           ELSE mem[a]]
  /\ UNCHANGED statements

\* The expression behind the "=" or the bracket fails.
ExpressionFails ==
  /\ pc # "idle" /\ End("error")
  /\ UNCHANGED <<mem, low, statements>>

\* An identifier in an expression (VariableAccessExpression)
Access(n, i) ==
  /\ Begin
  /\ End(IF Find(n) = 0 \/ (n \in Arrays /\ ~InArray(n, i)) THEN "error" ELSE "ok")
  /\ UNCHANGED <<mem, low>>

\* ClearVariablesPointersAndStacks
Clear ==
  /\ Begin /\ low' = Low /\ End("ok")
  /\ mem' = [a \in Address |-> IF \E n \in Names : a = HeadAt[n] THEN 0 ELSE mem[a]]

Next ==
  \/ \E n \in Names, typed \in BOOLEAN : LetInteger(n, typed) \/ Dim(n, typed)
  \/ \E n \in Names, i \in Subscripts : LetElement(n, i) \/ Access(n, i)
  \/ \E v \in Values : Store(v)
  \/ \E size \in Sizes : DimSize(size)
  \/ ExpressionFails \/ Clear

Spec == Init /\ [][Next]_vars

----------------------------------------------------------------------------
(* Properties *)

\* Addresses and words keep their width; a statement under way has a target.
TypeOK ==
  /\ mem \in [Address -> Nat] /\ low \in Address
  /\ pc \in {"idle", "let", "dim"} /\ result \in {"ok", "error"}
  /\ name \in Names \cup {NoName} /\ target \in Address
  /\ pc # "idle" => name \in Names
  /\ statements \in 0..MaxStatements

Live == {n \in Names : Find(n) # 0}
Area(a, size) == [from |-> a, to |-> a + size]
RecordArea(n) == Area(Find(n), 8)
NameArea(n) == Area(mem[Find(n) + 2], 2 * Len(Tokens[n]))
BlockArea(n) == Area(Block(n), 4 * HighSubscript(n) + 6)
HasBlock(n) == n \in Arrays /\ Block(n) # 0
AreasOf(n) == {RecordArea(n), NameArea(n)} \cup
              (IF HasBlock(n) THEN {BlockArea(n)} ELSE {})

Apart(p, q) == p.to <= q.from \/ q.to <= p.from

\* Records, copied names and array blocks lie in the memory that was handed
\* out, and no two of them overlap, however DIM, LET and errors follow one
\* another (8 bytes for a record, 2 for each word of a name, 4 for an element
\* and 2 for the highest subscript).
StoreTiled ==
  \A n \in Live :
    /\ \A p \in AreasOf(n) \ {NameArea(n)} : p.from >= Low
    /\ \A p \in AreasOf(n) : p.to <= low
    /\ \A m \in Live : \A p \in AreasOf(n), q \in AreasOf(m) :
         (p = q /\ m = n) \/ Apart(p, q)

Value(a) == <<mem[a], mem[Wrap(a + 2)]>>
ContentsOf(n) ==
  IF Find(n) = 0 THEN [kind |-> "none"]
  ELSE IF n \notin Arrays THEN [kind |-> "integer", value |-> Value(Find(n) + 4)]
  ELSE IF Block(n) = 0 THEN [kind |-> "broken"]
  ELSE [kind |-> "array",
        elements |-> [i \in 0..HighSubscript(n) |-> Value(Element(n, i))]]

contentsBar == [n \in Names |-> ContentsOf(n)]
V == INSTANCE VariableStore WITH contents <- contentsBar
=============================================================================
