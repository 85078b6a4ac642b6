------------------------- MODULE StringHeapProofs --------------------------
(***************************************************************************)
(* For every set of variables and strings and every layout of the memory:  *)
(* the blocks of the heap tile it, every string fits its block, and what   *)
(* ENDPROC copies back fits the block it is copied to.  For programs that  *)
(* clone no identifier: only temp strings are written outside their area.  *)
(* For plain programs: the memory implements the store of values.          *)
(***************************************************************************)
EXTENDS StringHeap, SequenceLemmas

\* Pointers, variables and blocks: their types, and that an out of memory error
\* means the two pointers have met.
MemTypes ==
  /\ lowPtr \in Nat /\ highPtr \in Int
  /\ created \subseteq Vars
  /\ storage \in [Vars -> Int]
  /\ DOMAIN heap \subseteq Int /\ heap \in [DOMAIN heap -> Block]
  /\ oom \in BOOLEAN /\ (oom => highPtr <= lowPtr)
MemOK == MemTypes /\ HeapTiled /\ StorageSound

\* The statement being executed has a target left.
OpOK ==
  /\ tempPtr \in Int
  /\ DOMAIN temps \subseteq Int /\ temps \in [DOMAIN temps -> AnyString]
  /\ op \in [name : {"none", "let", "proc"}, targets : Seq(Vars), done : Nat]
  /\ op = NoOp \/ op.done < Len(op.targets)
  /\ args \in Seq(Source)
  /\ wild \in BOOLEAN

\* The frames that may be on the stack: stacked strings fit where they go.
FittingFrames == {f \in Frame : f.kind = "local" => FrameFits(f)}

\* The inductive invariant.  Stacked strings fit because a variable's storage never
\* shrinks; it never shrinks because a variable that has storage has a block at
\* or above highPtr; and blocks stay apart because a new one is taken only while
\* highPtr is the lowest block, which out of memory ends for good.
IInv == MemOK /\ OpOK /\ stack \in Seq(FittingFrames)

mem == <<lowPtr, highPtr, created, storage, heap, oom>>

-----------------------------------------------------------------------------
(***************************************************************************)
(* Strings, and the memory a statement leaves alone.                       *)
(***************************************************************************)
LEMMA StringTypes ==
  /\ Strings \subseteq AnyString /\ Empty \in AnyString
  /\ [len : Lengths, txt : {Junk}] \subseteq AnyString
  /\ \A s \in AnyString : s.len \in 0..MaxLen /\ [s EXCEPT !.txt = Junk] \in AnyString
<1>1. ASSUME NEW s \in Strings PROVE s \in AnyString
  <2>1. s \in [len : 0..MaxLen, txt : STRING] /\ s.txt \in Texts
    BY StringsAssumption DEF Texts
  <2>2. s = [len |-> s.len, txt |-> s.txt] /\ s.len \in 0..MaxLen
    BY <2>1
  <2> QED
    BY <2>1, <2>2 DEF AnyString, Lengths
<1>2. Empty \in AnyString
  BY <1>1, StringsAssumption
<1>3. Junk \in Texts
  BY DEF Texts
<1> QED
  BY <1>1, <1>2, <1>3 DEF AnyString, Lengths

LEMMA SameMem ==
  ASSUME MemOK, UNCHANGED mem
  PROVE  MemOK' /\ \A f \in Frame : FrameFits(f)' <=> FrameFits(f)
BY DEF MemOK, MemTypes, HeapTiled, StorageSound, mem, FrameFits, EndOf, BlockSize

\* Low memory may grow.
LEMMA LowGrows ==
  ASSUME MemOK, lowPtr' \in Nat, lowPtr' >= lowPtr, created' \subseteq Vars,
         UNCHANGED <<highPtr, storage, heap, oom>>
  PROVE  MemOK' /\ \A f \in Frame : FrameFits(f)' <=> FrameFits(f)
<1>1. MemTypes'
  BY DEF MemOK, MemTypes
<1>2. HeapTiled' /\ StorageSound'
  BY DEF MemOK, HeapTiled, StorageSound, EndOf, BlockSize
<1>3. \A f \in Frame : FrameFits(f)' <=> FrameFits(f)
  BY DEF FrameFits
<1> QED
  BY <1>1, <1>2, <1>3 DEF MemOK

\* The stack keeps its type when no block gets smaller.
LEMMA StackKept ==
  ASSUME NEW s \in Seq(FittingFrames), \A f \in FittingFrames : f.kind = "local" => FrameFits(f)'
  PROVE  s \in Seq(FittingFrames')
<1>1. ASSUME NEW f \in FittingFrames PROVE f \in FittingFrames'
  BY <1>1 DEF FittingFrames, FrameFits
<1> QED
  BY <1>1

LEMMA EndStatementOK ==
  ASSUME EndStatement, wild' \in BOOLEAN
  PROVE  OpOK'
<1>1. NoOp \in [name : {"none", "let", "proc"}, targets : Seq(Vars), done : Nat]
  BY EmptyType DEF NoOp
<1>2. <<>> \in Seq(Source)
  BY EmptyType
<1>3. DOMAIN None \subseteq Int /\ None \in [DOMAIN None -> AnyString]
  BY DEF None
<1> QED
  BY <1>1, <1>2, <1>3 DEF EndStatement, OpOK

LEMMA ScribbledType ==
  ASSUME NEW t, DOMAIN t \subseteq Int, t \in [DOMAIN t -> AnyString],
         NEW lo, NEW hi, NEW u \in Scribbled(t, lo, hi)
  PROVE  DOMAIN u = DOMAIN t /\ u \in [DOMAIN u -> AnyString]
<1> DEFINE cut == {a \in DOMAIN t : a \in lo..hi}
           New(n, a) == IF Hit(a, t[a], lo, hi)
                          THEN [len |-> IF a \in cut THEN n[a] ELSE t[a].len, txt |-> Junk]
                          ELSE t[a]
<1>1. PICK n \in [cut -> Lengths] : u = [a \in DOMAIN t |-> New(n, a)]
  BY DEF Scribbled
<1>2. ASSUME NEW a \in DOMAIN t PROVE New(n, a) \in AnyString
  <2>1. t[a] \in AnyString /\ t[a].len \in Lengths
    BY StringTypes DEF Lengths
  <2>2. a \in cut => n[a] \in Lengths
    BY <1>1
  <2>3. Junk \in Texts
    BY DEF Texts
  <2> QED
    BY <2>1, <2>2, <2>3 DEF AnyString
<1> HIDE DEF New
<1> QED
  BY <1>1, <1>2

LEMMA BoundOK ==
  ASSUME OpOK, op # NoOp, NEW lo, NEW hi, Bound(lo, hi), wild' \in BOOLEAN
  PROVE  OpOK'
<1>1. CASE op.done + 1 = Len(op.targets)
  BY <1>1, EndStatementOK DEF Bound
<1>2. CASE op.done + 1 # Len(op.targets)
  <2>1. /\ op' = [op EXCEPT !.done = @ + 1] /\ UNCHANGED <<args, tempPtr>>
        /\ temps' \in Scribbled(temps, lo, hi)
    BY <1>2 DEF Bound
  <2>2. DOMAIN temps' = DOMAIN temps /\ temps' \in [DOMAIN temps' -> AnyString]
    BY <2>1, ScribbledType DEF OpOK
  <2>3. /\ op' \in [name : {"none", "let", "proc"}, targets : Seq(Vars), done : Nat]
        /\ op'.done < Len(op'.targets)
    <3>1. op.done < Len(op.targets) /\ op.done \in Nat /\ Len(op.targets) \in Nat
      BY DEF OpOK
    <3> QED
      BY <1>2, <2>1, <3>1 DEF OpOK
  <2>4. tempPtr' \in Int /\ args' \in Seq(Source) /\ DOMAIN temps' \subseteq Int
    BY <2>1, <2>2 DEF OpOK
  <2> QED
    BY <2>2, <2>3, <2>4 DEF OpOK
<1> QED
  BY <1>1, <1>2

-----------------------------------------------------------------------------
(***************************************************************************)
(* StringAssign.                                                           *)
(***************************************************************************)
\* A variable that has storage has a block of its own in the string area.
LEMMA OwnBlock ==
  ASSUME MemOK, NEW v \in Vars, storage[v] # 0
  PROVE  /\ HasBlock(v) /\ storage[v] \in Int /\ storage[v] - 1 \in DOMAIN heap
         /\ heap[storage[v] - 1] \in Block /\ highPtr <= storage[v] - 1
         /\ heap[storage[v] - 1].str.len <= heap[storage[v] - 1].cap
<1>1. storage[v] \in Int /\ storage[v] - 1 \in DOMAIN heap /\ highPtr \in Int
  BY DEF MemOK, MemTypes, StorageSound
<1>2. highPtr <= storage[v] - 1
  BY <1>1 DEF MemOK, HeapTiled
<1>3. heap[storage[v] - 1] \in Block
  BY <1>1 DEF MemOK, MemTypes
<1>4. heap[storage[v] - 1].str.len <= heap[storage[v] - 1].cap
  BY DEF MemOK, StorageSound
<1> QED
  BY <1>1, <1>2, <1>3, <1>4 DEF HasBlock

LEMMA BlockType ==
  ASSUME NEW b \in Block
  PROVE  /\ b.cap \in Int /\ b.cap >= 0 /\ b.cap <= MaxLen /\ b.str \in AnyString
         /\ b.str.len \in Int /\ BlockSize(b) = b.cap + 2
<1>1. b.cap \in 0..MaxLen /\ b.str \in AnyString /\ MaxLen \in Nat
  BY LayoutAssumption DEF Block, Lengths
<1>2. b.str.len \in 0..MaxLen
  BY <1>1, StringTypes
<1> QED
  BY <1>1, <1>2 DEF BlockSize

LEMMA CapacityFacts ==
  ASSUME NEW n \in 0..MaxLen
  PROVE  Capacity(n) \in Lengths /\ Capacity(n) \in Int /\ Capacity(n) >= n /\ Capacity(n) >= 0
BY LayoutAssumption DEF Capacity, Lengths

\* Where a new block for s ends, and that it is below all others.
LEMMA NewBlockFacts ==
  ASSUME MemOK, NEW v \in Vars, NEW s \in AnyString, ~Fits(v, s)
  PROVE  /\ NewBlock(v, s) \in Int /\ NewBlock(v, s) < highPtr
         /\ storage[v] # 0 => heap[storage[v] - 1].cap < Capacity(s.len)
         /\ \/ Returned(v) = {} /\ NewBlock(v, s) + Capacity(s.len) + 2 = highPtr
            \/ /\ Returned(v) = {highPtr} /\ highPtr \in DOMAIN heap
               /\ storage[v] # 0 /\ storage[v] - 1 = highPtr
               /\ NewBlock(v, s) + Capacity(s.len) + 2 = EndOf(highPtr)
<1>1. s.len \in 0..MaxLen /\ highPtr \in Int /\ storage[v] \in Int
  BY StringTypes DEF MemOK, MemTypes
<1>2. Capacity(s.len) \in Int /\ Capacity(s.len) >= s.len /\ Capacity(s.len) >= 0
  BY <1>1, CapacityFacts
<1>3. ASSUME storage[v] # 0
      PROVE  /\ heap[storage[v] - 1].cap \in Int
             /\ heap[storage[v] - 1].cap < Capacity(s.len)
  <2>1. HasBlock(v) /\ heap[storage[v] - 1].cap \in Int
    BY <1>3, OwnBlock, BlockType
  <2>2. ~(heap[storage[v] - 1].cap >= s.len)
    BY <2>1 DEF Fits
  <2> QED
    BY <1>1, <1>2, <2>1, <2>2
<1>4. CASE Returned(v) = {}
  BY <1>1, <1>2, <1>3, <1>4 DEF NewBlock
<1>5. CASE Returned(v) # {}
  <2>1. HasBlock(v) /\ storage[v] - 1 = highPtr /\ Returned(v) = {highPtr}
    BY <1>5 DEF Returned
  <2>2. storage[v] # 0
    BY <2>1 DEF HasBlock
  <2>3. heap[highPtr] \in Block /\ highPtr \in DOMAIN heap
    BY <2>1, <2>2, OwnBlock
  <2>4. /\ heap[highPtr].cap \in Int /\ heap[highPtr].cap < Capacity(s.len)
        /\ BlockSize(heap[highPtr]) = heap[highPtr].cap + 2
    BY <1>3, <2>1, <2>2, <2>3, BlockType
  <2>5. NewBlock(v, s) = highPtr + (heap[highPtr].cap + 2) - (Capacity(s.len) + 2)
    <3>1. NewBlock(v, s) = highPtr + BlockSize(heap[highPtr]) - (Capacity(s.len) + 2)
      BY <1>1, <1>2, <1>5, <2>4 DEF NewBlock
    <3> QED
      BY <2>4, <3>1
  <2>6. EndOf(highPtr) = highPtr + (heap[highPtr].cap + 2)
    BY <2>4 DEF EndOf
  <2> QED
    BY <1>1, <1>2, <1>3, <2>1, <2>2, <2>3, <2>4, <2>5, <2>6
<1> QED
  BY <1>4, <1>5

\* A copy, and a source read again, are strings no longer than what they come from.
LEMMA CopiedType ==
  ASSUME NEW src, NEW s \in AnyString, NEW p
  PROVE  Copied(src, s, p) \in AnyString /\ Copied(src, s, p).len = s.len
<1>1. [s EXCEPT !.txt = Junk] \in AnyString /\ [s EXCEPT !.txt = Junk].len = s.len
  BY DEF AnyString, Texts
<1> QED
  BY <1>1 DEF Copied

LEMMA RereadType ==
  ASSUME NEW src, NEW s \in AnyString, NEW b, NEW cap \in Lengths, cap >= s.len
  PROVE  Reread(src, s, b, cap) \in AnyString /\ Reread(src, s, b, cap).len <= cap
<1>1. s.len \in 0..MaxLen /\ cap \in 0..MaxLen /\ 0 \in 0..MaxLen /\ Junk \in Texts
  <2>1. s.len \in 0..MaxLen /\ Junk \in Texts
    BY StringTypes DEF Texts
  <2>2. MaxLen \in Nat
    BY LayoutAssumption
  <2> QED
    BY <2>1, <2>2 DEF Lengths
<1>2. CASE src.at \notin DOMAIN temps \/ ~Hit(src.at, s, b, b + 1)
  BY <1>2 DEF Reread
<1>3. CASE ~(src.at \notin DOMAIN temps \/ ~Hit(src.at, s, b, b + 1))
  <2>1. PICK n \in 0..MaxLen : n <= cap /\ Reread(src, s, b, cap) = [len |-> n, txt |-> Junk]
    BY <1>1, <1>3 DEF Reread
  <2> QED
    BY <1>1, <2>1 DEF AnyString, Lengths
<1> QED
  BY <1>2, <1>3

\* No variable's storage gets smaller.
Grows ==
  \A w \in Vars : storage[w] # 0 =>
     /\ storage'[w] # 0
     /\ heap'[storage'[w] - 1].cap >= heap[storage[w] - 1].cap

LEMMA OwnBlockNext ==
  ASSUME MemOK', NEW v \in Vars, storage'[v] # 0
  PROVE  heap'[storage'[v] - 1] \in Block
<1>1. storage'[v] - 1 \in DOMAIN heap'
  BY DEF MemOK, StorageSound
<1> QED
  BY <1>1 DEF MemOK, MemTypes

\* So what is on the stack still fits.
LEMMA GrowsFits ==
  ASSUME MemOK, MemOK', Grows, NEW f \in Frame, f.kind = "local", FrameFits(f)
  PROVE  FrameFits(f)'
<1>1. f.var \in Vars /\ f.str \in AnyString
  BY DEF Frame
<1>2. storage[f.var] # 0 /\ f.str.len <= heap[storage[f.var] - 1].cap
  BY DEF FrameFits
<1>3. storage'[f.var] # 0 /\ heap'[storage'[f.var] - 1].cap >= heap[storage[f.var] - 1].cap
  BY <1>1, <1>2 DEF Grows
<1>4. heap[storage[f.var] - 1].cap \in Int /\ heap'[storage'[f.var] - 1].cap \in Int
  <2>1. heap[storage[f.var] - 1] \in Block
    BY <1>1, <1>2, OwnBlock
  <2>2. heap'[storage'[f.var] - 1] \in Block
    BY <1>1, <1>3, OwnBlockNext
  <2> QED
    BY <2>1, <2>2, BlockType
<1>5. f.str.len \in Int
  <2>1. f.str.len \in 0..MaxLen
    BY <1>1, StringTypes
  <2> QED
    BY <2>1
<1>6. f.str.len <= heap'[storage'[f.var] - 1].cap
  BY <1>2, <1>3, <1>4, <1>5
<1> QED
  BY <1>3, <1>6 DEF FrameFits

LEMMA InPlaceMem ==
  ASSUME MemOK, NEW v \in Vars, NEW src, NEW s \in AnyString, NEW low \in Nat,
         low >= lowPtr, CopyInPlace(v, src, s),
         lowPtr' = low, created' \subseteq Vars, oom' = oom
  PROVE  MemOK' /\ Grows
<1> DEFINE a == storage[v] - 1
<1>1. storage[v] # 0 /\ heap[a].cap >= s.len
  BY DEF CopyInPlace, Fits, HasBlock
<1>2. a \in DOMAIN heap /\ heap[a] \in Block
  BY <1>1, OwnBlock
<1>3. PICK t \in AnyString : /\ t.len = s.len
                             /\ heap' = [heap EXCEPT ![a].str = t]
  BY CopiedType DEF CopyInPlace
<1>4. UNCHANGED <<highPtr, storage>>
  BY DEF CopyInPlace
<1>5. DOMAIN heap' = DOMAIN heap
  BY <1>3
<1>6. ASSUME NEW c \in DOMAIN heap
      PROVE  /\ heap'[c] \in Block /\ heap'[c].cap = heap[c].cap
             /\ heap[c].str.len <= heap[c].cap => heap'[c].str.len <= heap'[c].cap
  <2>1. heap[c] \in Block
    BY DEF MemOK, MemTypes
  <2>2. CASE c # a
    BY <1>3, <2>1, <2>2
  <2>3. CASE c = a
    <3>1. heap'[c] = [heap[a] EXCEPT !.str = t]
      BY <1>2, <1>3, <2>3
    <3>2. heap'[c] \in Block /\ heap'[c].cap = heap[a].cap /\ heap'[c].str = t
      BY <1>2, <3>1 DEF Block
    <3>3. s.len <= heap[a].cap
      BY <1>1, <1>2, BlockType, StringTypes
    <3> QED
      BY <1>3, <2>3, <3>2, <3>3
  <2> QED
    BY <2>2, <2>3
<1> HIDE DEF a
<1>7. MemTypes'
  <2>1. heap' \in [DOMAIN heap' -> Block]
    BY <1>3, <1>5, <1>6
  <2>2. oom' => highPtr' <= lowPtr'
    BY <1>4 DEF MemOK, MemTypes
  <2> QED
    BY <1>4, <1>5, <2>1, <2>2 DEF MemOK, MemTypes
<1>8. HeapTiled'
  BY <1>4, <1>5, <1>6 DEF MemOK, HeapTiled, EndOf, BlockSize
<1>9. StorageSound'
  BY <1>4, <1>5, <1>6 DEF MemOK, StorageSound
<1>10. Grows
  <2> SUFFICES ASSUME NEW w \in Vars, storage[w] # 0
               PROVE  heap'[storage[w] - 1].cap >= heap[storage[w] - 1].cap
    BY <1>4 DEF Grows
  <2>1. storage[w] - 1 \in DOMAIN heap /\ heap[storage[w] - 1].cap \in Int
    BY OwnBlock, BlockType
  <2> QED
    BY <1>6, <2>1
<1> QED
  BY <1>7, <1>8, <1>9, <1>10 DEF MemOK

\* A new block: below the others, or in place of the lowest, which is smaller.
LEMMA NewBlockMem ==
  ASSUME MemOK, NEW v \in Vars, NEW src, NEW s \in AnyString, NEW low \in Nat,
         low >= lowPtr, CopyToNewBlock(v, src, s, low),
         lowPtr' = low, created' \subseteq Vars, oom' = oom
  PROVE  MemOK' /\ Grows
<1>0. PICK b : b = NewBlock(v, s)
  OBVIOUS
<1> DEFINE cap == Capacity(s.len)
           old == DOMAIN heap \ Returned(v)
           end == b + cap + 2
<1>1. ~Fits(v, s) /\ b >= low /\ highPtr' = b /\ storage' = [storage EXCEPT ![v] = b + 1]
  BY <1>0 DEF CopyToNewBlock
<1>2. cap \in Lengths /\ cap \in Int /\ cap >= 0 /\ cap >= s.len
  BY StringTypes, CapacityFacts
<1>3. PICK t \in AnyString :
        /\ t.len <= cap
        /\ heap' = With(Without(heap, Returned(v)), b, [cap |-> cap, str |-> t])
  <2>1. Reread(src, s, b, cap) \in AnyString /\ Reread(src, s, b, cap).len <= cap
    BY <1>2, RereadType
  <2>2. Copied(src, Reread(src, s, b, cap), b + 1) \in AnyString
        /\ Copied(src, Reread(src, s, b, cap), b + 1).len = Reread(src, s, b, cap).len
    BY <2>1, CopiedType
  <2> QED
    BY <1>0, <2>1, <2>2 DEF CopyToNewBlock
<1>4. /\ b \in Int /\ b < highPtr /\ b >= 0
      /\ storage[v] # 0 => heap[storage[v] - 1].cap < cap
      /\ \/ Returned(v) = {} /\ end = highPtr
         \/ /\ Returned(v) = {highPtr} /\ highPtr \in DOMAIN heap
            /\ storage[v] # 0 /\ storage[v] - 1 = highPtr /\ end = EndOf(highPtr)
  <2>1. highPtr \in Int /\ lowPtr \in Nat
    BY DEF MemOK, MemTypes
  <2> QED
    BY <1>0, <1>1, <2>1, NewBlockFacts
<1> HIDE DEF cap
<1>5. /\ DOMAIN heap' = old \cup {b} /\ b \notin DOMAIN heap
      /\ heap'[b] = [cap |-> cap, str |-> t]
      /\ \A c \in old : heap'[c] = heap[c]
  <2>1. \A c \in DOMAIN heap : c \in Int /\ highPtr <= c /\ highPtr \in Int
    BY DEF MemOK, MemTypes, HeapTiled
  <2>2. b \notin DOMAIN heap
    BY <1>4, <2>1
  <2> QED
    BY <1>3, <2>2 DEF With, Without
<1>6. ~oom
  BY <1>1, <1>4 DEF MemOK, MemTypes
<1>7. heap'[b] \in Block /\ \A c \in old : heap[c] \in Block
  BY <1>2, <1>3, <1>5 DEF MemOK, MemTypes, Block
<1>8. MemTypes'
  <2>1. heap' \in [DOMAIN heap' -> Block]
    <3>1. \A c \in DOMAIN heap' : heap'[c] \in Block
      BY <1>5, <1>7
    <3>2. heap' = [c \in DOMAIN heap' |-> heap'[c]]
      BY <1>3 DEF With
    <3> QED
      BY <3>1, <3>2
  <2>2. DOMAIN heap' \subseteq Int
    BY <1>4, <1>5 DEF MemOK, MemTypes
  <2>3. storage' \in [Vars -> Int]
    BY <1>1, <1>4 DEF MemOK, MemTypes
  <2>4. oom' \in BOOLEAN /\ ~oom'
    BY <1>6 DEF MemOK, MemTypes
  <2>5. highPtr' \in Int
    BY <1>1, <1>4
  <2> QED
    BY <2>1, <2>2, <2>3, <2>4, <2>5 DEF MemTypes
<1>9. HeapTiled'
  <2>1. \A c \in DOMAIN heap : /\ c \in Int /\ highPtr <= c /\ highPtr \in Int
                               /\ heap[c].cap \in Int /\ EndOf(c) = c + heap[c].cap + 2
                               /\ heap[c].cap >= 0
    <3>1. \A c \in DOMAIN heap : heap[c] \in Block
      BY DEF MemOK, MemTypes
    <3>2. \A c \in DOMAIN heap : c \in Int /\ highPtr <= c /\ highPtr \in Int
      BY DEF MemOK, MemTypes, HeapTiled
    <3> QED
      BY <3>1, <3>2, BlockType DEF EndOf
  <2>2. \A c \in old : EndOf(c)' = EndOf(c)
    BY <1>5 DEF EndOf
  <2>3. EndOf(b)' = end
    <3>1. EndOf(b)' = b + (cap + 2)
      BY <1>5 DEF EndOf, BlockSize
    <3> QED
      BY <1>2, <1>4, <3>1
  <2>4. \A c \in DOMAIN heap : EndOf(c) = MemTop \/ EndOf(c) \in DOMAIN heap
    BY DEF MemOK, HeapTiled
  <2>5. \A c, d \in DOMAIN heap : c < d => EndOf(c) <= d
    BY DEF MemOK, HeapTiled
  <2>6. highPtr = MemTop \/ highPtr \in DOMAIN heap
    BY <1>6 DEF MemOK, HeapTiled
  <2>7. ASSUME NEW c \in DOMAIN heap'
        PROVE  EndOf(c)' = MemTop \/ EndOf(c)' \in DOMAIN heap'
    <3>1. CASE c \in old
      <4>1. EndOf(c) # highPtr
        BY <2>1, <3>1
      <4> QED
        BY <1>4, <1>5, <2>2, <2>4, <3>1, <4>1
    <3>2. CASE c = b /\ Returned(v) = {}
      BY <1>4, <1>5, <2>3, <2>6, <3>2
    <3>3. CASE c = b /\ Returned(v) = {highPtr}
      <4>1. end = EndOf(highPtr) /\ highPtr \in DOMAIN heap
        BY <1>4, <3>3
      <4>2. end # highPtr
        BY <2>1, <4>1
      <4> QED
        BY <1>5, <2>3, <2>4, <3>3, <4>1, <4>2
    <3> QED
      BY <1>4, <1>5, <3>1, <3>2, <3>3
  <2>8. \A c \in old : b < c /\ end <= c
    <3> SUFFICES ASSUME NEW c \in old PROVE b < c /\ end <= c
      OBVIOUS
    <3>1. highPtr <= c /\ c \in Int /\ highPtr \in Int
      BY <2>1
    <3>2. CASE Returned(v) = {}
      BY <1>4, <3>1, <3>2
    <3>3. CASE Returned(v) = {highPtr}
      BY <1>4, <2>5, <3>1, <3>3
    <3> QED
      BY <1>4, <3>2, <3>3
  <2>9. ASSUME NEW c \in DOMAIN heap', NEW d \in DOMAIN heap', c < d
        PROVE  EndOf(c)' <= d
    <3>1. d # b
      BY <1>4, <1>5, <2>1, <2>8, <2>9
    <3>2. d \in old
      BY <1>5, <3>1
    <3>3. CASE c = b
      BY <2>3, <2>8, <3>2, <3>3
    <3>4. CASE c \in old
      BY <2>2, <2>5, <2>9, <3>2, <3>4
    <3> QED
      BY <1>5, <3>3, <3>4
  <2>10. \A c \in DOMAIN heap' : highPtr' <= c
    BY <1>1, <1>4, <1>5, <2>1, <2>8
  <2>11. highPtr' \in DOMAIN heap'
    BY <1>1, <1>5
  <2> QED
    BY <2>7, <2>9, <2>10, <2>11 DEF HeapTiled
<1>10. ASSUME NEW w \in Vars, w # v, storage[w] # 0
       PROVE  /\ storage'[w] = storage[w] /\ storage[w] - 1 \in old
              /\ storage[w] # b + 1 /\ storage[w] \in Int
  <2>1. storage[w] - 1 \in DOMAIN heap /\ storage[w] \in Int /\ storage[v] \in Int
    BY <1>10, OwnBlock DEF MemOK, MemTypes
  <2>2. storage'[w] = storage[w]
    BY <1>1, <1>10 DEF MemOK, MemTypes
  <2>3. storage[v] # 0 => storage[w] # storage[v]
    BY <1>10 DEF MemOK, StorageSound
  <2>4. storage[w] - 1 \notin Returned(v)
    BY <1>4, <2>1, <2>3
  <2>5. storage[w] # b + 1
    BY <1>4, <1>5, <2>1
  <2> QED
    BY <2>1, <2>2, <2>4, <2>5
<1>11. storage'[v] = b + 1 /\ storage'[v] # 0 /\ storage'[v] - 1 = b
  BY <1>1, <1>4 DEF MemOK, MemTypes
<1>12. \A w \in Vars : w # v /\ storage'[w] # 0 => storage[w] # 0
  BY <1>1 DEF MemOK, MemTypes
<1>13. StorageSound'
  <2>1. ASSUME NEW w \in Vars, storage'[w] # 0
        PROVE  /\ storage'[w] - 1 \in DOMAIN heap'
               /\ heap'[storage'[w] - 1].str.len <= heap'[storage'[w] - 1].cap
    <3>1. CASE w = v
      BY <1>3, <1>5, <1>11, <3>1
    <3>2. CASE w # v
      <4>1. storage[w] # 0
        BY <1>12, <2>1, <3>2
      <4> QED
        BY <1>5, <1>10, <3>2, <4>1, OwnBlock
    <3> QED
      BY <3>1, <3>2
  <2>2. ASSUME NEW w \in Vars, NEW x \in Vars, storage'[w] # 0, storage'[w] = storage'[x]
        PROVE  w = x
    BY <1>10, <1>11, <1>12, <2>2 DEF MemOK, StorageSound
  <2> QED
    BY <2>1, <2>2 DEF StorageSound
<1>14. Grows
  <2> SUFFICES ASSUME NEW w \in Vars, storage[w] # 0
               PROVE  /\ storage'[w] # 0
                      /\ heap'[storage'[w] - 1].cap >= heap[storage[w] - 1].cap
    BY DEF Grows
  <2>1. heap[storage[w] - 1].cap \in Int
    BY OwnBlock, BlockType
  <2>2. CASE w = v
    BY <1>2, <1>4, <1>5, <1>11, <2>1, <2>2
  <2>3. CASE w # v
    BY <1>5, <1>10, <2>1, <2>3
  <2> QED
    BY <2>2, <2>3
<1> QED
  BY <1>8, <1>9, <1>13, <1>14 DEF MemOK

LEMMA AssignMem ==
  ASSUME MemOK, NEW v \in Vars, NEW src, NEW s \in AnyString, NEW low \in Nat,
         low >= lowPtr, StringAssign(v, src, s, low),
         lowPtr' = low, created' \subseteq Vars, oom' = oom
  PROVE  MemOK' /\ Grows
BY InPlaceMem, NewBlockMem DEF StringAssign

\* Out of memory: blocks and variables stay, one of the pointers is past the other.
LEMMA FailedMem ==
  ASSUME MemOK, lowPtr' \in Nat, lowPtr' >= lowPtr, highPtr' \in Int,
         highPtr' <= highPtr, highPtr' <= lowPtr', oom' = TRUE,
         created' \subseteq Vars, UNCHANGED <<storage, heap>>
  PROVE  MemOK' /\ Grows
<1>1. MemTypes'
  BY DEF MemOK, MemTypes
<1>2. HeapTiled'
  <2>1. \A a \in DOMAIN heap : highPtr <= a /\ a \in Int /\ highPtr \in Int
    BY DEF MemOK, MemTypes, HeapTiled
  <2>2. \A a \in DOMAIN heap : highPtr' <= a
    BY <2>1
  <2> QED
    BY <2>2 DEF MemOK, HeapTiled, EndOf, BlockSize
<1>3. StorageSound'
  BY DEF MemOK, StorageSound
<1>4. Grows
  <2>1. \A w \in Vars : storage[w] # 0 => heap[storage[w] - 1].cap \in Int
    BY OwnBlock, BlockType
  <2> QED
    BY <2>1 DEF Grows
<1> QED
  BY <1>1, <1>2, <1>3, <1>4 DEF MemOK

LEMMA LowType ==
  ASSUME MemOK, NEW v, NEW c \in Nat
  PROVE  LowWith(v, c) \in Nat /\ LowWith(v, c) >= lowPtr
BY LayoutAssumption DEF MemOK, MemTypes, LowWith

LEMMA CreateFailsOK ==
  ASSUME IInv, NEW v \in Vars, CreateFails(v)
  PROVE  MemOK' /\ Grows /\ OpOK' /\ stack' = stack
<1>1. MemOK /\ OpOK
  BY DEF IInv
<1>2. /\ lowPtr' = lowPtr + RecSize /\ lowPtr + RecSize >= highPtr /\ oom' = TRUE
      /\ EndStatement /\ UNCHANGED <<highPtr, created, storage, heap, stack, wild>>
  BY DEF CreateFails, CannotCreate, OutOfMemoryError
<1>3. lowPtr \in Nat /\ highPtr \in Int /\ created \subseteq Vars /\ RecSize \in Nat
  BY <1>1, LayoutAssumption DEF MemOK, MemTypes
<1>4. MemOK' /\ Grows
  BY <1>1, <1>2, <1>3, FailedMem
<1>5. wild' \in BOOLEAN
  BY <1>1, <1>2 DEF OpOK
<1> QED
  BY <1>2, <1>4, <1>5, EndStatementOK

LEMMA AssignFailsOK ==
  ASSUME IInv, NEW v \in Vars, NEW s \in AnyString, NEW low \in Nat, low >= lowPtr,
         AssignFails(v, s, low), lowPtr' = low, created' \subseteq Vars
  PROVE  MemOK' /\ Grows /\ OpOK'
<1>1. MemOK /\ OpOK
  BY DEF IInv
<1>2. /\ ~Fits(v, s) /\ NewBlock(v, s) < low /\ highPtr' = NewBlock(v, s)
      /\ oom' = TRUE /\ EndStatement /\ UNCHANGED <<storage, heap, wild>>
  BY DEF AssignFails, OutOfMemoryError
<1>3. NewBlock(v, s) \in Int /\ NewBlock(v, s) < highPtr /\ highPtr \in Int
  BY <1>1, <1>2, NewBlockFacts DEF MemOK, MemTypes
<1>4. MemOK' /\ Grows
  BY <1>1, <1>2, <1>3, FailedMem
<1>5. wild' \in BOOLEAN
  BY <1>1, <1>2 DEF OpOK
<1> QED
  BY <1>2, <1>4, <1>5, EndStatementOK

\* What is on the stack stays there when storage grows.
LEMMA StackGrows ==
  ASSUME MemOK, MemOK', Grows, NEW s \in Seq(FittingFrames)
  PROVE  s \in Seq(FittingFrames')
<1>1. \A f \in FittingFrames : f.kind = "local" => FrameFits(f)'
  BY GrowsFits DEF FittingFrames
<1> QED
  BY <1>1, StackKept

LEMMA SameGrows ==
  ASSUME MemOK, UNCHANGED <<storage, heap>>
  PROVE  Grows
<1>1. \A w \in Vars : storage[w] # 0 => heap[storage[w] - 1].cap \in Int
  BY OwnBlock, BlockType
<1> QED
  BY <1>1 DEF Grows

\* A stacked string fits, for it is what the variable holds.
LEMMA PushedType ==
  ASSUME IInv, NEW v \in Vars
  PROVE  Pushed(v) \in Seq(FittingFrames)
<1>1. MemOK /\ stack \in Seq(FittingFrames)
  BY DEF IInv
<1>2. CASE storage[v] = 0
  BY <1>1, <1>2 DEF Pushed
<1>3. CASE storage[v] # 0
  <2> DEFINE f == [kind |-> "local", var |-> v, str |-> heap[storage[v] - 1].str]
  <2>1. /\ heap[storage[v] - 1].str \in AnyString
        /\ heap[storage[v] - 1].str.len <= heap[storage[v] - 1].cap
    BY <1>1, <1>3, OwnBlock, BlockType
  <2>2. f \in Frame /\ FrameFits(f)
    BY <1>3, <2>1 DEF Frame, FrameFits
  <2>3. f \in FittingFrames
    BY <2>2 DEF FittingFrames
  <2> QED
    BY <1>1, <1>3, <2>3, AppendType DEF Pushed
<1> QED
  BY <1>2, <1>3

-----------------------------------------------------------------------------
(***************************************************************************)
(* The actions.                                                            *)
(***************************************************************************)
LEMMA Close ==
  ASSUME MemOK, MemOK', Grows, OpOK', NEW s \in Seq(FittingFrames), stack' = s
  PROVE  IInv' /\ Grows
BY StackGrows DEF IInv

\* Actions that leave pointers, variables and blocks alone.
LEMMA CloseSame ==
  ASSUME MemOK, UNCHANGED mem, OpOK', NEW s \in Seq(FittingFrames), stack' = s
  PROVE  IInv' /\ Grows
<1>1. MemOK'
  BY SameMem
<1>2. Grows
  BY SameGrows DEF mem
<1> QED
  BY <1>1, <1>2, Close

LEMMA InitOK == ASSUME Init PROVE IInv
<1>1. MemTypes
  <2>1. MemStart \in Nat /\ MemTop \in Int
    BY LayoutAssumption
  <2>2. DOMAIN None = {} /\ None \in [DOMAIN None -> Block]
    BY DEF None
  <2>3. [v \in Vars |-> 0] \in [Vars -> Int]
    OBVIOUS
  <2>4. oom \in BOOLEAN /\ ~oom
    BY DEF Init
  <2> QED
    BY <2>1, <2>2, <2>3, <2>4 DEF Init, MemTypes
<1>2. HeapTiled
  BY DEF Init, None, HeapTiled
<1>3. StorageSound
  BY DEF Init, StorageSound
<1>4. OpOK
  <2>1. NoOp \in [name : {"none", "let", "proc"}, targets : Seq(Vars), done : Nat]
    BY EmptyType DEF NoOp
  <2>2. <<>> \in Seq(Source)
    BY EmptyType
  <2>3. DOMAIN None \subseteq Int /\ None \in [DOMAIN None -> AnyString]
    BY DEF None
  <2>4. op = NoOp /\ args = <<>> /\ temps = None /\ tempPtr = 0
    BY DEF Init
  <2>5. tempPtr \in Int
    BY <2>4
  <2>6. wild \in BOOLEAN
    BY DEF Init
  <2> QED
    BY <2>1, <2>2, <2>3, <2>4, <2>5, <2>6 DEF OpOK
<1>5. stack \in Seq(FittingFrames)
  <2>1. <<>> \in Seq(FittingFrames)
    BY EmptyType
  <2> QED
    BY <2>1 DEF Init
<1> QED
  BY <1>1, <1>2, <1>3, <1>4, <1>5 DEF IInv, MemOK

LEMMA StartOpOK ==
  ASSUME OpOK, NEW name \in {"let", "proc"}, NEW ts \in Seq(Vars), Len(ts) > 0,
         StartOp(name, ts), UNCHANGED <<tempPtr, temps, args>>, wild' \in BOOLEAN
  PROVE  OpOK'
<1>1. /\ op' \in [name : {"none", "let", "proc"}, targets : Seq(Vars), done : Nat]
      /\ op'.done < Len(op'.targets)
  BY DEF StartOp
<1> QED
  BY <1>1 DEF OpOK

LEMMA LetOK ==
  ASSUME IInv, NEW v \in Vars, Let(v)
  PROVE  IInv' /\ Grows
<1>1. MemOK /\ OpOK /\ stack \in Seq(FittingFrames)
  BY DEF IInv
<1>2. CASE CreateFails(v)
  BY <1>1, <1>2, CreateFailsOK, Close
<1>3. ASSUME NEW c \in Clones, lowPtr' = LowWith(v, c), created' = created \cup {v},
             wild' = CloneOverruns(v, c), StartOp("let", <<v>>),
             UNCHANGED <<highPtr, storage, heap, tempPtr, temps, stack, args, oom>>
      PROVE  IInv' /\ Grows
  <2>1. lowPtr' \in Nat /\ lowPtr' >= lowPtr /\ created' \subseteq Vars
    BY <1>1, <1>3, LowType, LayoutAssumption DEF MemOK, MemTypes
  <2>2. MemOK' /\ Grows
    BY <1>1, <1>3, <2>1, LowGrows, SameGrows
  <2>3. <<v>> \in Seq(Vars) /\ Len(<<v>>) > 0
    OBVIOUS
  <2>4. wild' \in BOOLEAN
    BY <1>3 DEF CloneOverruns
  <2>5. OpOK'
    BY <1>1, <1>3, <2>3, <2>4, StartOpOK
  <2> QED
    BY <1>1, <1>3, <2>2, <2>5, Close
<1> QED
  BY <1>2, <1>3 DEF Let

LEMMA LocalOK ==
  ASSUME IInv, NEW v \in Vars, Local(v)
  PROVE  IInv' /\ Grows
<1>1. MemOK /\ OpOK /\ stack \in Seq(FittingFrames)
  BY DEF IInv
<1>2. CASE CreateFails(v)
  BY <1>1, <1>2, CreateFailsOK, Close
<1>3. ASSUME NEW c \in Clones, lowPtr' = LowWith(v, c), created' = created \cup {v},
             wild' = CloneOverruns(v, c), stack' = Pushed(v),
             UNCHANGED <<highPtr, storage, heap, tempPtr, temps, op, args, oom>>
      PROVE  IInv' /\ Grows
  <2>1. lowPtr' \in Nat /\ lowPtr' >= lowPtr /\ created' \subseteq Vars
    BY <1>1, <1>3, LowType, LayoutAssumption DEF MemOK, MemTypes
  <2>2. MemOK' /\ Grows
    BY <1>1, <1>3, <2>1, LowGrows, SameGrows
  <2>3. wild' \in BOOLEAN
    BY <1>3 DEF CloneOverruns
  <2>4. OpOK'
    BY <1>1, <1>3, <2>3 DEF OpOK
  <2>5. Pushed(v) \in Seq(FittingFrames)
    BY PushedType
  <2> QED
    BY <1>1, <1>3, <2>2, <2>4, <2>5, Close
<1> QED
  BY <1>2, <1>3 DEF Local

LEMMA ProcOK ==
  ASSUME IInv, NEW ps \in ParamLists, Proc(ps)
  PROVE  IInv' /\ Grows
<1>1. MemOK /\ OpOK /\ stack \in Seq(FittingFrames)
  BY DEF IInv
<1>2. ps \in Seq(Vars) /\ Len(ps) > 0
  <2>1. PICK n \in 1..MaxParams : ps \in [1..n -> Vars]
    BY DEF ParamLists
  <2>2. n \in Nat /\ n > 0
    OBVIOUS
  <2> QED
    BY <2>1, <2>2
<1>3. wild' \in BOOLEAN
  BY <1>1 DEF Proc, OpOK
<1>4. OpOK'
  BY <1>1, <1>2, <1>3, StartOpOK DEF Proc
<1>5. Marker \in FittingFrames
  BY DEF Marker, FittingFrames, Frame
<1>6. Append(stack, Marker) \in Seq(FittingFrames)
  BY <1>1, <1>5, AppendType
<1>7. UNCHANGED mem
  BY DEF Proc, mem
<1> QED
  BY <1>1, <1>4, <1>6, <1>7, CloseSame DEF Proc

LEMMA DimOK ==
  ASSUME IInv, NEW n \in DimSizes, Dim(n)
  PROVE  IInv' /\ Grows
<1>1. MemOK /\ OpOK /\ stack \in Seq(FittingFrames)
  BY DEF IInv
<1>2. /\ lowPtr' = lowPtr + n /\ oom' = (oom \/ lowPtr + n >= highPtr)
      /\ UNCHANGED <<highPtr, created, storage, heap, tempPtr, temps, stack, op, args, wild>>
  BY DEF Dim
<1>3. /\ lowPtr \in Nat /\ n \in Nat /\ highPtr \in Int /\ created \subseteq Vars
  BY <1>1, LayoutAssumption DEF MemOK, MemTypes
<1>4. OpOK'
  BY <1>1, <1>2 DEF OpOK
<1>5. MemOK' /\ Grows
  <2>1. CASE oom \/ lowPtr + n >= highPtr
    <3>1. oom' = TRUE
      BY <1>2, <2>1
    <3>2. highPtr <= lowPtr + n
      BY <1>1, <1>3, <2>1 DEF MemOK, MemTypes
    <3>3. /\ lowPtr' \in Nat /\ lowPtr' >= lowPtr /\ highPtr' \in Int
          /\ highPtr' <= highPtr /\ highPtr' <= lowPtr' /\ created' \subseteq Vars
          /\ UNCHANGED <<storage, heap>>
      BY <1>2, <1>3, <3>2
    <3> QED
      BY <1>1, <3>1, <3>3, FailedMem
  <2>2. CASE ~(oom \/ lowPtr + n >= highPtr)
    <3>1. oom' = oom
      <4>1. oom \in BOOLEAN
        BY <1>1 DEF MemOK, MemTypes
      <4> QED
        BY <1>2, <2>2, <4>1
    <3> QED
      BY <1>1, <1>2, <1>3, <3>1, LowGrows, SameGrows
  <2> QED
    BY <2>1, <2>2
<1> QED
  BY <1>1, <1>2, <1>4, <1>5, Close

\* CLEAR starts again.
LEMMA ClearOK ==
  ASSUME IInv, Clear
  PROVE  IInv' /\ \A v \in Vars : storage'[v] = 0
<1>1. MemTypes'
  <2>1. MemStart \in Nat /\ MemTop \in Int
    BY LayoutAssumption
  <2>2. DOMAIN None = {} /\ None \in [DOMAIN None -> Block]
    BY DEF None
  <2>3. [v \in Vars |-> 0] \in [Vars -> Int]
    OBVIOUS
  <2>4. oom' \in BOOLEAN /\ ~oom'
    BY DEF Clear
  <2> QED
    BY <2>1, <2>2, <2>3, <2>4 DEF Clear, MemTypes
<1>2. HeapTiled'
  BY DEF Clear, None, HeapTiled
<1>3. StorageSound'
  BY DEF Clear, StorageSound
<1>4. OpOK'
  <2>1. wild' \in BOOLEAN
    BY DEF IInv, OpOK, Clear
  <2> QED
    BY <2>1, EndStatementOK DEF Clear
<1>5. stack' \in Seq(FittingFrames')
  <2>1. <<>> \in Seq(FittingFrames')
    BY EmptyType
  <2> QED
    BY <2>1 DEF Clear
<1>6. \A v \in Vars : storage'[v] = 0
  BY DEF Clear
<1> QED
  BY <1>1, <1>2, <1>3, <1>4, <1>5, <1>6 DEF IInv, MemOK

-----------------------------------------------------------------------------
(***************************************************************************)
(* Expressions.                                                            *)
(***************************************************************************)
LEMMA SourceType ==
  ASSUME IInv, NEW src \in Sources
  PROVE  src \in Source
<1>1. MemOK /\ OpOK /\ created \subseteq Vars
  BY DEF IInv, MemOK, MemTypes
<1>2. \A s \in AnyString : Literal(s) \in Source
  BY DEF Literal, Source
<1>3. CASE \E s \in Strings : src = Literal(s)
  BY <1>2, <1>3, StringTypes
<1>4. ASSUME NEW v \in created, src = VariableRef(v)
      PROVE  src \in Source
  <2>1. CASE storage[v] = 0
    BY <1>2, <1>4, <2>1, StringTypes DEF VariableRef
  <2>2. CASE storage[v] # 0
    <3>1. storage[v] \in Int /\ heap[storage[v] - 1].str \in AnyString
      BY <1>1, <2>2, OwnBlock, BlockType
    <3> QED
      BY <1>4, <2>2, <3>1 DEF VariableRef, Source
  <2> QED
    BY <2>1, <2>2
<1>5. ASSUME NEW a \in DOMAIN temps, src = TempRef(a)
      PROVE  src \in Source
  <2>1. a \in Int /\ temps[a] \in AnyString
    BY <1>1 DEF OpOK
  <2> QED
    BY <1>5, <2>1 DEF TempRef, Source
<1> QED
  BY <1>3, <1>4, <1>5 DEF Sources

LEMMA ContentsType ==
  ASSUME IInv, NEW src \in Source, NEW s \in Contents(src)
  PROVE  s \in AnyString
<1>1. MemOK /\ OpOK
  BY DEF IInv
<1>2. src.val \in AnyString
  BY DEF Source
<1>3. \A a \in DOMAIN temps : temps[a] \in AnyString
  BY <1>1 DEF OpOK
<1>4. \A a \in DOMAIN heap : heap[a].str \in AnyString
  <2>1. \A a \in DOMAIN heap : heap[a] \in Block
    BY <1>1 DEF MemOK, MemTypes
  <2> QED
    BY <2>1, BlockType
<1> QED
  BY <1>2, <1>3, <1>4, StringTypes DEF Contents

LEMMA NewTempOK ==
  ASSUME IInv, NEW n \in Int, NEW s \in AnyString, NewTemp(n, s)
  PROVE  IInv' /\ Grows
<1>1. MemOK /\ OpOK /\ stack \in Seq(FittingFrames)
  BY DEF IInv
<1>2. PICK a : a = TempAddress(n)
  OBVIOUS
<1>3. a \in Int
  <2>1. highPtr \in Int /\ tempPtr \in Int /\ Gap \in Int
    BY <1>1, LayoutAssumption DEF MemOK, MemTypes, OpOK
  <2> QED
    BY <1>2, <2>1 DEF TempAddress
<1>4. /\ tempPtr' = a /\ wild' = (a < lowPtr)
      /\ UNCHANGED <<lowPtr, highPtr, created, storage, heap, stack, op, args, oom>>
  BY <1>2 DEF NewTemp
<1>5. PICK t \in Scribbled(temps, a, a + s.len) : temps' = With(t, a, s)
  BY <1>2 DEF NewTemp
<1>6. DOMAIN temps' \subseteq Int /\ temps' \in [DOMAIN temps' -> AnyString]
  <2>1. DOMAIN t \subseteq Int /\ t \in [DOMAIN t -> AnyString]
    BY <1>1, ScribbledType DEF OpOK
  <2> QED
    BY <1>3, <1>5, <2>1 DEF With
<1>7. wild' \in BOOLEAN
  BY <1>4
<1>8. OpOK'
  BY <1>1, <1>3, <1>4, <1>6, <1>7 DEF OpOK
<1>9. UNCHANGED mem
  BY <1>4 DEF mem
<1> QED
  BY <1>1, <1>4, <1>8, <1>9, CloseSame

LEMMA TempOK ==
  ASSUME IInv, NEW s \in Strings, Temp(s)
  PROVE  IInv' /\ Grows
<1>1. s \in AnyString
  BY StringTypes
<1>2. s.len \in 0..MaxLen
  BY <1>1, StringTypes
<1>3. s.len \in Int
  BY <1>2
<1> QED
  BY <1>1, <1>3, NewTempOK DEF Temp

LEMMA CaseChangeOK ==
  ASSUME IInv, NEW src \in Sources, CaseChange(src)
  PROVE  IInv' /\ Grows
<1>1. src \in Source
  BY SourceType
<1>2. PICK s \in Contents(src) :
        \E n \in IF src.at = 0 THEN Lengths ELSE {src.at % Gap} : NewTemp(n, s)
  BY DEF CaseChange
<1>3. s \in AnyString
  BY <1>1, ContentsType
<1>4. Lengths \subseteq Int /\ src.at % Gap \in Int
  <2>1. src.at \in Int
    BY <1>1 DEF Source
  <2>2. Gap \in Nat /\ Gap > 0
    BY LayoutAssumption
  <2> QED
    BY <2>1, <2>2 DEF Lengths
<1>5. PICK n \in Int : NewTemp(n, s)
  BY <1>2, <1>4
<1> QED
  BY <1>3, <1>5, NewTempOK

LEMMA ArgumentOK ==
  ASSUME IInv, NEW src \in Sources, Argument(src)
  PROVE  IInv' /\ Grows
<1>1. MemOK /\ OpOK /\ stack \in Seq(FittingFrames)
  BY DEF IInv
<1>2. Append(args, src) \in Seq(Source)
  BY <1>1, SourceType, AppendType DEF OpOK
<1>3. OpOK'
  BY <1>1, <1>2 DEF Argument, OpOK
<1>4. UNCHANGED mem
  BY DEF Argument, mem
<1> QED
  BY <1>1, <1>3, <1>4, CloseSame DEF Argument

LEMMA AbortOK ==
  ASSUME IInv, Abort
  PROVE  IInv' /\ Grows
<1>1. MemOK /\ OpOK /\ stack \in Seq(FittingFrames)
  BY DEF IInv
<1>2. wild' \in BOOLEAN
  BY <1>1 DEF Abort, OpOK
<1>3. OpOK'
  BY <1>2, EndStatementOK DEF Abort
<1>4. UNCHANGED mem
  BY DEF Abort, mem
<1> QED
  BY <1>1, <1>3, <1>4, CloseSame DEF Abort

LEMMA StructureOK ==
  ASSUME IInv, Structure
  PROVE  IInv' /\ Grows
<1>1. MemOK /\ OpOK /\ stack \in Seq(FittingFrames)
  BY DEF IInv
<1>2. Loop \in FittingFrames
  BY DEF Loop, FittingFrames, Frame
<1>3. Append(stack, Loop) \in Seq(FittingFrames)
  BY <1>1, <1>2, AppendType
<1>4. stack # <<>> => Front(stack) \in Seq(FittingFrames)
  BY <1>1 DEF Front
<1>5. OpOK'
  BY <1>1 DEF Structure, OpOK
<1>6. UNCHANGED mem
  BY DEF Structure, mem
<1> QED
  BY <1>1, <1>3, <1>4, <1>5, <1>6, CloseSame DEF Structure

-----------------------------------------------------------------------------
(***************************************************************************)
(* Assignment and parameters.                                              *)
(***************************************************************************)
\* StringAssign goes on to the next target or ends the statement.
LEMMA AssignOp ==
  ASSUME OpOK, op # NoOp, NEW v, NEW src, NEW s, NEW low,
         StringAssign(v, src, s, low), wild' = wild
  PROVE  OpOK'
<1>1. wild' \in BOOLEAN
  BY DEF OpOK
<1>2. CASE CopyInPlace(v, src, s)
  BY <1>1, <1>2, BoundOK DEF CopyInPlace
<1>3. CASE CopyToNewBlock(v, src, s, low)
  BY <1>1, <1>3, BoundOK DEF CopyToNewBlock
<1> QED
  BY <1>2, <1>3 DEF StringAssign

\* The next target of a statement all of whose sources are there.
LEMMA TargetType ==
  ASSUME OpOK, NEW name, name # "none", AllEvaluated(name)
  PROVE  /\ op # NoOp
         /\ op.done + 1 \in 1..Len(op.targets) /\ 1 \in 1..Len(op.targets)
         /\ \A k \in 1..Len(op.targets) : op.targets[k] \in Vars /\ args[k] \in Source
<1>1. op # NoOp
  BY DEF AllEvaluated, NoOp
<1>2. op.targets \in Seq(Vars) /\ args \in Seq(Source) /\ op.done \in Nat
  BY DEF OpOK
<1>3. op.done < Len(op.targets) /\ Len(args) = Len(op.targets)
  BY <1>1 DEF OpOK, AllEvaluated
<1>4. op.done + 1 \in 1..Len(op.targets) /\ 1 \in 1..Len(op.targets)
  BY <1>2, <1>3
<1>5. ASSUME NEW k \in 1..Len(op.targets)
      PROVE  op.targets[k] \in Vars /\ args[k] \in Source
  BY <1>2, <1>3, ElementType
<1> QED
  BY <1>1, <1>4, <1>5

LEMMA AssignLetOK ==
  ASSUME IInv, AssignLet
  PROVE  IInv' /\ Grows
<1>1. MemOK /\ OpOK /\ stack \in Seq(FittingFrames)
  BY DEF IInv
<1>2. op # NoOp /\ op.targets[1] \in Vars /\ args[1] \in Source
  BY <1>1, TargetType DEF AssignLet
<1>3. PICK v \in Vars, src \in Source : v = op.targets[1] /\ src = args[1]
  BY <1>2
<1>4. PICK s \in Contents(src) :
        \/ StringAssign(v, src, s, lowPtr) /\ UNCHANGED <<lowPtr, created, stack, oom, wild>>
        \/ AssignFails(v, s, lowPtr) /\ UNCHANGED <<lowPtr, created, stack>>
  BY <1>3 DEF AssignLet
<1>5. s \in AnyString /\ lowPtr \in Nat /\ lowPtr >= lowPtr /\ created' \subseteq Vars
  <2>1. s \in AnyString
    BY ContentsType
  <2>2. lowPtr \in Nat /\ created \subseteq Vars
    BY <1>1 DEF MemOK, MemTypes
  <2> QED
    BY <1>4, <2>1, <2>2
<1>6. CASE StringAssign(v, src, s, lowPtr) /\ UNCHANGED <<lowPtr, created, stack, oom, wild>>
  <2>1. MemOK' /\ Grows
    BY <1>1, <1>5, <1>6, AssignMem
  <2>2. OpOK'
    BY <1>1, <1>2, <1>6, AssignOp
  <2> QED
    BY <1>1, <1>6, <2>1, <2>2, Close
<1>7. CASE AssignFails(v, s, lowPtr) /\ UNCHANGED <<lowPtr, created, stack>>
  BY <1>1, <1>5, <1>7, AssignFailsOK, Close
<1> QED
  BY <1>4, <1>6, <1>7

LEMMA BindParameterOK ==
  ASSUME IInv, BindParameter
  PROVE  IInv' /\ Grows
<1>1. MemOK /\ OpOK /\ stack \in Seq(FittingFrames)
  BY DEF IInv
<1>2. /\ op # NoOp
      /\ op.targets[op.done + 1] \in Vars /\ args[op.done + 1] \in Source
  BY <1>1, TargetType DEF BindParameter
<1>3. PICK v \in Vars, src \in Source :
        v = op.targets[op.done + 1] /\ src = args[op.done + 1]
  BY <1>2
<1>4. PICK low : low = LowWith(v, 0)
  OBVIOUS
<1>5. low \in Nat /\ low >= lowPtr
  BY <1>1, <1>4, LowType
<1>6. CASE CreateFails(v)
  BY <1>1, <1>6, CreateFailsOK, Close
<1>7. CASE ~CreateFails(v)
  <2>1. /\ lowPtr' = low /\ created' = created \cup {v} /\ stack' = Pushed(v)
        /\ \E s \in Contents(src) :
             \/ StringAssign(v, src, s, low) /\ UNCHANGED <<oom, wild>>
             \/ AssignFails(v, s, low)
    BY <1>3, <1>4, <1>7 DEF BindParameter
  <2>2. PICK s \in Contents(src) :
             \/ StringAssign(v, src, s, low) /\ UNCHANGED <<oom, wild>>
             \/ AssignFails(v, s, low)
    BY <2>1
  <2>3. s \in AnyString /\ created' \subseteq Vars
    BY <1>1, <2>1, ContentsType DEF MemOK, MemTypes
  <2>4. Pushed(v) \in Seq(FittingFrames)
    BY PushedType
  <2>5. CASE StringAssign(v, src, s, low) /\ UNCHANGED <<oom, wild>>
    <3>1. MemOK' /\ Grows
      BY <1>1, <1>5, <2>1, <2>3, <2>5, AssignMem
    <3>2. OpOK'
      BY <1>1, <1>2, <2>5, AssignOp
    <3> QED
      BY <1>1, <2>1, <2>4, <3>1, <3>2, Close
  <2>6. CASE AssignFails(v, s, low)
    BY <1>1, <1>5, <2>1, <2>3, <2>4, <2>6, AssignFailsOK, Close
  <2> QED
    BY <2>2, <2>5, <2>6
<1> QED
  BY <1>6, <1>7

-----------------------------------------------------------------------------
(***************************************************************************)
(* ENDPROC.                                                                *)
(***************************************************************************)
\* The frames ENDPROC restores are LOCAL strings, and they fit.
LEMMA LocalFramesFit ==
  ASSUME stack \in Seq(FittingFrames)
  PROVE  /\ LastOther \in 0..Len(stack) /\ LocalFrames \subseteq 1..Len(stack)
         /\ \A i \in LocalFrames : FrameFits(stack[i]) /\ stack[i].str \in AnyString
<1>1. LastOther \in 0..Len(stack) /\ \A i \in (LastOther + 1)..Len(stack) : stack[i].kind = "local"
  <2>1. LastOther = SelectLastInSeq(stack, LAMBDA f : f.kind # "local")
    BY DEF LastOther
  <2> QED
    BY <2>1, LastOtherFacts
<1>2. LocalFrames \subseteq 1..Len(stack)
  BY <1>1 DEF LocalFrames
<1>3. ASSUME NEW i \in LocalFrames
      PROVE  FrameFits(stack[i]) /\ stack[i].str \in AnyString
  <2>1. stack[i] \in FittingFrames
    BY <1>2, ElementType
  <2>2. stack[i].kind = "local"
    BY <1>1 DEF LocalFrames
  <2>3. FrameFits(stack[i])
    BY <2>1, <2>2 DEF FittingFrames
  <2>4. stack[i].str \in AnyString
    BY <2>1, <2>2 DEF FittingFrames, Frame
  <2> QED
    BY <2>3, <2>4
<1> QED
  BY <1>1, <1>2, <1>3

LEMMA OldestOwn ==
  ASSUME stack \in Seq(FittingFrames), NEW own \in SUBSET LocalFrames, own # {}
  PROVE  RestoredFrom(own) \in own
<1>1. Len(stack) \in Nat /\ own \in SUBSET (1..Len(stack))
  BY LocalFramesFit
<1>2. \E i \in own : \A j \in own : i <= j
  BY <1>1, LeastExists
<1> QED
  BY <1>2 DEF RestoredFrom

LEMMA EndProcMem ==
  ASSUME MemOK, stack \in Seq(FittingFrames), EndProc
  PROVE  MemOK' /\ Grows
<1> DEFINE Own(a) == {i \in LocalFrames : storage[stack[i].var] = a + 1}
           New(a) == IF Own(a) = {} THEN heap[a]
                     ELSE [heap[a] EXCEPT !.str = stack[RestoredFrom(Own(a))].str]
<1>1. /\ heap' = [a \in DOMAIN heap |-> New(a)]
      /\ UNCHANGED <<lowPtr, highPtr, created, storage, oom>>
  BY DEF EndProc
<1>2. ASSUME NEW a \in DOMAIN heap
      PROVE  /\ New(a) \in Block /\ New(a).cap = heap[a].cap
             /\ heap[a].str.len <= heap[a].cap => New(a).str.len <= New(a).cap
  <2>1. heap[a] \in Block /\ a \in Int
    BY DEF MemOK, MemTypes
  <2>2. CASE Own(a) = {}
    BY <2>1, <2>2
  <2>3. CASE Own(a) # {}
    <3>1. PICK i \in Own(a) : i = RestoredFrom(Own(a))
      <4>1. Own(a) \in SUBSET LocalFrames
        OBVIOUS
      <4> HIDE DEF Own
      <4> QED
        BY <2>3, <4>1, OldestOwn
    <3>2. storage[stack[i].var] = a + 1 /\ FrameFits(stack[i]) /\ stack[i].str \in AnyString
      BY <3>1, LocalFramesFit
    <3>3. stack[i].str.len <= heap[a].cap
      <4>1. storage[stack[i].var] - 1 = a
        BY <2>1, <3>2
      <4> QED
        BY <3>2, <4>1 DEF FrameFits
    <3>4. New(a) = [heap[a] EXCEPT !.str = stack[i].str]
      BY <2>3, <3>1
    <3> QED
      BY <2>1, <3>2, <3>3, <3>4 DEF Block
  <2> QED
    BY <2>2, <2>3
<1>3. /\ DOMAIN heap' = DOMAIN heap
      /\ \A a \in DOMAIN heap : /\ heap'[a] \in Block /\ heap'[a].cap = heap[a].cap
                                /\ heap[a].str.len <= heap[a].cap => heap'[a].str.len <= heap'[a].cap
  <2> HIDE DEF New
  <2> QED
    BY <1>1, <1>2
<1> HIDE DEF New
<1>4. MemTypes'
  <2>1. heap' \in [DOMAIN heap' -> Block] /\ DOMAIN heap' \subseteq Int
    BY <1>1, <1>3 DEF MemOK, MemTypes
  <2> QED
    BY <1>1, <2>1 DEF MemOK, MemTypes
<1>5. HeapTiled'
  <2>1. \A a \in DOMAIN heap : EndOf(a)' = EndOf(a)
    BY <1>3 DEF EndOf, BlockSize
  <2>2. HeapTiled
    BY DEF MemOK
  <2>3. \A a \in DOMAIN heap' : EndOf(a)' = MemTop \/ EndOf(a)' \in DOMAIN heap'
    BY <1>3, <2>1, <2>2 DEF HeapTiled
  <2>4. \A a, b \in DOMAIN heap' : a < b => EndOf(a)' <= b
    BY <1>3, <2>1, <2>2 DEF HeapTiled
  <2>5. /\ \A a \in DOMAIN heap' : highPtr' <= a
        /\ ~oom' => highPtr' = MemTop \/ highPtr' \in DOMAIN heap'
    BY <1>1, <1>3, <2>2 DEF HeapTiled
  <2> QED
    BY <2>3, <2>4, <2>5 DEF HeapTiled
<1>6. StorageSound'
  BY <1>1, <1>3 DEF MemOK, StorageSound
<1>7. Grows
  <2>1. \A w \in Vars : storage[w] # 0 =>
          storage[w] - 1 \in DOMAIN heap /\ heap[storage[w] - 1].cap \in Int
    BY OwnBlock, BlockType
  <2>2. ASSUME NEW w \in Vars, storage[w] # 0
        PROVE  /\ storage'[w] # 0
               /\ heap'[storage'[w] - 1].cap = heap[storage[w] - 1].cap
    BY <1>1, <1>3, <2>1, <2>2
  <2> QED
    BY <2>1, <2>2 DEF Grows
<1> QED
  BY <1>4, <1>5, <1>6, <1>7 DEF MemOK

LEMMA EndProcOK ==
  ASSUME IInv, EndProc
  PROVE  IInv' /\ Grows
<1>1. MemOK /\ OpOK /\ stack \in Seq(FittingFrames)
  BY DEF IInv
<1>2. MemOK' /\ Grows
  BY <1>1, EndProcMem
<1>3. wild' \in BOOLEAN
  BY DEF EndProc
<1>4. UNCHANGED <<tempPtr, temps, op, args>>
  BY DEF EndProc
<1>5. OpOK'
  BY <1>1, <1>3, <1>4 DEF OpOK
<1>6. AfterEndProc \in Seq(FittingFrames)
  <2>1. LastOther \in 0..Len(stack) /\ Len(stack) \in Nat
    BY <1>1, LocalFramesFit
  <2>2. PICK n \in 0..Len(stack) : AfterEndProc = SubSeq(stack, 1, n)
    BY <2>1 DEF AfterEndProc
  <2> QED
    BY <1>1, <2>2, SubSeqType
<1> QED
  BY <1>1, <1>2, <1>5, <1>6, Close DEF EndProc

-----------------------------------------------------------------------------
(***************************************************************************)
(* The theorems.                                                           *)
(***************************************************************************)
\* What StorageNeverShrinks says of a step.
Keeps ==
  \A v \in Vars : storage[v] # 0 /\ storage'[v] # 0 =>
    heap'[storage'[v] - 1].cap >= heap[storage[v] - 1].cap

LEMMA NextOK == ASSUME IInv, [Next]_vars PROVE IInv' /\ Keeps
<1>1. CASE UNCHANGED vars
  <2>1. MemOK /\ OpOK /\ stack \in Seq(FittingFrames)
    BY DEF IInv
  <2>2. UNCHANGED mem /\ UNCHANGED <<tempPtr, temps, stack, op, args, wild>>
    BY <1>1 DEF vars, mem
  <2>3. OpOK'
    BY <2>1, <2>2 DEF OpOK
  <2> QED
    BY <2>1, <2>2, <2>3, CloseSame DEF Grows, Keeps
<1>2. CASE Clear
  BY <1>2, ClearOK DEF Keeps
<1>3. CASE Next /\ ~Clear
  <2>1. IInv' /\ Grows
    BY <1>3, LetOK, LocalOK, ProcOK, DimOK, TempOK, CaseChangeOK, ArgumentOK,
       AbortOK, AssignLetOK, BindParameterOK, EndProcOK, StructureOK DEF Next
  <2> QED
    BY <2>1 DEF Grows, Keeps
<1> QED
  BY <1>1, <1>2, <1>3

LEMMA Invariance == Spec => []IInv
<1>1. Init => IInv
  BY InitOK
<1>2. IInv /\ [Next]_vars => IInv'
  BY NextOK
<1> QED
  BY <1>1, <1>2, PTL DEF Spec

LEMMA IInvImplies ==
  ASSUME IInv
  PROVE  TypeOK /\ HeapTiled /\ StorageSound /\ LocalsFit
<1>1. MemOK /\ OpOK /\ stack \in Seq(FittingFrames)
  BY DEF IInv
<1>2. stack \in Seq(Frame)
  BY <1>1 DEF FittingFrames
<1>3. TypeOK
  <2>1. MemTypes
    BY <1>1 DEF MemOK
  <2> QED
    BY <1>1, <1>2, <2>1 DEF MemTypes, OpOK, TypeOK
<1>4. LocalsFit
  <2> SUFFICES ASSUME NEW i \in DOMAIN stack, stack[i].kind = "local"
               PROVE  FrameFits(stack[i])
    BY DEF LocalsFit
  <2>1. stack[i] \in FittingFrames
    BY <1>1
  <2> QED
    BY <2>1 DEF FittingFrames
<1> QED
  BY <1>1, <1>3, <1>4 DEF MemOK

\* Every variable of the string memory has its type: records, blocks, temps, frames
\* and the statement in progress.
THEOREM HeapTypes == Spec => []TypeOK
<1>1. IInv => TypeOK
  BY IInvImplies
<1> QED
  BY <1>1, Invariance, PTL

\* Giving back the bottom-most block and taking a larger one never makes two
\* blocks overlap or leaves bytes between them.
THEOREM TiledTheorem == Spec => []HeapTiled
<1>1. IInv => HeapTiled
  BY IInvImplies
<1> QED
  BY <1>1, Invariance, PTL

\* No string is longer than its block, and no two variables share a block.
THEOREM StorageTheorem == Spec => []StorageSound
<1>1. IInv => StorageSound
  BY IInvImplies
<1> QED
  BY <1>1, Invariance, PTL

\* What LocalRestore copies back, unchecked, fits.
THEOREM LocalsTheorem == Spec => []LocalsFit
<1>1. IInv => LocalsFit
  BY IInvImplies
<1> QED
  BY <1>1, Invariance, PTL

\* Until CLEAR forgets them all, a variable's block is only replaced by one that
\* is at least as large: what lets LOCAL restore without a check.
THEOREM GrowthTheorem == Spec => StorageNeverShrinks
<1>1. IInv /\ [Next]_vars => Keeps
  BY NextOK
<1>2. IInv /\ [Next]_vars => [Keeps]_vars
  BY <1>1
<1>3. [][Keeps]_vars => StorageNeverShrinks
  BY DEF StorageNeverShrinks, Keeps
<1> QED
  BY <1>2, <1>3, Invariance, PTL DEF Spec

-----------------------------------------------------------------------------
(***************************************************************************)
(* The pointers.  A program, whose identifiers are all in its text already,*)
(* clones none.                                                            *)
(***************************************************************************)
LEMMA CreationApart ==
  ASSUME IInv, NoSilentCrossing, NEW v, ~CannotCreate(v), ~oom
  PROVE  LowWith(v, 0) <= highPtr
<1>1. lowPtr \in Nat /\ highPtr \in Int /\ RecSize \in Nat /\ lowPtr <= highPtr
  BY LayoutAssumption DEF IInv, MemOK, MemTypes, NoSilentCrossing
<1> QED
  BY <1>1 DEF CannotCreate, LowWith

\* A string goes into the block that is there, or into one that was found to be
\* above low memory.
LEMMA AssignmentApart ==
  ASSUME NEW v, NEW src, NEW s, NEW low, StringAssign(v, src, s, low), low <= highPtr
  PROVE  low <= highPtr'
<1>1. CASE CopyInPlace(v, src, s)
  BY <1>1 DEF CopyInPlace
<1>2. CASE CopyToNewBlock(v, src, s, low)
  <2>1. PICK b : b = NewBlock(v, s)
    OBVIOUS
  <2>2. highPtr' = b /\ b >= low
    BY <1>2, <2>1 DEF CopyToNewBlock
  <2> QED
    BY <2>2
<1> QED
  BY <1>1, <1>2 DEF StringAssign

LEMMA CrossingStep ==
  ASSUME Clones = {0}, IInv, NoSilentCrossing, [Next]_vars
  PROVE  NoSilentCrossing'
<1>1. lowPtr \in Nat /\ highPtr \in Int /\ DimSizes \subseteq Nat /\ oom \in BOOLEAN
  BY LayoutAssumption DEF IInv, MemOK, MemTypes
<1>2. SUFFICES ASSUME ~oom' PROVE lowPtr' <= highPtr'
  BY DEF NoSilentCrossing
<1>3. ASSUME NEW v \in Vars, CreateFails(v) PROVE FALSE
  BY <1>2, <1>3 DEF CreateFails, OutOfMemoryError
<1>4. ASSUME NEW v \in Vars, NEW c \in Clones, ~CannotCreate(v),
             lowPtr' = LowWith(v, c), UNCHANGED <<highPtr, oom>>
      PROVE  lowPtr' <= highPtr'
  <2>1. c = 0 /\ ~oom
    BY <1>2, <1>4
  <2> QED
    BY <1>4, <2>1, CreationApart
<1>5. ASSUME NEW v \in Vars, Let(v) \/ Local(v) PROVE lowPtr' <= highPtr'
  BY <1>3, <1>4, <1>5 DEF Let, Local
<1>6. ASSUME NEW n \in DimSizes, Dim(n) PROVE lowPtr' <= highPtr'
  <2>1. lowPtr' = lowPtr + n /\ highPtr' = highPtr /\ ~(lowPtr + n >= highPtr)
    BY <1>2, <1>6 DEF Dim
  <2>2. n \in Nat
    BY <1>1
  <2> QED
    BY <1>1, <2>1, <2>2
<1>7. CASE Clear
  <2>1. lowPtr' = MemStart /\ highPtr' = MemTop
    BY <1>7 DEF Clear
  <2> QED
    BY <2>1, LayoutAssumption
<1>8. ASSUME NEW v, NEW s, NEW low, AssignFails(v, s, low) PROVE FALSE
  BY <1>2, <1>8 DEF AssignFails, OutOfMemoryError
<1>9. CASE AssignLet
  <2>1. PICK v, src, s : StringAssign(v, src, s, lowPtr) /\ UNCHANGED <<lowPtr, oom>>
    BY <1>8, <1>9 DEF AssignLet
  <2>2. lowPtr <= highPtr
    BY <1>2, <2>1 DEF NoSilentCrossing
  <2> QED
    BY <2>1, <2>2, AssignmentApart
<1>10. CASE BindParameter
  <2>1. PICK v : v = op.targets[op.done + 1]
    OBVIOUS
  <2>2. v \in Vars
    <3>1. OpOK
      BY DEF IInv
    <3> QED
      BY <1>10, <2>1, <3>1, TargetType DEF BindParameter
  <2>3. PICK src, s : /\ ~CannotCreate(v) /\ lowPtr' = LowWith(v, 0)
                      /\ StringAssign(v, src, s, LowWith(v, 0)) /\ UNCHANGED oom
    BY <1>3, <1>8, <1>10, <2>1, <2>2 DEF BindParameter
  <2>4. LowWith(v, 0) <= highPtr
    BY <1>2, <2>3, CreationApart
  <2> QED
    BY <2>3, <2>4, AssignmentApart
<1>11. ASSUME UNCHANGED <<lowPtr, highPtr, oom>> PROVE lowPtr' <= highPtr'
  BY <1>2, <1>11 DEF NoSilentCrossing
<1>12. CASE \/ UNCHANGED vars \/ Abort \/ EndProc \/ Structure
            \/ \E ps \in ParamLists : Proc(ps)
            \/ \E src \in Sources : Argument(src)
  <2>1. UNCHANGED <<lowPtr, highPtr, oom>>
    BY <1>12 DEF vars, Abort, EndProc, Structure, Proc, Argument
  <2> QED
    BY <1>11, <2>1
<1>13. CASE (\E s \in Strings : Temp(s)) \/ (\E src \in Sources : CaseChange(src))
  <2>1. PICK n, s : NewTemp(n, s)
    BY <1>13 DEF Temp, CaseChange
  <2>2. UNCHANGED <<lowPtr, highPtr, oom>>
    BY <2>1 DEF NewTemp
  <2> QED
    BY <1>11, <2>2
<1> QED
  BY <1>5, <1>6, <1>7, <1>9, <1>10, <1>12, <1>13 DEF Next

\* In a program that clones no identifier, the two pointers only cross with an
\* out of memory error, although each of them is moved before it is compared.
THEOREM CrossingTheorem ==
  ASSUME Clones = {0}
  PROVE  Spec => []NoSilentCrossing
<1>1. Init => NoSilentCrossing
  BY LayoutAssumption DEF Init, NoSilentCrossing
<1>2. IInv /\ NoSilentCrossing /\ [Next]_vars => NoSilentCrossing'
  BY CrossingStep
<1> QED
  BY <1>1, <1>2, Invariance, PTL DEF Spec

-----------------------------------------------------------------------------
(***************************************************************************)
(* What is written outside its area.  The pointers cannot run so far down  *)
(* that a temp string would lie at 0, which means that there is none: a    *)
(* block begins at $4000, far above the 1025 bytes that this takes.        *)
(***************************************************************************)
\* Low memory only grows, and highPtr passes it by one block at most; while
\* sources are evaluated the temps are above low memory.
TempsPlaced ==
  /\ MemStart <= lowPtr /\ MemStart <= highPtr + MaxLen + 2
  /\ Ready => tempPtr = 0
  /\ Evaluating => tempPtr = 0 \/ lowPtr <= tempPtr
  /\ OnlyTempsOverrun

\* Between statements, and after an error.
LEMMA PlacedAfterStatement ==
  ASSUME EndStatement, MemStart <= lowPtr', MemStart <= highPtr' + MaxLen + 2, ~wild'
  PROVE  TempsPlaced'
BY DEF EndStatement, TempsPlaced, Evaluating, Ready, OnlyTempsOverrun

LEMMA FailedCreationPlaced ==
  ASSUME IInv, TempsPlaced, ~wild, NEW v, CreateFails(v)
  PROVE  TempsPlaced'
<1>1. EndStatement /\ lowPtr' = lowPtr + RecSize /\ UNCHANGED <<highPtr, wild>>
  BY DEF CreateFails, OutOfMemoryError
<1>2. lowPtr \in Nat /\ RecSize \in Nat /\ MemStart \in Nat
  BY LayoutAssumption DEF IInv, MemOK, MemTypes
<1> QED
  BY <1>1, <1>2, PlacedAfterStatement DEF TempsPlaced

\* A failed assignment has moved highPtr below low memory, but not by more than
\* the block it wanted.
LEMMA FailedAssignmentPlaced ==
  ASSUME IInv, TempsPlaced, ~wild, NEW v \in Vars, NEW s \in AnyString, NEW low,
         AssignFails(v, s, low), lowPtr' \in Nat, lowPtr' >= lowPtr
  PROVE  TempsPlaced'
<1>1. /\ EndStatement /\ highPtr' = NewBlock(v, s) /\ wild' = wild
      /\ ~Fits(v, s) /\ lowPtr <= highPtr
  BY DEF AssignFails, OutOfMemoryError, NotCrossed
<1>2. MemOK
  BY DEF IInv
<1>3. /\ lowPtr \in Nat /\ highPtr \in Int /\ MemStart \in Nat /\ MaxLen \in Nat
      /\ MemStart <= lowPtr
  BY <1>2, LayoutAssumption DEF MemOK, MemTypes, TempsPlaced
<1>4. s.len \in 0..MaxLen
  BY StringTypes
<1>5. Capacity(s.len) \in 0..MaxLen
  BY <1>4, CapacityFacts DEF Lengths
<1>6. NewBlock(v, s) \in Int /\ NewBlock(v, s) >= highPtr - (Capacity(s.len) + 2)
  <2>1. /\ NewBlock(v, s) \in Int
        /\ \/ NewBlock(v, s) + Capacity(s.len) + 2 = highPtr
           \/ highPtr \in DOMAIN heap /\ NewBlock(v, s) + Capacity(s.len) + 2 = EndOf(highPtr)
    BY <1>1, <1>2, NewBlockFacts
  <2>2. highPtr \in DOMAIN heap => EndOf(highPtr) \in Int /\ EndOf(highPtr) >= highPtr
    <3>1. highPtr \in DOMAIN heap => heap[highPtr] \in Block
      BY <1>2 DEF MemOK, MemTypes
    <3> QED
      BY <1>3, <3>1, BlockType DEF EndOf
  <2> QED
    BY <1>3, <1>5, <2>1, <2>2
<1>7. MemStart <= highPtr' + MaxLen + 2 /\ MemStart <= lowPtr'
  BY <1>1, <1>3, <1>5, <1>6
<1> QED
  BY <1>1, <1>7, PlacedAfterStatement

\* A string that is assigned goes above low memory.
LEMMA AssignmentPlaced ==
  ASSUME IInv, IInv', TempsPlaced, ~wild, op # NoOp, Len(args) = Len(op.targets),
         NEW v, NEW src, NEW s, NEW low \in Nat, low >= lowPtr,
         lowPtr' = low, wild' = wild, StringAssign(v, src, s, low)
  PROVE  TempsPlaced'
<1>1. /\ lowPtr \in Nat /\ highPtr \in Int /\ highPtr' \in Int
      /\ MemStart \in Nat /\ MaxLen \in Nat
      /\ MemStart <= lowPtr /\ MemStart <= highPtr + MaxLen + 2
  BY LayoutAssumption DEF IInv, MemOK, MemTypes, TempsPlaced
<1>2. /\ MemStart <= lowPtr' /\ MemStart <= highPtr' + MaxLen + 2
      /\ \E lo, hi : Bound(lo, hi)
  <2>1. CASE CopyInPlace(v, src, s)
    BY <1>1, <2>1 DEF CopyInPlace
  <2>2. CASE CopyToNewBlock(v, src, s, low)
    <3>1. PICK b : b = NewBlock(v, s)
      OBVIOUS
    <3>2. highPtr' = b /\ b >= low /\ \E lo, hi : Bound(lo, hi)
      BY <2>2, <3>1 DEF CopyToNewBlock
    <3> QED
      BY <1>1, <3>2
  <2> QED
    BY <2>1, <2>2 DEF StringAssign
<1>3. CASE EndStatement
  BY <1>2, <1>3, PlacedAfterStatement
<1>4. CASE ~EndStatement
  <2>1. op' = [op EXCEPT !.done = @ + 1] /\ UNCHANGED <<args, tempPtr>>
    BY <1>2, <1>4 DEF Bound
  <2>2. /\ op \in [name : {"none", "let", "proc"}, targets : Seq(Vars), done : Nat]
        /\ op.done < Len(op.targets)
    BY DEF IInv, OpOK
  <2>3. op'.targets = op.targets /\ Len(op.targets) > 0
    BY <2>1, <2>2
  <2>4. op' # NoOp
    BY <2>3 DEF NoOp
  <2> QED
    BY <1>2, <2>1, <2>3, <2>4 DEF TempsPlaced, Evaluating, Ready, OnlyTempsOverrun
<1> QED
  BY <1>3, <1>4

\* Only here is something written below low memory.
LEMMA NewTempPlaced ==
  ASSUME MemStart > 2 * MaxLen + 2 * Gap + 3, IInv, TempsPlaced, Evaluating,
         NEW n \in 0..(MaxLen + Gap), NEW s, NewTemp(n, s)
  PROVE  TempsPlaced'
<1>1. PICK a : a = TempAddress(n)
  OBVIOUS
<1>2. tempPtr' = a /\ wild' = (a < lowPtr) /\ UNCHANGED <<lowPtr, highPtr, op, args>>
  BY <1>1 DEF NewTemp
<1>3. /\ lowPtr \in Nat /\ highPtr \in Int /\ tempPtr \in Int
      /\ MemStart \in Nat /\ MaxLen \in Nat /\ Gap \in Nat
      /\ MemStart <= lowPtr /\ MemStart <= highPtr + MaxLen + 2
  BY LayoutAssumption DEF IInv, MemOK, MemTypes, OpOK, TempsPlaced
<1>4. a \in Int /\ a > 0
  <2>1. tempPtr = 0 \/ lowPtr <= tempPtr
    BY DEF TempsPlaced
  <2>2. a = (IF tempPtr = 0 THEN highPtr - Gap ELSE tempPtr) - n - 1
    BY <1>1 DEF TempAddress
  <2> QED
    BY <1>3, <2>1, <2>2
<1>5. op # NoOp /\ ~Ready'
  BY <1>2 DEF Evaluating, Ready
<1>6. MemStart <= lowPtr' /\ MemStart <= highPtr' + MaxLen + 2
  BY <1>2, <1>3
<1>7. CASE a < lowPtr
  <2>1. OnlyTempsOverrun'
    BY <1>2, <1>4, <1>7 DEF OnlyTempsOverrun
  <2>2. wild'
    BY <1>2, <1>7
  <2>3. ~Evaluating'
    BY <2>2 DEF Evaluating
  <2> QED
    BY <1>5, <1>6, <2>1, <2>3 DEF TempsPlaced
<1>8. CASE ~(a < lowPtr)
  <2>1. ~wild'
    BY <1>2, <1>8
  <2>2. lowPtr' <= tempPtr'
    BY <1>2, <1>3, <1>4, <1>8
  <2> QED
    BY <1>5, <1>6, <2>1, <2>2 DEF TempsPlaced, OnlyTempsOverrun
<1> QED
  BY <1>7, <1>8

\* A program that clones no identifier fits its variables below highPtr.
LEMMA CreationPlaced ==
  ASSUME Clones = {0}, IInv, TempsPlaced, Ready, NEW v \in Vars,
         NEW c \in Clones, ~CannotCreate(v), lowPtr' = LowWith(v, c), highPtr' = highPtr,
         wild' = CloneOverruns(v, c), tempPtr' = tempPtr
  PROVE  TempsPlaced' /\ ~wild'
<1>1. lowPtr \in Nat /\ highPtr \in Int /\ RecSize \in Nat /\ MemStart \in Nat /\ c = 0
  BY LayoutAssumption DEF IInv, MemOK, MemTypes
<1>2. ~wild'
  <2>1. ~CloneOverruns(v, c)
    BY <1>1 DEF CloneOverruns, CannotCreate
  <2> QED
    BY <2>1
<1>3. lowPtr' \in Nat /\ lowPtr' >= lowPtr
  BY <1>1 DEF LowWith
<1>4. tempPtr' = 0 /\ MemStart <= lowPtr /\ MemStart <= highPtr + MaxLen + 2
  BY DEF TempsPlaced
<1> QED
  BY <1>1, <1>2, <1>3, <1>4 DEF TempsPlaced, OnlyTempsOverrun

LEMMA OverrunStep ==
  ASSUME Clones = {0}, MemStart > 2 * MaxLen + 2 * Gap + 3, IInv, IInv', TempsPlaced, [Next]_vars
  PROVE  TempsPlaced'
<1>1. /\ lowPtr \in Nat /\ highPtr \in Int /\ DimSizes \subseteq Nat
      /\ MemStart \in Nat /\ MemTop \in Nat /\ MaxLen \in Nat /\ Gap \in Nat /\ Gap > 0
      /\ MemStart < MemTop
  <2>1. MemTypes
    BY DEF IInv, MemOK
  <2>2. Gap \in Nat /\ Gap > 0
    BY LayoutAssumption
  <2> QED
    BY <2>1, <2>2, LayoutAssumption DEF MemTypes
<1>2. CASE UNCHANGED vars
  <2>1. UNCHANGED <<lowPtr, highPtr, op, args, tempPtr, wild>>
    BY <1>2 DEF vars
  <2> QED
    BY <2>1 DEF TempsPlaced, Evaluating, Ready, OnlyTempsOverrun
<1>3. ASSUME NEW v \in Vars, Let(v) \/ Local(v) PROVE TempsPlaced'
  BY <1>3, FailedCreationPlaced, CreationPlaced DEF Let, Local, Ready
<1>4. ASSUME NEW ps \in ParamLists, Proc(ps) PROVE TempsPlaced'
  <2>1. Ready /\ UNCHANGED <<lowPtr, highPtr, tempPtr, wild>>
    BY <1>4 DEF Proc
  <2> QED
    BY <2>1 DEF Ready, TempsPlaced, Evaluating, OnlyTempsOverrun
<1>5. ASSUME NEW n \in DimSizes, Dim(n) PROVE TempsPlaced'
  <2>1. Ready /\ lowPtr' = lowPtr + n /\ UNCHANGED <<highPtr, tempPtr, op, args, wild>>
    BY <1>5 DEF Dim
  <2>2. n \in Nat
    BY <1>1
  <2> QED
    BY <1>1, <2>1, <2>2 DEF Ready, TempsPlaced, Evaluating, OnlyTempsOverrun
<1>6. CASE Clear
  <2>1. lowPtr' = MemStart /\ highPtr' = MemTop /\ EndStatement /\ ~wild'
    BY <1>6 DEF Clear, Ready
  <2> QED
    BY <1>1, <2>1, PlacedAfterStatement
<1>7. ASSUME NEW s \in Strings, Temp(s) PROVE TempsPlaced'
  <2>1. s \in AnyString
    BY StringTypes
  <2>2. s.len \in 0..MaxLen
    BY <2>1, StringTypes
  <2>3. s.len \in 0..(MaxLen + Gap)
    BY <1>1, <2>2
  <2> QED
    BY <1>7, <2>3, NewTempPlaced DEF Temp
<1>8. ASSUME NEW src \in Sources, CaseChange(src) PROVE TempsPlaced'
  <2>1. src.at \in Int
    BY SourceType DEF Source
  <2>2. src.at % Gap \in 0..(Gap - 1)
    BY <1>1, <2>1
  <2>3. Lengths \subseteq 0..(MaxLen + Gap) /\ src.at % Gap \in 0..(MaxLen + Gap)
    BY <1>1, <2>2 DEF Lengths
  <2>4. PICK s \in Contents(src) :
          \E n \in IF src.at = 0 THEN Lengths ELSE {src.at % Gap} : NewTemp(n, s)
    BY <1>8 DEF CaseChange
  <2>5. PICK n \in 0..(MaxLen + Gap) : NewTemp(n, s)
    BY <2>3, <2>4
  <2> QED
    BY <1>8, <2>5, NewTempPlaced DEF CaseChange
<1>9. ASSUME NEW src \in Sources, Argument(src) PROVE TempsPlaced'
  <2>1. /\ Evaluating /\ args' = Append(args, src) /\ UNCHANGED <<lowPtr, highPtr, op, tempPtr, wild>>
    BY <1>9 DEF Argument
  <2> QED
    BY <2>1 DEF Evaluating, Ready, TempsPlaced, OnlyTempsOverrun
<1>10. CASE Abort
  <2>1. EndStatement /\ ~wild' /\ UNCHANGED <<lowPtr, highPtr>>
    BY <1>10 DEF Abort
  <2> QED
    BY <2>1, PlacedAfterStatement DEF TempsPlaced
<1>11. CASE AssignLet
  <2>1. OpOK
    BY DEF IInv
  <2>2. op # NoOp /\ op.targets[1] \in Vars /\ args[1] \in Source
    BY <1>11, <2>1, TargetType DEF AssignLet
  <2>3. PICK v \in Vars, src \in Source : v = op.targets[1] /\ src = args[1]
    BY <2>2
  <2>4. PICK s \in Contents(src) :
          \/ StringAssign(v, src, s, lowPtr) /\ UNCHANGED <<lowPtr, wild>>
          \/ AssignFails(v, s, lowPtr) /\ UNCHANGED lowPtr
    BY <1>11, <2>3 DEF AssignLet
  <2>5. s \in AnyString
    BY ContentsType
  <2>6. ~wild /\ Len(args) = Len(op.targets)
    BY <1>11 DEF AssignLet, AllEvaluated
  <2> QED
    BY <1>1, <2>2, <2>4, <2>5, <2>6, AssignmentPlaced, FailedAssignmentPlaced
<1>12. CASE BindParameter
  <2>1. OpOK /\ MemOK
    BY DEF IInv
  <2>2. /\ op # NoOp
        /\ op.targets[op.done + 1] \in Vars /\ args[op.done + 1] \in Source
    BY <1>12, <2>1, TargetType DEF BindParameter
  <2>3. PICK v \in Vars, src \in Source :
          v = op.targets[op.done + 1] /\ src = args[op.done + 1]
    BY <2>2
  <2>4. PICK low : low = LowWith(v, 0)
    OBVIOUS
  <2>5. low \in Nat /\ low >= lowPtr
    BY <2>1, <2>4, LowType
  <2>6. ~wild /\ Len(args) = Len(op.targets)
    BY <1>12 DEF BindParameter, AllEvaluated
  <2>7. CASE CreateFails(v)
    BY <2>6, <2>7, FailedCreationPlaced
  <2>8. CASE ~CreateFails(v)
    <3>1. lowPtr' = low /\ \E s \in Contents(src) :
             \/ StringAssign(v, src, s, low) /\ UNCHANGED <<oom, wild>>
             \/ AssignFails(v, s, low)
      BY <1>12, <2>3, <2>4, <2>8 DEF BindParameter
    <3>2. PICK s \in Contents(src) :
             \/ StringAssign(v, src, s, low) /\ UNCHANGED <<oom, wild>>
             \/ AssignFails(v, s, low)
      BY <3>1
    <3>3. s \in AnyString
      BY ContentsType
    <3> QED
      BY <2>2, <2>5, <2>6, <3>1, <3>2, <3>3, AssignmentPlaced, FailedAssignmentPlaced
  <2> QED
    BY <2>7, <2>8
<1>13. CASE EndProc
  <2>1. Ready /\ UNCHANGED <<lowPtr, highPtr, tempPtr, op, args>>
    BY <1>13 DEF EndProc
  <2>2. ~wild'
    <3>1. \A i \in LocalFrames : FrameFits(stack[i])
      BY LocalFramesFit DEF IInv
    <3> QED
      BY <1>13, <3>1 DEF EndProc
  <2> QED
    BY <2>1, <2>2 DEF Ready, TempsPlaced, Evaluating, OnlyTempsOverrun
<1>14. CASE Structure
  <2>1. UNCHANGED <<lowPtr, highPtr, tempPtr, op, args, wild>>
    BY <1>14 DEF Structure
  <2> QED
    BY <2>1 DEF Ready, TempsPlaced, Evaluating, OnlyTempsOverrun
<1> QED
  BY <1>2, <1>3, <1>4, <1>5, <1>6, <1>7, <1>8, <1>9, <1>10, <1>11, <1>12, <1>13, <1>14 DEF Next

\* In a program that clones no identifier, a string written outside its area is a
\* temp string below low memory: assignments, LOCAL and ENDPROC write none there.
THEOREM OverrunTheorem ==
  ASSUME Clones = {0}, MemStart > 2 * MaxLen + 2 * Gap + 3
  PROVE  Spec => []OnlyTempsOverrun
<1>1. Init => TempsPlaced
  <2> SUFFICES ASSUME Init PROVE TempsPlaced
    OBVIOUS
  <2>1. lowPtr = MemStart /\ highPtr = MemTop /\ tempPtr = 0 /\ ~wild
    BY DEF Init
  <2> QED
    BY <2>1, LayoutAssumption DEF TempsPlaced, OnlyTempsOverrun
<1>2. IInv /\ IInv' /\ TempsPlaced /\ [Next]_vars => TempsPlaced'
  BY OverrunStep
<1>3. TempsPlaced => OnlyTempsOverrun
  BY DEF TempsPlaced
<1> QED
  BY <1>1, <1>2, <1>3, Invariance, PTL DEF Spec

-----------------------------------------------------------------------------
(***************************************************************************)
(* The store of values.  A statement that binds one string keeps its temps *)
(* where the block it may need cannot reach them: above low memory and     *)
(* more than Gap bytes below the heap.                                     *)
(***************************************************************************)
\* The programs for which the memory is a store.  A second parameter may replace
\* the block the first one's value was in; UPPER$ and LOWER$ may write over other
\* temps; a block larger than the gap is taken over the temp it is copied from.
PlainProgram ==
  /\ MaxParams <= 1 /\ ~CaseConv /\ MemStart > 0
  /\ \A s \in Strings : Capacity(s.len) + 2 <= Gap

\* The values of the variables and the stacked values come from expressions.
LiveStrings == \A v \in Vars : storage[v] # 0 => heap[storage[v] - 1].str \in Strings
GenuineFrames == {f \in Frame : f.kind = "local" => f.str \in Strings}

TempsApart ==
  /\ tempPtr >= 0 /\ (tempPtr = 0 => temps = None)
  /\ tempPtr # 0 => tempPtr <= highPtr - Gap
  /\ \A a \in DOMAIN temps :
       temps[a] \in Strings /\ tempPtr <= a /\ a + temps[a].len < highPtr - Gap

OneTarget ==
  /\ op = NoOp => args = <<>> /\ temps = None /\ tempPtr = 0
  /\ op # NoOp => Len(op.targets) = 1 /\ op.done = 0

\* A source still reads as it did when it was evaluated.
Current(src) ==
  /\ src.val \in Strings
  /\ \/ src.at = 0
     \/ src.at \in DOMAIN temps /\ temps[src.at] = src.val
     \/ src.at > highPtr /\ src.at - 1 \in DOMAIN heap /\ heap[src.at - 1].str = src.val
ArgsCurrent == args = <<>> \/ (Len(args) = 1 /\ Current(args[1]))

StoreInv ==
  /\ lowPtr > 0
  /\ wild \/ (/\ LiveStrings /\ stack \in Seq(GenuineFrames)
              /\ TempsApart /\ OneTarget /\ ArgsCurrent)

\* A step of the memory as the store sees it.
Simulates == Store!Next \/ UNCHANGED <<valueBar, stack, op, argsBar>>

LEMMA NoArgs == args = <<>> => argsBar = <<>>
BY DEF argsBar

LEMMA OneArg == \A x : args = <<x>> => argsBar = <<x.val>>
BY DEF argsBar

LEMMA NoArgsNext == args' = <<>> => argsBar' = <<>>
BY DEF argsBar

LEMMA OneArgNext == \A x : args' = <<x>> => argsBar' = <<x.val>>
BY DEF argsBar

LEMMA SameView ==
  ASSUME UNCHANGED <<storage, heap, stack, op, args>>
  PROVE  Simulates
BY DEF Simulates, valueBar, argsBar

LEMMA StatementEnds ==
  ASSUME EndStatement, lowPtr' > 0, LiveStrings', stack' \in Seq(GenuineFrames)
  PROVE  StoreInv'
<1>1. op' = NoOp /\ args' = <<>> /\ tempPtr' = 0 /\ temps' = None
  BY DEF EndStatement
<1>2. DOMAIN None = {}
  BY DEF None
<1> QED
  BY <1>1, <1>2 DEF StoreInv, TempsApart, OneTarget, ArgsCurrent

\* Actions that leave pointers, strings and the statement alone.
LEMMA SameInv ==
  ASSUME StoreInv, ~wild, lowPtr' > 0, NEW s \in Seq(GenuineFrames), stack' = s,
         UNCHANGED <<highPtr, storage, heap, tempPtr, temps, op, args>>
  PROVE  StoreInv'
<1>1. LiveStrings' /\ TempsApart' /\ OneTarget' /\ ArgsCurrent'
  BY DEF StoreInv, LiveStrings, TempsApart, OneTarget, ArgsCurrent, Current
<1> QED
  BY <1>1 DEF StoreInv

\* An error abandons the statement; a parameter may be saved by then.
LEMMA Abandoned ==
  ASSUME EndStatement, op # NoOp, valueBar' = valueBar,
         UNCHANGED stack \/ (/\ op.name = "proc" /\ op.done < Len(op.targets)
                             /\ stack' = Store!Save(op.targets[op.done + 1]))
  PROVE  Simulates
<1>1. op' = NoOp /\ args' = <<>>
  BY DEF EndStatement
<1>2. argsBar' = <<>>
  BY <1>1, NoArgsNext
<1>3. Store!Abandon
  BY <1>1, <1>2 DEF Store!Abandon, Store!NoOp, NoOp
<1> QED
  BY <1>3 DEF Simulates, Store!Next

\* What LOCAL and PROC stack is the value of the variable.
LEMMA Saves ==
  ASSUME IInv, LiveStrings, stack \in Seq(GenuineFrames), NEW v \in Vars
  PROVE  Pushed(v) = Store!Save(v) /\ Pushed(v) \in Seq(GenuineFrames)
<1>1. CASE storage[v] = 0
  BY <1>1 DEF Pushed, Store!Save, valueBar
<1>2. CASE storage[v] # 0
  <2>1. PICK s \in Strings : s = heap[storage[v] - 1].str
    BY <1>2 DEF LiveStrings
  <2>2. s # Unset
    BY StringsAssumption
  <2>3. valueBar[v] = s
    BY <1>2, <2>1 DEF valueBar
  <2>4. PICK f : f = [kind |-> "local", var |-> v, str |-> s]
    OBVIOUS
  <2>5. Pushed(v) = Append(stack, f) /\ Store!Save(v) = Append(stack, f)
    BY <1>2, <2>1, <2>2, <2>3, <2>4 DEF Pushed, Store!Save, Store!Saved
  <2>6. f \in GenuineFrames
    <3>1. s \in AnyString
      BY StringTypes
    <3> QED
      BY <2>4, <3>1 DEF GenuineFrames, Frame
  <2> QED
    BY <2>5, <2>6, AppendType
<1> QED
  BY <1>1, <1>2

-----------------------------------------------------------------------------
(* Assignment gives the target the value that was evaluated for it *)

LEMMA ReadsValue ==
  ASSUME IInv, TempsApart, NEW src \in Source, Current(src), NEW s \in Contents(src)
  PROVE  /\ s = src.val /\ s \in Strings
         /\ src.at \in DOMAIN temps => src.at \in Int /\ src.at + s.len < highPtr - Gap
<1>1. /\ highPtr \in Int /\ Gap \in Int /\ Gap >= 0 /\ MaxLen \in Int /\ src.at \in Int
      /\ DOMAIN temps \subseteq Int
  BY LayoutAssumption DEF IInv, MemOK, MemTypes, OpOK, Source
<1>2. ASSUME NEW a \in DOMAIN temps
      PROVE  a \in Int /\ a < highPtr - Gap /\ a + temps[a].len < highPtr - Gap
  <2>1. temps[a] \in Strings /\ a + temps[a].len < highPtr - Gap /\ a \in Int
    BY <1>1 DEF TempsApart
  <2>2. temps[a] \in AnyString
    BY <2>1, StringTypes
  <2>3. temps[a].len \in 0..MaxLen
    BY <2>2, StringTypes
  <2> QED
    BY <1>1, <2>1, <2>3
<1>3. s = src.val
  <2>1. CASE src.at = 0
    BY <2>1 DEF Contents
  <2>2. CASE src.at # 0 /\ src.at \in DOMAIN temps /\ temps[src.at] = src.val
    BY <2>2 DEF Contents
  <2>3. CASE /\ src.at # 0 /\ src.at > highPtr /\ src.at - 1 \in DOMAIN heap
             /\ heap[src.at - 1].str = src.val
    <3>1. src.at \notin DOMAIN temps
      BY <1>1, <1>2, <2>3
    <3> QED
      BY <2>3, <3>1 DEF Contents
  <2> QED
    BY <2>1, <2>2, <2>3 DEF Current
<1>4. src.at \in DOMAIN temps => src.at # 0 /\ temps[src.at] = s
  <2>1. DOMAIN None = {} /\ tempPtr \in Int
    BY DEF None, IInv, OpOK
  <2>2. src.at \in DOMAIN temps => src.at # 0
    BY <1>1, <2>1 DEF TempsApart
  <2> QED
    BY <1>1, <1>2, <1>3, <2>2 DEF Contents
<1> QED
  BY <1>1, <1>2, <1>3, <1>4 DEF Current

\* The block a string goes to is above the temp it may be copied from, so the
\* copy does not run into its source.
LEMMA CopyKeeps ==
  ASSUME NEW src, NEW s, NEW p \in Int, s.len \in Int, highPtr \in Int, Gap \in Int,
         src.at \in DOMAIN temps => src.at \in Int /\ src.at + s.len < highPtr - Gap,
         highPtr - Gap <= p
  PROVE  Copied(src, s, p) = s /\ \A cap : Reread(src, s, p, cap) = s
BY DEF Copied, Reread, Hit

\* After StringAssign the variable has a block with the value; no other
\* variable's string is touched.
LEMMA AssignsValue ==
  ASSUME PlainProgram, IInv, TempsApart, lowPtr > 0, NEW src \in Source, Current(src),
         NEW v \in Vars, NEW s \in Contents(src), NEW low \in Nat, low >= lowPtr,
         StringAssign(v, src, s, low)
  PROVE  /\ \E lo, hi : Bound(lo, hi)
         /\ storage' = [storage EXCEPT ![v] = storage'[v]] /\ storage'[v] # 0
         /\ heap'[storage'[v] - 1].str = src.val
         /\ \A w \in Vars \ {v} : storage[w] # 0 =>
              heap'[storage[w] - 1].str = heap[storage[w] - 1].str
<1>1. MemOK /\ lowPtr \in Nat /\ highPtr \in Int /\ Gap \in Nat /\ MaxLen \in Nat
  BY LayoutAssumption DEF IInv, MemOK, MemTypes
<1>2. /\ s = src.val /\ s \in Strings
      /\ src.at \in DOMAIN temps => src.at \in Int /\ src.at + s.len < highPtr - Gap
  BY ReadsValue
<1>3. s \in AnyString /\ s.len \in 0..MaxLen
  <2>1. s \in AnyString
    BY <1>2, StringTypes
  <2> QED
    BY <2>1, StringTypes
<1>4. s.len \in Int /\ Capacity(s.len) \in Int /\ Capacity(s.len) + 2 <= Gap
  BY <1>1, <1>2, <1>3, CapacityFacts DEF PlainProgram
<1>5. storage \in [Vars -> Int]
  BY <1>1 DEF MemOK, MemTypes
<1>6. CASE CopyInPlace(v, src, s)
  <2>1. PICK p : p = storage[v]
    OBVIOUS
  <2>2. /\ HasBlock(v) /\ Bound(p, p + s.len)
        /\ heap' = [heap EXCEPT ![p - 1].str = Copied(src, s, p)] /\ storage' = storage
    BY <1>6, <2>1 DEF CopyInPlace, Fits
  <2>3. p # 0 /\ p \in Int /\ p - 1 \in DOMAIN heap /\ highPtr <= p - 1
    BY <1>1, <2>1, <2>2, OwnBlock DEF HasBlock
  <2>4. Copied(src, s, p) = s
    BY <1>1, <1>2, <1>4, <2>3, CopyKeeps
  <2>5. heap[p - 1] \in Block
    BY <1>1, <2>3 DEF MemOK, MemTypes
  <2>6. heap'[p - 1].str = s
    BY <2>2, <2>3, <2>4, <2>5 DEF Block
  <2>7. ASSUME NEW w \in Vars \ {v}, storage[w] # 0
        PROVE  heap'[storage[w] - 1].str = heap[storage[w] - 1].str
    <3>1. storage[w] \in Int /\ storage[w] # storage[v]
      BY <1>1, <1>5, <2>7 DEF MemOK, StorageSound
    <3>2. storage[w] - 1 # p - 1
      BY <2>1, <2>3, <3>1
    <3> QED
      BY <2>2, <3>2
  <2>8. storage' = [storage EXCEPT ![v] = storage'[v]]
    BY <1>5, <2>2
  <2> QED
    BY <1>2, <2>1, <2>2, <2>3, <2>6, <2>7, <2>8
<1>7. CASE CopyToNewBlock(v, src, s, low)
  <2>1. PICK b, cap, r : b = NewBlock(v, s) /\ cap = Capacity(s.len) /\ r = Reread(src, s, b, cap)
    OBVIOUS
  <2>2. /\ ~Fits(v, s) /\ b >= low /\ storage' = [storage EXCEPT ![v] = b + 1]
        /\ heap' = With(Without(heap, Returned(v)), b,
                        [cap |-> cap, str |-> Copied(src, r, b + 1)])
        /\ Bound(b, b + 1 + r.len)
    BY <1>7, <2>1 DEF CopyToNewBlock
  <2>3. /\ b \in Int /\ b < highPtr
        /\ \/ Returned(v) = {} /\ b + cap + 2 = highPtr
           \/ /\ Returned(v) = {highPtr} /\ highPtr \in DOMAIN heap
              /\ storage[v] # 0 /\ storage[v] - 1 = highPtr
              /\ b + cap + 2 = EndOf(highPtr)
    BY <1>1, <1>3, <2>1, <2>2, NewBlockFacts
  <2>4. highPtr - Gap <= b
    <3>1. CASE Returned(v) = {} /\ b + cap + 2 = highPtr
      BY <1>1, <1>4, <2>1, <2>3, <3>1
    <3>2. CASE highPtr \in DOMAIN heap /\ b + cap + 2 = EndOf(highPtr)
      <4>1. heap[highPtr] \in Block
        BY <1>1, <3>2 DEF MemOK, MemTypes
      <4>2. EndOf(highPtr) \in Int /\ EndOf(highPtr) >= highPtr
        BY <1>1, <4>1, BlockType DEF EndOf
      <4> QED
        BY <1>1, <1>4, <2>1, <2>3, <3>2, <4>2
    <3> QED
      BY <2>3, <3>1, <3>2
  <2>5. r = s /\ Copied(src, s, b + 1) = s
    <3>1. PICK p \in Int : p = b + 1 /\ highPtr - Gap <= p
      BY <1>1, <2>3, <2>4
    <3>2. /\ s.len \in Int /\ highPtr \in Int /\ Gap \in Int /\ b \in Int
          /\ src.at \in DOMAIN temps =>
               src.at \in Int /\ src.at + s.len < highPtr - Gap
      BY <1>1, <1>2, <1>4, <2>3
    <3>3. \A c : Reread(src, s, b, c) = s
      BY <2>4, <3>2, CopyKeeps
    <3>4. Copied(src, s, p) = s
      BY <3>1, <3>2, CopyKeeps
    <3> QED
      BY <2>1, <3>1, <3>3, <3>4
  <2>6. b + 1 # 0 /\ (b + 1) - 1 = b
    BY <1>1, <2>2, <2>3
  <2>7. heap'[b].str = s
    BY <2>2, <2>5 DEF With
  <2>8. ASSUME NEW w \in Vars \ {v}, storage[w] # 0
        PROVE  heap'[storage[w] - 1].str = heap[storage[w] - 1].str
    <3>1. /\ storage[w] \in Int /\ storage[w] # storage[v] /\ storage[w] - 1 \in DOMAIN heap
          /\ highPtr <= storage[w] - 1 /\ storage[v] \in Int
      BY <1>1, <1>5, <2>8, OwnBlock DEF MemOK, StorageSound
    <3>2. storage[w] - 1 # b /\ storage[w] - 1 \notin Returned(v)
      BY <1>1, <2>3, <3>1
    <3> QED
      BY <2>2, <3>1, <3>2 DEF With, Without
  <2>9. storage'[v] = b + 1 /\ storage' = [storage EXCEPT ![v] = storage'[v]]
    BY <1>5, <2>2
  <2> QED
    BY <1>2, <2>2, <2>6, <2>7, <2>8, <2>9
<1> QED
  BY <1>6, <1>7 DEF StringAssign

LEMMA Single ==
  ASSUME NEW S, NEW s \in Seq(S), Len(s) = 1
  PROVE  s = <<s[1]>> /\ s[1] \in S
<1>1. s[1] \in S
  OBVIOUS
<1>2. PICK x \in S : x = s[1]
  BY <1>1
<1>3. <<x>> \in Seq(S) /\ Len(<<x>>) = 1
  OBVIOUS
<1>4. DOMAIN s = 1..1 /\ DOMAIN <<x>> = 1..1
  BY <1>3
<1>5. \A i \in 1..1 : s[i] = <<x>>[i]
  BY <1>2
<1>6. s = [i \in 1..1 |-> s[i]] /\ <<x>> = [i \in 1..1 |-> <<x>>[i]]
  BY <1>4
<1>7. s = <<x>>
  BY <1>5, <1>6
<1> QED
  BY <1>1, <1>2, <1>7

\* One target: the statement ends, and the store has changed in one place.
LEMMA AssignsBinding ==
  ASSUME PlainProgram, IInv, StoreInv, ~wild, op # NoOp, Len(args) = Len(op.targets),
         NEW v \in Vars, NEW s \in Contents(args[1]), NEW low \in Nat, low >= lowPtr,
         StringAssign(v, args[1], s, low)
  PROVE  /\ EndStatement /\ LiveStrings' /\ args = <<args[1]>> /\ args[1] \in Source
         /\ Len(op.targets) = 1 /\ op.done = 0
         /\ valueBar' = [valueBar EXCEPT ![v] = args[1].val]
<1>1. /\ LiveStrings /\ TempsApart /\ lowPtr > 0
      /\ Len(op.targets) = 1 /\ op.done = 0 /\ ArgsCurrent
  BY DEF StoreInv, OneTarget
<1>2. args \in Seq(Source) /\ Len(args) = 1
  BY <1>1 DEF IInv, OpOK
<1>3. args = <<args[1]>> /\ args[1] \in Source /\ Current(args[1])
  <2>1. args # <<>>
    BY <1>2
  <2> QED
    BY <1>1, <1>2, <2>1, Single DEF ArgsCurrent
<1>4. PICK src \in Source : src = args[1]
  BY <1>3
<1>5. /\ \E lo, hi : Bound(lo, hi)
      /\ storage' = [storage EXCEPT ![v] = storage'[v]] /\ storage'[v] # 0
      /\ heap'[storage'[v] - 1].str = src.val
      /\ \A w \in Vars \ {v} : storage[w] # 0 =>
              heap'[storage[w] - 1].str = heap[storage[w] - 1].str
  BY <1>1, <1>3, <1>4, AssignsValue
<1>6. EndStatement
  BY <1>1, <1>5 DEF Bound
<1>7. storage \in [Vars -> Int] /\ src.val \in Strings
  BY <1>3, <1>4 DEF IInv, MemOK, MemTypes, Current
<1>8. \A w \in Vars \ {v} : storage'[w] = storage[w]
  BY <1>5, <1>7
<1>9. LiveStrings'
  BY <1>1, <1>5, <1>7, <1>8 DEF LiveStrings
<1>10. valueBar' = [valueBar EXCEPT ![v] = src.val]
  <2>1. valueBar' = [w \in Vars |-> IF storage'[w] = 0 THEN Unset ELSE heap'[storage'[w] - 1].str]
    BY DEF valueBar
  <2>2. ASSUME NEW w \in Vars
        PROVE  (IF storage'[w] = 0 THEN Unset ELSE heap'[storage'[w] - 1].str)
                 = (IF w = v THEN src.val ELSE valueBar[w])
    BY <1>5, <1>8 DEF valueBar
  <2>3. valueBar = [w \in Vars |-> valueBar[w]]
    BY DEF valueBar
  <2> QED
    BY <2>1, <2>2, <2>3
<1> QED
  BY <1>1, <1>3, <1>4, <1>6, <1>9, <1>10

-----------------------------------------------------------------------------
(* Each action of the memory is a step of the store *)

LEMMA BetweenStatements ==
  ASSUME StoreInv, Ready
  PROVE  /\ op = NoOp /\ args = <<>> /\ temps = None /\ tempPtr = 0
         /\ lowPtr > 0 /\ LiveStrings /\ stack \in Seq(GenuineFrames)
BY DEF StoreInv, OneTarget, Ready

LEMMA NoStatementLeft ==
  ASSUME StoreInv, Ready, EndStatement, UNCHANGED <<storage, heap, stack>>
  PROVE  Simulates
<1>1. op' = op /\ args' = args
  BY BetweenStatements DEF EndStatement
<1> QED
  BY <1>1, SameView

LEMMA LetStored ==
  ASSUME IInv, StoreInv, NEW v \in Vars, Let(v)
  PROVE  StoreInv' /\ Simulates
<1>1. MemOK /\ lowPtr \in Nat /\ RecSize \in Nat /\ Clones \subseteq Nat
  BY LayoutAssumption DEF IInv, MemOK, MemTypes
<1>2. /\ Ready /\ op = NoOp /\ args = <<>> /\ temps = None /\ tempPtr = 0
      /\ lowPtr > 0 /\ LiveStrings /\ stack \in Seq(GenuineFrames)
  BY BetweenStatements DEF Let
<1>3. CASE CreateFails(v)
  <2>1. EndStatement /\ lowPtr' = lowPtr + RecSize /\ UNCHANGED <<storage, heap, stack>>
    BY <1>3 DEF CreateFails, OutOfMemoryError
  <2>2. lowPtr' > 0
    BY <1>1, <1>2, <2>1
  <2>3. LiveStrings'
    BY <1>2, <2>1 DEF LiveStrings
  <2> QED
    BY <1>2, <2>1, <2>2, <2>3, NoStatementLeft, StatementEnds
<1>4. ASSUME NEW c \in Clones, lowPtr' = LowWith(v, c), StartOp("let", <<v>>),
             UNCHANGED <<highPtr, storage, heap, tempPtr, temps, stack, args>>
      PROVE  StoreInv' /\ Simulates
  <2>1. lowPtr' >= lowPtr
    BY <1>1, <1>4, LowType
  <2>2. lowPtr' > 0 /\ LiveStrings' /\ stack' \in Seq(GenuineFrames)
    <3>1. lowPtr' \in Int
      BY <1>1, <1>4 DEF LowWith
    <3> QED
      BY <1>1, <1>2, <1>4, <2>1, <3>1 DEF LiveStrings
  <2>3. op' # NoOp /\ Len(op'.targets) = 1 /\ op'.done = 0 /\ args' = <<>>
    BY <1>2, <1>4 DEF StartOp, NoOp
  <2>4. TempsApart' /\ OneTarget' /\ ArgsCurrent'
    <3>1. temps' = None /\ tempPtr' = 0 /\ DOMAIN None = {}
      BY <1>2, <1>4 DEF None
    <3> QED
      BY <2>3, <3>1 DEF TempsApart, OneTarget, ArgsCurrent
  <2>5. valueBar' = valueBar /\ argsBar' = <<>>
    BY <1>4, <2>3, NoArgsNext DEF valueBar
  <2>6. Store!BeginLet(v)
    BY <1>2, <1>4, <2>5 DEF Store!BeginLet, Store!NoOp, NoOp, StartOp
  <2> QED
    BY <2>2, <2>4, <2>6 DEF StoreInv, Simulates, Store!Next
<1> QED
  BY <1>3, <1>4 DEF Let

LEMMA LocalStored ==
  ASSUME IInv, StoreInv, NEW v \in Vars, Local(v)
  PROVE  StoreInv' /\ Simulates
<1>1. MemOK /\ lowPtr \in Nat /\ RecSize \in Nat /\ Clones \subseteq Nat
  BY LayoutAssumption DEF IInv, MemOK, MemTypes
<1>2. /\ Ready /\ op = NoOp /\ args = <<>> /\ temps = None /\ tempPtr = 0
      /\ lowPtr > 0 /\ LiveStrings /\ stack \in Seq(GenuineFrames)
  BY BetweenStatements DEF Local
<1>3. CASE CreateFails(v)
  <2>1. EndStatement /\ lowPtr' = lowPtr + RecSize /\ UNCHANGED <<storage, heap, stack>>
    BY <1>3 DEF CreateFails, OutOfMemoryError
  <2>2. lowPtr' > 0
    BY <1>1, <1>2, <2>1
  <2>3. LiveStrings'
    BY <1>2, <2>1 DEF LiveStrings
  <2> QED
    BY <1>2, <2>1, <2>2, <2>3, NoStatementLeft, StatementEnds
<1>4. ASSUME NEW c \in Clones, lowPtr' = LowWith(v, c), stack' = Pushed(v),
             UNCHANGED <<highPtr, storage, heap, tempPtr, temps, op, args>>
      PROVE  StoreInv' /\ Simulates
  <2>1. lowPtr' >= lowPtr /\ lowPtr' \in Int
    BY <1>1, <1>4, LowType DEF LowWith
  <2>2. Pushed(v) = Store!Save(v) /\ Pushed(v) \in Seq(GenuineFrames)
    BY <1>2, Saves
  <2>3. lowPtr' > 0 /\ ~wild
    BY <1>1, <1>2, <2>1 DEF Ready
  <2>4. StoreInv'
    BY <1>4, <2>2, <2>3, SameInv
  <2>5. Store!Local(v)
    BY <1>2, <1>4, <2>2 DEF Store!Local, Store!NoOp, NoOp, valueBar, argsBar
  <2> QED
    BY <2>4, <2>5 DEF Simulates, Store!Next
<1> QED
  BY <1>3, <1>4 DEF Local

LEMMA ProcStored ==
  ASSUME PlainProgram, StoreInv, NEW ps \in ParamLists, Proc(ps)
  PROVE  StoreInv' /\ Simulates
<1>1. /\ Ready /\ ~wild /\ op = NoOp /\ args = <<>> /\ temps = None /\ tempPtr = 0
      /\ lowPtr > 0 /\ LiveStrings /\ stack \in Seq(GenuineFrames)
  BY BetweenStatements DEF Proc, Ready
<1>2. /\ stack' = Append(stack, Marker) /\ StartOp("proc", ps)
      /\ UNCHANGED <<lowPtr, highPtr, storage, heap, tempPtr, temps, args>>
  BY DEF Proc
<1>3. Len(ps) = 1
  <2>1. PICK n \in 1..MaxParams : ps \in [1..n -> Vars]
    BY DEF ParamLists
  <2>2. n = 1
    BY <2>1, LayoutAssumption DEF PlainProgram
  <2> QED
    BY <2>1, <2>2
<1>4. Marker \in GenuineFrames
  BY DEF Marker, GenuineFrames, Frame
<1>5. stack' \in Seq(GenuineFrames)
  BY <1>1, <1>2, <1>4, AppendType
<1>6. op' # NoOp /\ Len(op'.targets) = 1 /\ op'.done = 0 /\ args' = <<>>
  BY <1>1, <1>2, <1>3 DEF StartOp, NoOp
<1>7. TempsApart' /\ OneTarget' /\ ArgsCurrent' /\ LiveStrings'
  <2>1. temps' = None /\ tempPtr' = 0 /\ DOMAIN None = {}
    BY <1>1, <1>2 DEF None
  <2> QED
    BY <1>1, <1>2, <1>6, <2>1 DEF TempsApart, OneTarget, ArgsCurrent, LiveStrings
<1>8. valueBar' = valueBar /\ argsBar' = <<>>
  BY <1>2, <1>6, NoArgsNext DEF valueBar
<1>9. Store!BeginProc(ps)
  BY <1>1, <1>2, <1>8 DEF Store!BeginProc, Store!NoOp, NoOp, Store!Marker, Marker, StartOp
<1>10. ps \in Store!ParamLists
  BY DEF Store!ParamLists, ParamLists
<1> QED
  BY <1>1, <1>2, <1>5, <1>7, <1>9, <1>10 DEF StoreInv, Simulates, Store!Next

LEMMA DimStored ==
  ASSUME IInv, StoreInv, NEW n \in DimSizes, Dim(n)
  PROVE  StoreInv' /\ Simulates
<1>1. /\ ~wild /\ lowPtr' = lowPtr + n
      /\ UNCHANGED <<highPtr, storage, heap, tempPtr, temps, stack, op, args>>
  BY DEF Dim, Ready
<1>2. lowPtr \in Nat /\ n \in Nat
  BY LayoutAssumption DEF IInv, MemOK, MemTypes
<1>3. lowPtr' > 0 /\ stack \in Seq(GenuineFrames)
  BY <1>1, <1>2 DEF StoreInv
<1> QED
  BY <1>1, <1>3, SameInv, SameView

LEMMA ClearStored ==
  ASSUME PlainProgram, StoreInv, Clear
  PROVE  StoreInv' /\ Simulates
<1>1. /\ Ready /\ EndStatement /\ lowPtr' = MemStart /\ stack' = <<>>
      /\ storage' = [v \in Vars |-> 0] /\ op = NoOp /\ args = <<>>
  BY BetweenStatements DEF Clear
<1>2. LiveStrings' /\ lowPtr' > 0 /\ stack' \in Seq(GenuineFrames)
  BY <1>1, EmptyType DEF LiveStrings, PlainProgram
<1>3. StoreInv'
  BY <1>1, <1>2, StatementEnds
<1>4. op' = NoOp /\ args' = <<>>
  BY <1>1 DEF EndStatement
<1>5. argsBar = <<>> /\ argsBar' = <<>>
  BY <1>1, <1>4, NoArgs, NoArgsNext
<1>6. valueBar' = [v \in Vars |-> Unset]
  BY <1>1 DEF valueBar
<1>7. Store!Clear
  BY <1>1, <1>4, <1>5, <1>6 DEF Store!Clear, Store!NoOp, NoOp
<1> QED
  BY <1>3, <1>7 DEF Simulates, Store!Next

\* A new temp lies right below the others: it hits none of them.
LEMMA TempStored ==
  ASSUME PlainProgram, IInv, StoreInv, NEW s \in Strings, Temp(s)
  PROVE  StoreInv' /\ Simulates
<1>1. PICK a : a = TempAddress(s.len)
  OBVIOUS
<1>2. PICK t \in Scribbled(temps, a, a + s.len) : temps' = With(t, a, s)
  BY <1>1 DEF Temp, NewTemp
<1>3. /\ Evaluating /\ tempPtr' = a /\ wild' = (a < lowPtr)
      /\ UNCHANGED <<lowPtr, highPtr, created, storage, heap, stack, op, args, oom>>
  BY <1>1 DEF Temp, NewTemp
<1>4. /\ lowPtr > 0 /\ LiveStrings /\ stack \in Seq(GenuineFrames)
      /\ TempsApart /\ OneTarget /\ ArgsCurrent /\ op # NoOp
  BY <1>3 DEF StoreInv, Evaluating
<1>5. Simulates
  BY <1>3, SameView
<1>6. CASE wild'
  BY <1>3, <1>4, <1>5, <1>6 DEF StoreInv
<1>7. CASE ~wild'
  <2>1. /\ highPtr \in Int /\ lowPtr \in Nat /\ tempPtr \in Int /\ Gap \in Nat
        /\ DOMAIN temps \subseteq Int
    BY LayoutAssumption DEF IInv, MemOK, MemTypes, OpOK
  <2>2. s.len \in Nat
    <3>1. s \in AnyString
      BY StringTypes
    <3>2. s.len \in 0..MaxLen
      BY <3>1, StringTypes
    <3> QED
      BY <3>2
  <2>3. a = (IF tempPtr = 0 THEN highPtr - Gap ELSE tempPtr) - s.len - 1
    BY <1>1 DEF TempAddress
  <2>4. a \in Int /\ a > 0 /\ a <= highPtr - Gap /\ a + s.len < highPtr - Gap
    <3>1. a \in Int
      BY <2>1, <2>2, <2>3
    <3>2. ~(a < lowPtr)
      BY <1>3, <1>7
    <3>3. tempPtr # 0 => tempPtr <= highPtr - Gap
      BY <1>4 DEF TempsApart
    <3> QED
      BY <1>4, <2>1, <2>2, <2>3, <3>1, <3>2, <3>3
  <2>5. ASSUME NEW b \in DOMAIN temps
        PROVE  /\ a <= b /\ b + temps[b].len < highPtr - Gap /\ temps[b] \in Strings
               /\ ~Hit(b, temps[b], a, a + s.len)
    <3>1. temps # None
      BY <2>5 DEF None
    <3>2. tempPtr <= b /\ tempPtr # 0 /\ b \in Int
      BY <1>4, <2>1, <3>1 DEF TempsApart
    <3>3. a + s.len < b
      BY <2>1, <2>2, <2>3, <3>2
    <3> QED
      BY <1>4, <2>2, <2>4, <3>2, <3>3 DEF TempsApart, Hit
  <2>6. t = temps
    <3>1. t = [b \in DOMAIN temps |-> temps[b]]
      BY <1>2, <2>5 DEF Scribbled
    <3>2. temps = [b \in DOMAIN temps |-> temps[b]]
      BY DEF IInv, OpOK
    <3> QED
      BY <3>1, <3>2
  <2>7. /\ DOMAIN temps' = DOMAIN temps \cup {a} /\ temps'[a] = s
        /\ \A b \in DOMAIN temps \ {a} : temps'[b] = temps[b]
    BY <1>2, <2>6 DEF With
  <2>8. TempsApart'
    <3>1. \A b \in DOMAIN temps' : /\ temps'[b] \in Strings /\ a <= b
                                   /\ b + temps'[b].len < highPtr - Gap
      BY <2>4, <2>5, <2>7
    <3> QED
      BY <1>3, <2>4, <3>1 DEF TempsApart
  <2>9. args = <<>>
    <3>1. Len(args) < 1 /\ args \in Seq(Source)
      BY <1>3, <1>4 DEF IInv, OpOK, OneTarget, Evaluating
    <3> QED
      BY <3>1
  <2>10. OneTarget' /\ ArgsCurrent' /\ LiveStrings'
    BY <1>3, <1>4, <2>9 DEF OneTarget, ArgsCurrent, LiveStrings
  <2> QED
    BY <1>3, <1>4, <1>5, <2>8, <2>10 DEF StoreInv
<1> QED
  BY <1>6, <1>7

LEMMA ArgumentStored ==
  ASSUME IInv, StoreInv, NEW src \in Sources, Argument(src)
  PROVE  StoreInv' /\ Simulates
<1>1. /\ ~wild /\ Len(args) < Len(op.targets) /\ op # NoOp /\ args' = Append(args, src)
      /\ UNCHANGED <<lowPtr, highPtr, created, storage, heap, tempPtr, temps,
                     stack, op, oom, wild>>
  BY DEF Argument, Evaluating
<1>2. /\ lowPtr > 0 /\ LiveStrings /\ stack \in Seq(GenuineFrames)
      /\ TempsApart /\ OneTarget /\ Len(op.targets) = 1
  BY <1>1 DEF StoreInv, OneTarget
<1>3. args = <<>>
  <2>1. Len(args) < 1 /\ args \in Seq(Source)
    BY <1>1, <1>2 DEF IInv, OpOK
  <2> QED
    BY <2>1
<1>4. args' = <<src>>
  BY <1>1, <1>3
<1>5. Current(src)
  <2>1. CASE \E s \in Strings : src = Literal(s)
    BY <2>1 DEF Literal, Current
  <2>2. ASSUME NEW v \in created, src = VariableRef(v) PROVE Current(src)
    <3>1. MemOK /\ v \in Vars /\ highPtr \in Int
      BY DEF IInv, MemOK, MemTypes
    <3>2. CASE storage[v] = 0
      BY <2>2, <3>2, StringsAssumption DEF VariableRef, Literal, Current
    <3>3. CASE storage[v] # 0
      <4>1. /\ storage[v] \in Int /\ storage[v] - 1 \in DOMAIN heap /\ highPtr < storage[v]
            /\ heap[storage[v] - 1].str \in Strings
        BY <1>2, <3>1, <3>3, OwnBlock DEF LiveStrings
      <4> QED
        BY <2>2, <3>3, <4>1 DEF VariableRef, Current
    <3> QED
      BY <3>2, <3>3
  <2>3. ASSUME NEW a \in DOMAIN temps, src = TempRef(a) PROVE Current(src)
    BY <1>2, <2>3 DEF TempRef, Current, TempsApart
  <2> QED
    BY <2>1, <2>2, <2>3 DEF Sources
<1>6. Current(src)'
  BY <1>1, <1>5 DEF Current
<1>7. ArgsCurrent'
  BY <1>4, <1>6 DEF ArgsCurrent, Current
<1>8. LiveStrings' /\ TempsApart' /\ OneTarget'
  BY <1>1, <1>2 DEF LiveStrings, TempsApart, OneTarget
<1>9. argsBar = <<>> /\ argsBar' = <<src.val>>
  BY <1>3, <1>4, NoArgs, OneArgNext
<1>10. Store!Evaluate(src.val)
  <2>1. Len(argsBar) < Len(op.targets) /\ argsBar' = Append(argsBar, src.val)
    BY <1>2, <1>9
  <2> QED
    BY <1>1, <2>1 DEF Store!Evaluate, valueBar
<1>11. src.val \in Strings
  BY <1>5 DEF Current
<1> QED
  BY <1>1, <1>2, <1>7, <1>8, <1>10, <1>11 DEF StoreInv, Simulates, Store!Next

LEMMA AbortStored ==
  ASSUME StoreInv, Abort
  PROVE  StoreInv' /\ Simulates
<1>1. /\ op # NoOp /\ ~wild /\ EndStatement /\ UNCHANGED <<lowPtr, storage, heap, stack>>
  BY DEF Abort
<1>2. lowPtr' > 0 /\ LiveStrings' /\ stack' \in Seq(GenuineFrames)
  BY <1>1 DEF StoreInv, LiveStrings
<1> QED
  BY <1>1, <1>2, StatementEnds, Abandoned DEF valueBar

LEMMA AssignLetStored ==
  ASSUME PlainProgram, IInv, StoreInv, AssignLet
  PROVE  StoreInv' /\ Simulates
<1>1. /\ ~wild /\ op.name = "let" /\ Len(args) = Len(op.targets)
      /\ lowPtr \in Nat /\ lowPtr >= lowPtr /\ lowPtr > 0 /\ OpOK /\ LiveStrings
      /\ stack \in Seq(GenuineFrames)
  BY DEF AssignLet, AllEvaluated, IInv, MemOK, MemTypes, StoreInv
<1>2. op # NoOp /\ op.targets[1] \in Vars
  BY <1>1, TargetType DEF AssignLet
<1>3. PICK v \in Vars : v = op.targets[1]
  BY <1>2
<1>4. PICK s \in Contents(args[1]) :
        \/ StringAssign(v, args[1], s, lowPtr) /\ UNCHANGED <<lowPtr, stack>>
        \/ AssignFails(v, s, lowPtr) /\ UNCHANGED <<lowPtr, stack>>
  BY <1>3 DEF AssignLet
<1>5. CASE StringAssign(v, args[1], s, lowPtr) /\ UNCHANGED <<lowPtr, stack>>
  <2>1. /\ EndStatement /\ LiveStrings' /\ args = <<args[1]>>
        /\ Len(op.targets) = 1 /\ op.done = 0
        /\ valueBar' = [valueBar EXCEPT ![v] = args[1].val]
    BY <1>1, <1>2, <1>5, AssignsBinding
  <2>2. StoreInv'
    BY <1>1, <1>5, <2>1, StatementEnds
  <2>3. PICK x : x = args[1] /\ args = <<x>>
    BY <2>1
  <2>4. argsBar = <<x.val>> /\ argsBar' = <<>> /\ op' = NoOp
    BY <2>1, <2>3, OneArg, NoArgsNext DEF EndStatement
  <2>5. Store!Bind
    BY <1>1, <1>3, <1>5, <2>1, <2>3, <2>4 DEF Store!Bind, Store!Store, Store!NoOp, NoOp
  <2> QED
    BY <2>2, <2>5 DEF Simulates, Store!Next
<1>6. CASE AssignFails(v, s, lowPtr) /\ UNCHANGED <<lowPtr, stack>>
  <2>1. EndStatement /\ UNCHANGED <<storage, heap>>
    BY <1>6 DEF AssignFails, OutOfMemoryError
  <2>2. LiveStrings'
    BY <1>1, <2>1 DEF LiveStrings
  <2> QED
    BY <1>1, <1>2, <1>6, <2>1, <2>2, StatementEnds, Abandoned DEF valueBar
<1> QED
  BY <1>4, <1>5, <1>6

LEMMA BindParameterStored ==
  ASSUME PlainProgram, IInv, StoreInv, BindParameter
  PROVE  StoreInv' /\ Simulates
<1>1. /\ ~wild /\ op.name = "proc" /\ Len(args) = Len(op.targets)
      /\ lowPtr \in Nat /\ RecSize \in Nat /\ lowPtr > 0 /\ MemOK /\ OpOK
      /\ LiveStrings /\ stack \in Seq(GenuineFrames)
  BY LayoutAssumption DEF BindParameter, AllEvaluated, IInv, MemOK, MemTypes, StoreInv
<1>2. op # NoOp /\ op.targets[op.done + 1] \in Vars
  BY <1>1, TargetType DEF BindParameter
<1>3. op.done = 0 /\ Len(op.targets) = 1
  BY <1>1, <1>2 DEF StoreInv, OneTarget
<1>4. PICK v \in Vars : v = op.targets[1]
  BY <1>2, <1>3
<1>5. PICK low : low = LowWith(v, 0)
  OBVIOUS
<1>6. low \in Nat /\ low >= lowPtr
  BY <1>1, <1>5, LowType
<1>7. CASE CreateFails(v)
  <2>1. EndStatement /\ lowPtr' = lowPtr + RecSize /\ UNCHANGED <<storage, heap, stack>>
    BY <1>7 DEF CreateFails, OutOfMemoryError
  <2>2. LiveStrings' /\ lowPtr' > 0
    BY <1>1, <2>1 DEF LiveStrings
  <2> QED
    BY <1>1, <1>2, <2>1, <2>2, StatementEnds, Abandoned DEF valueBar
<1>8. CASE ~CreateFails(v)
  <2>1. /\ lowPtr' = low /\ stack' = Pushed(v)
        /\ \E s \in Contents(args[1]) :
             StringAssign(v, args[1], s, low) \/ AssignFails(v, s, low)
    <3>1. op.done + 1 = 1
      BY <1>3
    <3> QED
      BY <1>4, <1>5, <1>8, <3>1 DEF BindParameter
  <2>2. lowPtr' > 0 /\ Pushed(v) = Store!Save(v) /\ stack' \in Seq(GenuineFrames)
    BY <1>1, <1>6, <2>1, Saves
  <2>3. PICK s \in Contents(args[1]) :
          StringAssign(v, args[1], s, low) \/ AssignFails(v, s, low)
    BY <2>1
  <2>4. CASE StringAssign(v, args[1], s, low)
    <3>1. /\ EndStatement /\ LiveStrings' /\ args = <<args[1]>>
          /\ valueBar' = [valueBar EXCEPT ![v] = args[1].val]
      BY <1>1, <1>2, <1>6, <2>4, AssignsBinding
    <3>2. PICK x : x = args[1] /\ args = <<x>>
      BY <3>1
    <3>3. argsBar = <<x.val>> /\ argsBar' = <<>> /\ op' = NoOp
      BY <3>1, <3>2, OneArg, NoArgsNext DEF EndStatement
    <3>4. Store!Bind
      BY <1>1, <1>3, <1>4, <2>1, <2>2, <3>1, <3>2, <3>3
         DEF Store!Bind, Store!Store, Store!NoOp, NoOp
    <3> QED
      BY <2>2, <3>1, <3>4, StatementEnds DEF Simulates, Store!Next
  <2>5. CASE AssignFails(v, s, low)
    <3>1. EndStatement /\ UNCHANGED <<storage, heap>>
      BY <2>5 DEF AssignFails, OutOfMemoryError
    <3>2. LiveStrings' /\ valueBar' = valueBar
      BY <1>1, <3>1 DEF LiveStrings, valueBar
    <3>3. /\ op.done < Len(op.targets)
          /\ stack' = Store!Save(op.targets[op.done + 1])
      <4>1. op.done + 1 = 1
        BY <1>3
      <4> QED
        BY <1>3, <1>4, <2>1, <2>2, <4>1
    <3>4. Simulates
      BY <1>1, <1>2, <3>1, <3>2, <3>3, Abandoned
    <3> QED
      BY <2>2, <3>1, <3>2, <3>4, StatementEnds
  <2> QED
    BY <2>3, <2>4, <2>5
<1> QED
  BY <1>7, <1>8

LEMMA StructureStored ==
  ASSUME StoreInv, Structure
  PROVE  StoreInv' /\ Simulates
<1>1. /\ ~wild /\ op = NoOp /\ stack \in Seq(GenuineFrames) /\ lowPtr > 0
  BY BetweenStatements DEF Structure, Ready
<1>2. UNCHANGED <<lowPtr, highPtr, storage, heap, tempPtr, temps, op, args>>
  BY DEF Structure
<1>3. Loop \in GenuineFrames
  BY DEF Loop, GenuineFrames, Frame
<1>4. Append(stack, Loop) \in Seq(GenuineFrames)
  BY <1>1, <1>3, AppendType
<1>5. stack # <<>> => Front(stack) \in Seq(GenuineFrames)
  BY <1>1 DEF Front
<1>6. StoreInv'
  <2>1. lowPtr' > 0 /\ stack' \in Seq(GenuineFrames)
    BY <1>1, <1>2, <1>4, <1>5 DEF Structure
  <2> QED
    BY <1>1, <1>2, <2>1, SameInv
<1>7. valueBar' = valueBar /\ argsBar' = argsBar
  BY <1>2 DEF valueBar, argsBar
<1>8. \/ stack' = Append(stack, Loop)
      \/ stack # <<>> /\ Last(stack) = Loop /\ stack' = Front(stack)
  BY DEF Structure
<1>9. Store!Structure
  BY <1>1, <1>2, <1>7, <1>8
     DEF Store!Structure, Store!NoOp, NoOp, Store!Loop, Loop, Store!Last, Last, Store!Front, Front
<1> QED
  BY <1>6, <1>9 DEF Simulates, Store!Next

\* The frames that are for a variable are the ones whose variable has its block.
LEMMA RestoresValues ==
  ASSUME IInv, EndProc
  PROVE  valueBar' = [v \in Vars |-> Store!Restored(v)]
<1>1. MemOK /\ stack \in Seq(FittingFrames)
  BY DEF IInv
<1>2. storage \in [Vars -> Int] /\ storage' = storage
  BY <1>1 DEF EndProc, MemOK, MemTypes
<1>3. LocalFrames = (Store!LastOther + 1)..Len(stack)
  BY DEF LocalFrames, LastOther, Store!LastOther, SelectLastInSeq, Store!SelectLastInSeq,
         Max, Store!Max
<1>4. ASSUME NEW i \in LocalFrames
      PROVE  stack[i].var \in Vars /\ storage[stack[i].var] # 0
  <2>1. FrameFits(stack[i]) /\ i \in 1..Len(stack) /\ stack[i].kind = "local"
    <3>1. /\ LastOther \in 0..Len(stack)
          /\ \A j \in (LastOther + 1)..Len(stack) : stack[j].kind = "local"
      <4>1. LastOther = SelectLastInSeq(stack, LAMBDA f : f.kind # "local")
        BY DEF LastOther
      <4> QED
        BY <1>1, <4>1, LastOtherFacts
    <3> QED
      BY <1>1, <3>1, LocalFramesFit DEF LocalFrames
  <2>2. stack[i] \in FittingFrames
    BY <1>1, <2>1, ElementType
  <2> QED
    BY <2>1, <2>2 DEF FittingFrames, Frame, FrameFits
<1> DEFINE Mine(v) == {i \in LocalFrames : stack[i].var = v}
           Own(a) == {i \in LocalFrames : storage[stack[i].var] = a + 1}
<1>5. ASSUME NEW v \in Vars, storage[v] # 0
      PROVE  /\ storage[v] - 1 \in DOMAIN heap /\ heap[storage[v] - 1] \in Block
             /\ Own(storage[v] - 1) = Mine(v)
  <2>1. storage[v] \in Int /\ (storage[v] - 1) + 1 = storage[v]
    BY <1>2
  <2>2. \A i \in LocalFrames : storage[stack[i].var] = storage[v] <=> stack[i].var = v
    BY <1>1, <1>4, <1>5 DEF MemOK, StorageSound
  <2>3. Own(storage[v] - 1) = Mine(v)
    BY <2>1, <2>2
  <2> QED
    BY <1>1, <1>5, <2>3, OwnBlock
<1>6. ASSUME NEW v \in Vars
      PROVE  valueBar'[v] = Store!Restored(v)
  <2>1. Store!Restored(v) = IF Mine(v) = {} THEN valueBar[v]
                            ELSE stack[RestoredFrom(Mine(v))].str
    BY <1>3 DEF Store!Restored, RestoredFrom
  <2>2. CASE storage[v] = 0
    <3>1. Mine(v) = {}
      BY <1>4, <2>2
    <3> QED
      BY <1>2, <2>1, <2>2, <3>1 DEF valueBar
  <2>3. CASE storage[v] # 0
    <3>1. PICK a : a = storage[v] - 1
      OBVIOUS
    <3>2. a \in DOMAIN heap /\ heap[a] \in Block /\ Own(a) = Mine(v)
      BY <1>5, <2>3, <3>1
    <3>3. heap'[a] = IF Own(a) = {} THEN heap[a]
                     ELSE [heap[a] EXCEPT !.str = stack[RestoredFrom(Own(a))].str]
      BY <3>2 DEF EndProc
    <3> HIDE DEF Own, Mine
    <3>4. heap'[a].str = IF Mine(v) = {} THEN heap[a].str
                         ELSE stack[RestoredFrom(Mine(v))].str
      BY <3>2, <3>3 DEF Block
    <3>5. valueBar[v] = heap[a].str /\ valueBar'[v] = heap'[a].str
      BY <1>2, <2>3, <3>1 DEF valueBar
    <3> QED
      BY <2>1, <3>4, <3>5
  <2> QED
    BY <2>2, <2>3
<1>7. valueBar' = [v \in Vars |-> valueBar'[v]]
  BY DEF valueBar
<1> QED
  BY <1>6, <1>7

LEMMA EndProcStored ==
  ASSUME IInv, StoreInv, EndProc
  PROVE  StoreInv' /\ Simulates
<1>1. /\ ~wild /\ op = NoOp /\ stack \in Seq(GenuineFrames) /\ lowPtr > 0
      /\ LiveStrings /\ TempsApart /\ OneTarget /\ args = <<>>
  BY BetweenStatements DEF EndProc, Ready, StoreInv
<1>2. UNCHANGED <<lowPtr, highPtr, created, storage, tempPtr, temps, op, args>>
  BY DEF EndProc
<1>3. LastOther \in 0..Len(stack) /\ Len(stack) \in Nat
  BY LocalFramesFit DEF IInv
<1>4. valueBar' = [v \in Vars |-> Store!Restored(v)]
  BY RestoresValues
<1>5. LastOther = Store!LastOther
  BY DEF LastOther, Store!LastOther, SelectLastInSeq, Store!SelectLastInSeq, Max, Store!Max
<1>6. stack' \in Seq(GenuineFrames)
  <2>1. PICK n \in 0..Len(stack) : AfterEndProc = SubSeq(stack, 1, n)
    BY <1>3 DEF AfterEndProc
  <2> QED
    BY <1>1, <2>1, SubSeqType DEF EndProc
<1>7. LiveStrings'
  <2>1. ASSUME NEW v \in Vars, storage'[v] # 0
        PROVE  heap'[storage'[v] - 1].str \in Strings
    <3> DEFINE own == {i \in LocalFrames : storage[stack[i].var] = (storage[v] - 1) + 1}
    <3>1. MemOK /\ storage[v] # 0
      BY <1>2, <2>1 DEF IInv
    <3>2. storage[v] - 1 \in DOMAIN heap /\ heap[storage[v] - 1] \in Block
      BY <3>1, OwnBlock
    <3>3. heap'[storage[v] - 1] = IF own = {} THEN heap[storage[v] - 1]
             ELSE [heap[storage[v] - 1] EXCEPT !.str = stack[RestoredFrom(own)].str]
      BY <3>2 DEF EndProc
    <3>4. CASE own = {}
      BY <1>1, <1>2, <3>1, <3>3, <3>4 DEF LiveStrings
    <3>5. CASE own # {}
      <4>1. own \in SUBSET LocalFrames
        OBVIOUS
      <4> HIDE DEF own
      <4>2. PICK i \in LocalFrames : i = RestoredFrom(own)
        BY <3>5, <4>1, OldestOwn DEF IInv
      <4>3. i \in 1..Len(stack) /\ stack[i].kind = "local"
        <5>1. LastOther = SelectLastInSeq(stack, LAMBDA f : f.kind # "local")
          BY DEF LastOther
        <5> QED
          BY <1>1, <1>3, <4>2, <5>1, LastOtherFacts DEF LocalFrames
      <4>4. stack[i].str \in Strings
        BY <1>1, <4>3, ElementType DEF GenuineFrames
      <4> QED
        BY <1>2, <3>2, <3>3, <3>5, <4>2, <4>4 DEF Block
    <3> QED
      BY <3>4, <3>5
  <2> QED
    BY <2>1 DEF LiveStrings
<1>8. StoreInv'
  BY <1>1, <1>2, <1>6, <1>7 DEF StoreInv, TempsApart, OneTarget, ArgsCurrent
<1>9. argsBar' = argsBar
  BY <1>2 DEF argsBar
<1>10. Store!Return
  BY <1>1, <1>2, <1>4, <1>5, <1>9
     DEF Store!Return, Store!NoOp, NoOp, EndProc, AfterEndProc
<1> QED
  BY <1>8, <1>10 DEF Simulates, Store!Next

LEMMA StoreStep ==
  ASSUME PlainProgram, IInv, StoreInv, [Next]_vars
  PROVE  StoreInv' /\ Simulates
<1>1. CASE UNCHANGED vars
  <2>1. UNCHANGED <<lowPtr, highPtr, storage, heap, tempPtr, temps, stack, op, args, wild>>
    BY <1>1 DEF vars
  <2>2. StoreInv'
    BY <2>1 DEF StoreInv, LiveStrings, TempsApart, OneTarget, ArgsCurrent, Current
  <2> QED
    BY <2>1, <2>2, SameView
<1>2. ASSUME NEW src, CaseChange(src) PROVE FALSE
  BY <1>2 DEF CaseChange, PlainProgram
<1> QED
  BY <1>1, <1>2, LetStored, LocalStored, ProcStored, DimStored, ClearStored, TempStored,
     ArgumentStored, AbortStored, AssignLetStored, BindParameterStored, EndProcStored,
     StructureStored DEF Next

\* In a plain program every step of the string memory, the ones that fail with an
\* out of memory error included, does to the variables, the stacked values and the
\* values evaluated so far what a step of the store does, or nothing.
THEOREM StoreImplemented ==
  ASSUME PlainProgram
  PROVE  Spec => ImplementsStore
<1>1. Init => StoreInv /\ Store!Init
  <2> SUFFICES ASSUME Init PROVE StoreInv /\ Store!Init
    OBVIOUS
  <2>1. /\ lowPtr = MemStart /\ storage = [v \in Vars |-> 0] /\ stack = <<>>
        /\ op = NoOp /\ args = <<>> /\ temps = None /\ tempPtr = 0 /\ DOMAIN None = {}
    BY DEF Init, None
  <2>2. StoreInv
    BY <2>1, EmptyType
       DEF StoreInv, LiveStrings, TempsApart, OneTarget, ArgsCurrent, PlainProgram
  <2>3. Store!Init
    BY <2>1, NoArgs DEF Store!Init, Store!NoOp, NoOp, valueBar
  <2> QED
    BY <2>2, <2>3
<1>2. IInv /\ StoreInv /\ [Next]_vars => StoreInv' /\ [Store!Next]_(Store!storeVars)
  BY StoreStep DEF Simulates, Store!storeVars
<1> QED
  BY <1>1, <1>2, Invariance, PTL DEF Spec, Store!Spec, ImplementsStore
=============================================================================
