------------------------- MODULE LineEditorProofs -------------------------
(***************************************************************************)
(* Proofs about the line editor, for any memory size, numbers and bodies.  *)
(*                                                                         *)
(* A program is described by p: the addresses of its lines, its end, and   *)
(* the number and the body of each line; Holds(m, p) says that the memory  *)
(* m contains it.  The functions that read the memory (FindCodeEnd,        *)
(* LinesOf, TokensAt) then find p, which is shown from the highest address *)
(* down (Descent).  Without and With are p without a line and with one     *)
(* more; WithoutHolds and WithHolds say what a complete move of memory has *)
(* done, and the invariant Inv follows each move word by word.             *)
(*                                                                         *)
(* The second part is about the token buffer the lines come from           *)
(* (Tokeniser): it is never overrun.                                       *)
(*                                                                         *)
(* The third part is about LIST (Listing): the words that open and close   *)
(* structures are counted up to every token (Depth), and the invariant     *)
(* Indents keeps DIndent and DIndent2 equal to what is open.               *)
(***************************************************************************)
EXTENDS LineEditor, SequenceLemmas

-----------------------------------------------------------------------------
(* Addresses. *)

TopAddr == ProgramStart + 2 * ((MemLast - ProgramStart) \div 2)

LEMMA AddrFacts ==
  /\ ProgramStart \in Addrs /\ TopAddr \in Addrs /\ Addrs \subseteq ProgramStart..TopAddr
  /\ TopAddr \in Nat /\ ProgramStart \in Nat /\ MemLast \in Nat /\ TopAddr <= MemLast
  /\ MemLast <= TopAddr + 1
  /\ \A a, b \in Addrs : \E k \in Int : b = a + 2 * k
  /\ \A a \in Addrs, k \in Int :
       ProgramStart <= a + 2 * k /\ a + 2 * k <= MemLast => a + 2 * k \in Addrs
<1> DEFINE n == (MemLast - ProgramStart) \div 2
<1>1. /\ ProgramStart \in Nat /\ MemLast \in Nat /\ MemLast - ProgramStart \in Nat
      /\ n \in Nat /\ 2 * n <= MemLast - ProgramStart
      /\ MemLast - ProgramStart <= 2 * n + 1
  <2>1. ProgramStart \in Nat /\ MemLast \in Nat /\ MemLast - ProgramStart \in Nat
    BY LineEditorAssumption
  <2>2. \A d \in Nat : d \div 2 \in Nat /\ 2 * (d \div 2) <= d /\ d <= 2 * (d \div 2) + 1
    OBVIOUS
  <2> QED
    BY <2>1, <2>2
<1> HIDE DEF n
<1>2. TopAddr = ProgramStart + 2 * n /\ Addrs = {ProgramStart + 2 * i : i \in 0..n}
  BY DEF TopAddr, Addrs, n
<1>3. \A a \in Addrs : \E i \in 0..n : a = ProgramStart + 2 * i
  BY <1>2
<1>4. \A i \in 0..n : ProgramStart + 2 * i \in Addrs
  BY <1>2
<1>5. ProgramStart \in Addrs /\ TopAddr \in Addrs
  <2>1. 0 \in 0..n /\ n \in 0..n /\ ProgramStart + 2 * 0 = ProgramStart
    BY <1>1
  <2> QED
    BY <1>2, <1>4, <2>1
<1>6. Addrs \subseteq ProgramStart..TopAddr
  BY <1>1, <1>2, <1>3
<1>7. ASSUME NEW a \in Addrs, NEW b \in Addrs PROVE \E k \in Int : b = a + 2 * k
  <2>1. PICK i \in 0..n : a = ProgramStart + 2 * i
    BY <1>3
  <2>2. PICK j \in 0..n : b = ProgramStart + 2 * j
    BY <1>3
  <2>3. b = a + 2 * (j - i) /\ j - i \in Int
    BY <1>1, <2>1, <2>2
  <2> QED
    BY <2>3
<1>8. ASSUME NEW a \in Addrs, NEW k \in Int,
             ProgramStart <= a + 2 * k, a + 2 * k <= MemLast
      PROVE  a + 2 * k \in Addrs
  <2>1. PICK i \in 0..n : a = ProgramStart + 2 * i
    BY <1>3
  <2>2. i + k \in 0..n /\ a + 2 * k = ProgramStart + 2 * (i + k)
    BY <1>1, <1>8, <2>1
  <2> QED
    BY <1>4, <2>2
<1> QED
  BY <1>1, <1>2, <1>5, <1>6, <1>7, <1>8

LEMMA AddrTypes ==
  /\ Addrs \subseteq Nat /\ TopAddr \in Nat /\ ProgramStart \in Addrs
  /\ \A a \in Addrs : ProgramStart <= a /\ a <= TopAddr
BY AddrFacts

\* Between two addresses, and behind one by what stays in the memory kept.
LEMMA AddrStep ==
  ASSUME NEW a \in Addrs, NEW k \in Int, ProgramStart <= a + 2 * k,
         NEW b \in Addrs, a + 2 * k <= b
  PROVE  a + 2 * k \in Addrs
BY AddrFacts

LEMMA AddrGap ==
  ASSUME NEW a \in Addrs, NEW b \in Addrs, a < b
  PROVE  a + 2 <= b /\ a + 2 \in Addrs
<1>1. PICK k \in Int : b = a + 2 * k
  BY AddrFacts
<1>2. a \in Nat /\ b \in Nat /\ a >= ProgramStart /\ a + 2 <= b /\ a + 2 = a + 2 * 1
      /\ ProgramStart \in Nat
  BY <1>1, AddrFacts
<1> QED
  BY <1>2, AddrStep

\* What holds of an address whenever it holds of all above it, holds of all.
LEMMA Descent ==
  ASSUME NEW Q, \A a \in Addrs : (\A b \in Addrs : b > a => b \in Q) => a \in Q
  PROVE  \A a \in Addrs : a \in Q
<1> DEFINE Bad == {a \in Addrs : a \notin Q}
           Above == {TopAddr + 1 - a : a \in Bad}
<1> SUFFICES ASSUME Bad # {} PROVE FALSE
  OBVIOUS
<1>1. /\ Addrs \subseteq Int /\ TopAddr \in Int
      /\ \A a \in Addrs : TopAddr + 1 - a \in 1..(TopAddr + 1)
  BY AddrFacts
<1>2. Above \in SUBSET (1..(TopAddr + 1)) /\ Above # {} /\ TopAddr + 1 \in Nat
  <2>1. Bad \subseteq Addrs /\ Above \subseteq 1..(TopAddr + 1)
    BY <1>1
  <2>2. TopAddr + 1 \in Nat
    BY AddrFacts
  <2> QED
    BY <2>1, <2>2
<1>3. PICK i \in Above : \A j \in Above : i <= j
  <2> HIDE DEF Above
  <2> QED
    BY <1>2, LeastExists
<1>4. PICK a \in Bad : i = TopAddr + 1 - a
  BY <1>3
<1>5. \A b \in Bad : TopAddr + 1 - a <= TopAddr + 1 - b
  BY <1>3, <1>4
<1>6. \A b \in Addrs : b > a => b \in Q
  BY <1>1, <1>4, <1>5
<1> QED
  BY <1>4, <1>6

\* A function defined by recursion towards higher addresses.
Equation(V, next, base, h) ==
  /\ next \in [Addrs -> Int] /\ \A a \in Addrs : next[a] > a
  /\ base \in [Addrs -> V] /\ h \in [Addrs \X V -> V]
Solution(V, next, base, h, f) ==
  /\ f \in [Addrs -> V]
  /\ \A a \in Addrs : f[a] = IF next[a] \in Addrs THEN h[<<a, f[next[a]]>>] ELSE base[a]
LEMMA Recursion ==
  ASSUME NEW V, NEW next, NEW base, NEW h, Equation(V, next, base, h)
  PROVE  \E f : Solution(V, next, base, h, f)
<1> USE DEF Equation
<1> DEFINE From(a) == {b \in Addrs : b >= a}
           Solves(f, a) == \A b \in From(a) :
                             f[b] = IF next[b] \in Addrs THEN h[<<b, f[next[b]]>>]
                                                         ELSE base[b]
           Q == {a \in Addrs : \E f \in [From(a) -> V] : Solves(f, a)}
<1>1. Addrs \subseteq Int
  BY AddrFacts
<1>2. ASSUME NEW a \in Addrs, \A b \in Addrs : b > a => b \in Q PROVE a \in Q
  <2>1. \E g : /\ \A b \in From(a) \ {a} : g[b] \in V
               /\ \A b \in From(a) \ {a} :
                             g[b] = IF next[b] \in Addrs THEN h[<<b, g[next[b]]>>]
                                                         ELSE base[b]
    <3>1. CASE \E b \in Addrs : b > a
      <4>1. a + 2 \in Addrs /\ \A b \in Addrs : b > a => b >= a + 2
        BY <3>1, AddrGap
      <4>2. a + 2 \in Q
        <5>1. a + 2 > a
          BY <1>1
        <5> QED
          BY <1>2, <4>1, <5>1
      <4>3. PICK g \in [From(a + 2) -> V] : Solves(g, a + 2)
        BY <4>2
      <4>4. From(a) \ {a} = From(a + 2)
        <5>1. \A b \in Addrs : b >= a /\ b # a <=> b >= a + 2
          BY <1>1, <4>1
        <5> QED
          BY <5>1
      <4>5. /\ \A b \in From(a + 2) : g[b] \in V
            /\ \A b \in From(a + 2) :
                             g[b] = IF next[b] \in Addrs THEN h[<<b, g[next[b]]>>]
                                                         ELSE base[b]
        BY <4>3
      <4> QED
        BY <4>4, <4>5
    <3>2. CASE ~ \E b \in Addrs : b > a
      <4>1. From(a) \ {a} = {}
        <5>1. \A b \in Addrs : b >= a => b = a
          BY <1>1, <3>2
        <5> QED
          BY <5>1
      <4> QED
        BY <4>1
    <3> QED
      BY <3>1, <3>2
  <2>2. PICK g : /\ \A b \in From(a) \ {a} : g[b] \in V
                 /\ \A b \in From(a) \ {a} :
                             g[b] = IF next[b] \in Addrs THEN h[<<b, g[next[b]]>>]
                                                         ELSE base[b]
    BY <2>1
  <2> DEFINE first == IF next[a] \in Addrs THEN h[<<a, g[next[a]]>>] ELSE base[a]
             f == [b \in From(a) |-> IF b = a THEN first ELSE g[b]]
  <2>3. \A b \in From(a) : next[b] \in Addrs => next[b] \in From(a) \ {a}
    BY <1>1
  <2>4. first \in V
    <3>1. a \in From(a)
      BY <1>1
    <3>2. CASE next[a] \in Addrs
      <4>1. g[next[a]] \in V
        BY <2>2, <2>3, <3>1, <3>2
      <4> QED
        BY <3>2, <4>1
    <3>3. CASE next[a] \notin Addrs
      BY <3>3
    <3> QED
      BY <3>2, <3>3
  <2>5. f \in [From(a) -> V]
    <3> HIDE DEF first
    <3>1. \A b \in From(a) : (IF b = a THEN first ELSE g[b]) \in V
      BY <2>2, <2>4
    <3> QED
      BY <3>1
  <2>6. \A b \in From(a) : next[b] \in Addrs => f[next[b]] = g[next[b]]
    BY <2>3
  <2>7. Solves(f, a)
    <3> SUFFICES ASSUME NEW b \in From(a)
                 PROVE  f[b] = IF next[b] \in Addrs THEN h[<<b, f[next[b]]>>]
                                                    ELSE base[b]
      OBVIOUS
    <3>1. f[b] = IF next[b] \in Addrs THEN h[<<b, g[next[b]]>>] ELSE base[b]
      <4>1. CASE b = a
        BY <4>1
      <4>2. CASE b # a
        BY <2>2, <4>2
      <4> QED
        BY <4>1, <4>2
    <3> HIDE DEF f
    <3> QED
      BY <2>6, <3>1
  <2> HIDE DEF f
  <2> QED
    BY <2>5, <2>7
<1>3. ProgramStart \in Q
  <2> HIDE DEF Q
  <2>1. \A a \in Addrs : a \in Q
    BY <1>2, Descent
  <2> QED
    BY <2>1, AddrFacts
<1>4. From(ProgramStart) = Addrs
  <2>1. \A b \in Addrs : b >= ProgramStart
    BY AddrFacts
  <2> QED
    BY <2>1
<1>5. PICK f \in [From(ProgramStart) -> V] : Solves(f, ProgramStart)
  BY <1>3
<1> QED
  BY <1>4, <1>5 DEF Solution

-----------------------------------------------------------------------------
(* What the functions that read the memory compute, step by step. *)

LEMMA WordType == Word \subseteq Nat /\ 0 \in Word
<1>1. MaxWord \in Nat
  BY DEF MaxWord
<1> QED
  BY <1>1 DEF Word

LEMMA EndIs ==
  ASSUME NEW m \in [Addrs -> Word]
  PROVE  \E g \in [Addrs -> Addrs] :
           /\ FindCodeEnd(m) = g[ProgramStart]
           /\ \A a \in Addrs : g[a] = IF m[a] = 0 \/ a + m[a] \notin Addrs THEN a
                                      ELSE g[a + m[a]]
<1> DEFINE next == [a \in Addrs |-> IF m[a] = 0 THEN TopAddr + 1 ELSE a + m[a]]
           base == [a \in Addrs |-> a]
           h == [w \in Addrs \X Addrs |-> w[2]]
           Step(g) == [a \in Addrs |-> IF m[a] = 0 \/ a + m[a] \notin Addrs THEN a
                                       ELSE g[a + m[a]]]
<1>1. /\ \A a \in Addrs : m[a] \in Nat
      /\ \A a \in Addrs : a \in Int /\ a < TopAddr + 1
      /\ TopAddr + 1 \in Int
  <2>1. \A a \in Addrs : m[a] \in Nat
    BY WordType
  <2>2. \A a \in Addrs : a \in Int /\ a < TopAddr + 1
    BY AddrTypes
  <2> QED
    BY <2>1, <2>2, AddrTypes
<1>2. next \in [Addrs -> Int] /\ \A a \in Addrs : next[a] > a
  BY <1>1
<1>3. \A a \in Addrs : next[a] \in Addrs <=> ~(m[a] = 0 \/ a + m[a] \notin Addrs)
  BY <1>1
<1>4. PICK f : Solution(Addrs, next, base, h, f)
  <2>1. Equation(Addrs, next, base, h)
    BY <1>2 DEF Equation
  <2> HIDE DEF next, base, h
  <2> QED
    BY <2>1, Recursion
<1>6. f = Step(f)
  <2>1. \A a \in Addrs : f[a] = Step(f)[a]
    BY <1>3, <1>4 DEF Solution
  <2> QED
    BY <1>4, <2>1 DEF Solution
<1> DEFINE g == CHOOSE g : g = Step(g)
<1>7. g = Step(g)
  <2> HIDE DEF Step
  <2> QED
    BY <1>6
<1>8. FindCodeEnd(m) = g[ProgramStart]
  BY DEF FindCodeEnd
<1> HIDE DEF g
<1>9. g \in [Addrs -> Addrs]
  <2> DEFINE Q == {a \in Addrs : g[a] \in Addrs}
  <2>1. \A a \in Addrs : (\A b \in Addrs : b > a => b \in Q) => a \in Q
    <3> SUFFICES ASSUME NEW a \in Addrs, \A b \in Addrs : b > a => b \in Q
                 PROVE  g[a] \in Addrs
      OBVIOUS
    <3>1. g[a] = IF m[a] = 0 \/ a + m[a] \notin Addrs THEN a ELSE g[a + m[a]]
      BY <1>7
    <3>2. ASSUME m[a] # 0, a + m[a] \in Addrs PROVE g[a + m[a]] \in Addrs
      <4>1. a + m[a] > a
        BY <1>1, <3>2
      <4> QED
        BY <3>2, <4>1
    <3> QED
      BY <3>1, <3>2
  <2>2. \A a \in Addrs : a \in Q
    <3> HIDE DEF Q
    <3> QED
      BY <2>1, Descent
  <2> QED
    BY <1>7, <2>2
<1> QED
  BY <1>7, <1>8, <1>9

LEMMA LinesIs ==
  ASSUME NEW m \in [Addrs -> Word]
  PROVE  \E g \in [Addrs -> Seq(Addrs)] :
           /\ LinesOf(m) = g[ProgramStart]
           /\ \A a \in Addrs : g[a] = IF m[a] = 0 \/ a + m[a] \notin Addrs THEN <<>>
                                      ELSE <<a>> \o g[a + m[a]]
<1> DEFINE next == [a \in Addrs |-> IF m[a] = 0 THEN TopAddr + 1 ELSE a + m[a]]
           base == [a \in Addrs |-> <<>>]
           h == [w \in Addrs \X Seq(Addrs) |-> <<w[1]>> \o w[2]]
           Step(g) == [a \in Addrs |-> IF m[a] = 0 \/ a + m[a] \notin Addrs THEN <<>>
                                       ELSE <<a>> \o g[a + m[a]]]
<1>1. /\ \A a \in Addrs : m[a] \in Nat
      /\ \A a \in Addrs : a \in Int /\ a < TopAddr + 1
      /\ TopAddr + 1 \in Int
  <2>1. \A a \in Addrs : m[a] \in Nat
    BY WordType
  <2>2. \A a \in Addrs : a \in Int /\ a < TopAddr + 1
    BY AddrTypes
  <2> QED
    BY <2>1, <2>2, AddrTypes
<1>2. next \in [Addrs -> Int] /\ \A a \in Addrs : next[a] > a
  BY <1>1
<1>3. \A a \in Addrs : /\ next[a] \in Addrs <=> ~(m[a] = 0 \/ a + m[a] \notin Addrs)
                       /\ next[a] \in Addrs => next[a] = a + m[a]
  BY <1>1
<1>4. PICK f : Solution(Seq(Addrs), next, base, h, f)
  <2>1. base \in [Addrs -> Seq(Addrs)] /\ h \in [Addrs \X Seq(Addrs) -> Seq(Addrs)]
    OBVIOUS
  <2> HIDE DEF next, base, h
  <2>2. Equation(Seq(Addrs), next, base, h)
    BY <1>2, <2>1 DEF Equation
  <2> QED
    BY <2>2, Recursion
<1>5. f \in [Addrs -> Seq(Addrs)]
  BY <1>4 DEF Solution
<1>6. f = Step(f)
  <2>1. \A a \in Addrs : f[a] = Step(f)[a]
    <3> SUFFICES ASSUME NEW a \in Addrs PROVE f[a] = Step(f)[a]
      OBVIOUS
    <3>1. f[a] = IF next[a] \in Addrs THEN h[<<a, f[next[a]]>>] ELSE base[a]
      BY <1>4 DEF Solution
    <3>2. CASE next[a] \in Addrs
      <4>1. h[<<a, f[next[a]]>>] = <<a>> \o f[next[a]]
        BY <1>5, <3>2
      <4> HIDE DEF next, h
      <4> QED
        BY <1>3, <3>1, <3>2, <4>1
    <3>3. CASE next[a] \notin Addrs
      BY <1>3, <3>1, <3>3
    <3> QED
      BY <3>2, <3>3
  <2> QED
    BY <1>5, <2>1
<1> DEFINE g == CHOOSE g : g = Step(g)
<1>7. g = Step(g)
  <2> HIDE DEF Step
  <2> QED
    BY <1>6
<1>8. LinesOf(m) = g[ProgramStart]
  BY DEF LinesOf
<1> HIDE DEF g
<1>9. g \in [Addrs -> Seq(Addrs)]
  <2> DEFINE Q == {a \in Addrs : g[a] \in Seq(Addrs)}
  <2>1. \A a \in Addrs : (\A b \in Addrs : b > a => b \in Q) => a \in Q
    <3> SUFFICES ASSUME NEW a \in Addrs, \A b \in Addrs : b > a => b \in Q
                 PROVE  g[a] \in Seq(Addrs)
      OBVIOUS
    <3>1. g[a] = IF m[a] = 0 \/ a + m[a] \notin Addrs THEN <<>> ELSE <<a>> \o g[a + m[a]]
      BY <1>7
    <3>2. ASSUME m[a] # 0, a + m[a] \in Addrs PROVE <<a>> \o g[a + m[a]] \in Seq(Addrs)
      <4>1. a + m[a] > a
        BY <1>1, <3>2
      <4>2. g[a + m[a]] \in Seq(Addrs) /\ <<a>> \in Seq(Addrs)
        BY <3>2, <4>1
      <4> QED
        BY <4>2
    <3> QED
      BY <3>1, <3>2
  <2>2. \A a \in Addrs : a \in Q
    <3> HIDE DEF Q
    <3> QED
      BY <2>1, Descent
  <2> QED
    BY <1>7, <2>2
<1> QED
  BY <1>7, <1>8, <1>9

\* The words of the token at an address.
Token(m, b) == [i \in 1..TokenWords(m[b]) |-> m[b + 2 * (i - 1)]]
Ends(m, b) == m[b] = 0 \/ b + 2 * TokenWords(m[b]) \notin Addrs

LEMMA TokenFacts ==
  ASSUME NEW m \in [Addrs -> Word], NEW b \in Addrs, ~Ends(m, b)
  PROVE  /\ TokenWords(m[b]) \in Nat \ {0} /\ b + 2 * TokenWords(m[b]) \in Addrs
         /\ b + 2 * TokenWords(m[b]) > b /\ Token(m, b) \in Seq(Word)
<1> DEFINE n == TokenWords(m[b])
<1>1. m[b] \in Nat /\ m[b] # 0 /\ b + 2 * n \in Addrs
  BY WordType DEF Ends
<1>2. n \in Nat \ {0}
  BY <1>1 DEF TokenWords, StringLimit
<1> HIDE DEF n
<1>3. ASSUME NEW i \in 1..n PROVE b + 2 * (i - 1) \in Addrs
  <2>1. b \in Nat /\ ProgramStart <= b /\ ProgramStart \in Nat
    BY AddrTypes
  <2>2. i - 1 \in Int /\ ProgramStart <= b + 2 * (i - 1) /\ b + 2 * (i - 1) <= b + 2 * n
    BY <1>2, <2>1
  <2> QED
    BY <1>1, <2>2, AddrStep
<1>4. [i \in 1..n |-> m[b + 2 * (i - 1)]] \in [1..n -> Word]
  BY <1>3
<1>5. [i \in 1..n |-> m[b + 2 * (i - 1)]] \in Seq(Word)
  BY <1>2, <1>4
<1>6. b + 2 * n > b
  BY <1>2, AddrTypes
<1> QED
  BY <1>1, <1>2, <1>5, <1>6 DEF Token, n

LEMMA TokensIs ==
  ASSUME NEW m \in [Addrs -> Word]
  PROVE  \E g \in [Addrs -> Seq(Word)] :
           /\ \A a \in Addrs : TokensAt(m, a) = g[a]
           /\ \A a \in Addrs : g[a] = IF Ends(m, a) THEN <<>>
                                      ELSE Token(m, a) \o g[a + 2 * TokenWords(m[a])]
<1> DEFINE next == [a \in Addrs |-> IF Ends(m, a) THEN TopAddr + 1
                                    ELSE a + 2 * TokenWords(m[a])]
           base == [a \in Addrs |-> <<>>]
           h == [w \in Addrs \X Seq(Word) |-> IF Ends(m, w[1]) THEN <<>>
                                              ELSE Token(m, w[1]) \o w[2]]
           Step(g) == [a \in Addrs |-> IF Ends(m, a) THEN <<>>
                                       ELSE Token(m, a) \o g[a + 2 * TokenWords(m[a])]]
<1>1. /\ \A a \in Addrs : a \in Int /\ a < TopAddr + 1
      /\ TopAddr + 1 \in Int
  <2>1. \A a \in Addrs : a \in Int /\ a < TopAddr + 1
    BY AddrTypes
  <2> QED
    BY <2>1, AddrTypes
<1>2. next \in [Addrs -> Int] /\ \A a \in Addrs : next[a] > a
  <2>1. \A a \in Addrs : ~Ends(m, a) =>
          a + 2 * TokenWords(m[a]) \in Int /\ a + 2 * TokenWords(m[a]) > a
    BY <1>1, TokenFacts
  <2> QED
    BY <1>1, <2>1
<1>3. \A a \in Addrs : /\ next[a] \in Addrs <=> ~Ends(m, a)
                       /\ ~Ends(m, a) => next[a] = a + 2 * TokenWords(m[a])
  BY <1>1, TokenFacts
<1>4. PICK f : Solution(Seq(Word), next, base, h, f)
  <2>1. base \in [Addrs -> Seq(Word)]
    OBVIOUS
  <2>2. h \in [Addrs \X Seq(Word) -> Seq(Word)]
    <3>1. ASSUME NEW a \in Addrs, NEW v \in Seq(Word), ~Ends(m, a)
          PROVE  Token(m, a) \o v \in Seq(Word)
      BY <3>1, TokenFacts
    <3> QED
      BY <3>1
  <2> HIDE DEF next, base, h
  <2>3. Equation(Seq(Word), next, base, h)
    BY <1>2, <2>1, <2>2 DEF Equation
  <2> QED
    BY <2>3, Recursion
<1>5. f \in [Addrs -> Seq(Word)]
  BY <1>4 DEF Solution
<1>6. f = Step(f)
  <2>1. \A a \in Addrs : f[a] = Step(f)[a]
    <3> SUFFICES ASSUME NEW a \in Addrs PROVE f[a] = Step(f)[a]
      OBVIOUS
    <3>1. f[a] = IF next[a] \in Addrs THEN h[<<a, f[next[a]]>>] ELSE base[a]
      BY <1>4 DEF Solution
    <3>2. CASE ~Ends(m, a)
      <4>1. next[a] \in Addrs /\ next[a] = a + 2 * TokenWords(m[a])
        BY <1>3, <3>2
      <4>2. h[<<a, f[next[a]]>>] = Token(m, a) \o f[next[a]]
        BY <1>5, <3>2, <4>1
      <4> HIDE DEF next, h
      <4> QED
        BY <3>1, <3>2, <4>1, <4>2
    <3>3. CASE Ends(m, a)
      BY <1>3, <3>1, <3>3
    <3> QED
      BY <3>2, <3>3
  <2> QED
    BY <1>5, <2>1
<1> DEFINE g == CHOOSE g : g = Step(g)
<1>7. g = Step(g)
  <2> HIDE DEF Step
  <2> QED
    BY <1>6
<1>8. \A a \in Addrs : TokensAt(m, a) = g[a]
  BY DEF TokensAt, Ends, Token
<1> HIDE DEF g
<1>9. g \in [Addrs -> Seq(Word)]
  <2> DEFINE Q == {a \in Addrs : g[a] \in Seq(Word)}
  <2>1. \A a \in Addrs : (\A b \in Addrs : b > a => b \in Q) => a \in Q
    <3> SUFFICES ASSUME NEW a \in Addrs, \A b \in Addrs : b > a => b \in Q
                 PROVE  g[a] \in Seq(Word)
      OBVIOUS
    <3>1. g[a] = IF Ends(m, a) THEN <<>> ELSE Token(m, a) \o g[a + 2 * TokenWords(m[a])]
      BY <1>7
    <3>2. ASSUME ~Ends(m, a)
          PROVE  Token(m, a) \o g[a + 2 * TokenWords(m[a])] \in Seq(Word)
      <4>1. /\ a + 2 * TokenWords(m[a]) \in Addrs /\ a + 2 * TokenWords(m[a]) > a
            /\ Token(m, a) \in Seq(Word)
        BY <3>2, TokenFacts
      <4>2. g[a + 2 * TokenWords(m[a])] \in Seq(Word)
        BY <4>1
      <4> QED
        BY <4>1, <4>2
    <3> QED
      BY <3>1, <3>2
  <2>2. \A a \in Addrs : a \in Q
    <3> HIDE DEF Q
    <3> QED
      BY <2>1, Descent
  <2> QED
    BY <1>7, <2>2
<1> QED
  BY <1>7, <1>8, <1>9

-----------------------------------------------------------------------------
(* A program: the addresses of its lines, its end, the number and the body *)
(* of each line.                                                           *)

Shape(p) ==
  /\ p.lines \subseteq Addrs /\ p.end \in Addrs
  /\ p.number \in [p.lines -> Numbers] /\ p.body \in [p.lines -> Bodies]
  /\ ProgramStart \in p.lines \cup {p.end}
  /\ \A a \in p.lines : /\ a + LineSize(p.body[a]) \in p.lines \cup {p.end}
                        /\ a + LineSize(p.body[a]) <= p.end
  /\ \A a, b \in p.lines :
       a < b => a + LineSize(p.body[a]) <= b /\ p.number[a] < p.number[b]

LineAt(m, a, n, body) ==
  /\ m[a] = LineSize(body) /\ m[a + 2] = n
  /\ \A j \in 1..Len(body) : m[a + 2 + 2 * j] = body[j]
  /\ m[a + LineSize(body) - 2] = 0

\* The memory m holds the program p, from ProgramStart to its end.
Holds(m, p) ==
  /\ m \in [Addrs -> Word] /\ Shape(p)
  /\ m[p.end] = 0 /\ \A a \in p.lines : LineAt(m, a, p.number[a], p.body[a])

LEMMA BodyTypes ==
  ASSUME NEW body \in Bodies
  PROVE  /\ body \in Seq(Word) /\ Len(body) \in Nat /\ LineSize(body) \in Nat
         /\ LineSize(body) >= 6 /\ LineSize(body) = 2 * (Len(body) + 3)
<1>1. body \in Seq(Word)
  BY BodiesAssumption
<1>2. Len(body) \in Nat
  BY <1>1
<1> QED
  BY <1>1, <1>2 DEF LineSize

\* The link of a line leads to the next one or to the end.
LEMMA LinkFacts ==
  ASSUME NEW m, NEW p, Holds(m, p), NEW a \in p.lines
  PROVE  /\ a \in Addrs /\ m[a] # 0 /\ m[a] = LineSize(p.body[a])
         /\ a + m[a] \in Addrs /\ a + m[a] \in p.lines \cup {p.end}
         /\ a < a + m[a] /\ a < p.end
<1>1. p.body[a] \in Bodies /\ a \in Addrs /\ p.end \in Addrs /\ a \in Nat /\ p.end \in Nat
  BY AddrTypes DEF Holds, Shape
<1>2. m[a] = LineSize(p.body[a]) /\ m[a] \in Nat /\ m[a] >= 6
  BY <1>1, BodyTypes DEF Holds, LineAt
<1>3. a + m[a] \in p.lines \cup {p.end} /\ a + m[a] <= p.end
  BY <1>2 DEF Holds, Shape
<1>4. a + m[a] \in Addrs
  BY <1>1, <1>3 DEF Holds, Shape
<1> QED
  BY <1>1, <1>2, <1>3, <1>4

LEMMA EndFound ==
  ASSUME NEW m, NEW p, Holds(m, p)
  PROVE  FindCodeEnd(m) = p.end
<1>1. PICK g \in [Addrs -> Addrs] :
           /\ FindCodeEnd(m) = g[ProgramStart]
           /\ \A a \in Addrs : g[a] = IF m[a] = 0 \/ a + m[a] \notin Addrs THEN a
                                      ELSE g[a + m[a]]
  BY EndIs DEF Holds
<1> DEFINE Q == {a \in Addrs : a \in p.lines \cup {p.end} => g[a] = p.end}
<1>2. \A a \in Addrs : (\A b \in Addrs : b > a => b \in Q) => a \in Q
  <2> SUFFICES ASSUME NEW a \in Addrs, \A b \in Addrs : b > a => b \in Q,
                      a \in p.lines \cup {p.end}
               PROVE  g[a] = p.end
    OBVIOUS
  <2>1. CASE a = p.end
    BY <1>1, <2>1 DEF Holds
  <2>2. CASE a \in p.lines
    <3>1. /\ m[a] # 0 /\ a + m[a] \in Addrs /\ a + m[a] \in p.lines \cup {p.end}
          /\ a < a + m[a] /\ a \in Nat /\ m[a] \in Nat
      BY <2>2, LinkFacts, AddrTypes, WordType DEF Holds
    <3>2. a + m[a] \in Q
      BY <3>1
    <3> QED
      BY <1>1, <3>1, <3>2
  <2> QED
    BY <2>1, <2>2
<1>3. ProgramStart \in Q
  <2> HIDE DEF Q
  <2> QED
    BY <1>2, Descent, AddrTypes
<1> QED
  BY <1>1, <1>3 DEF Holds, Shape

\* The lines are found in the order of their addresses, all of them.
Ordered(s, p, a) ==
  /\ s \in Seq(Addrs)
  /\ \A i \in 1..Len(s) : s[i] \in p.lines /\ s[i] >= a
  /\ \A i, j \in 1..Len(s) : i < j => s[i] < s[j]
  /\ \A b \in p.lines : b >= a => \E i \in 1..Len(s) : s[i] = b

LEMMA OneMore ==
  ASSUME NEW p, NEW s, NEW a \in Nat, NEW n \in Nat, a < n, Ordered(s, p, n),
         a \in p.lines, p.lines \subseteq Addrs,
         \A b \in p.lines : b > a => b >= n
  PROVE  Ordered(<<a>> \o s, p, a)
<1> DEFINE t == <<a>> \o s
<1>1. s \in Seq(Addrs) /\ a \in Addrs /\ Addrs \subseteq Nat
  BY AddrTypes DEF Ordered
<1>2. /\ t \in Seq(Addrs) /\ Len(t) = Len(s) + 1 /\ Len(s) \in Nat /\ t[1] = a
      /\ \A i \in 2..Len(t) : t[i] = s[i - 1]
  BY <1>1
<1> HIDE DEF t
<1>3. \A i \in 1..Len(s) : s[i] \in p.lines /\ s[i] >= n /\ s[i] \in Nat
  <2>1. \A i \in 1..Len(s) : s[i] \in p.lines /\ s[i] >= n
    BY DEF Ordered
  <2> QED
    BY <1>1, <2>1
<1>4. \A i \in 2..Len(t) : /\ i - 1 \in 1..Len(s) /\ s[i - 1] \in Nat
                           /\ s[i - 1] \in p.lines /\ s[i - 1] >= n
  <2>1. \A i \in 2..Len(t) : i - 1 \in 1..Len(s)
    BY <1>2
  <2> QED
    BY <1>3, <2>1
<1>5. \A i \in 1..Len(t) : i = 1 \/ i \in 2..Len(t)
  BY <1>2
<1>6. \A i \in 1..Len(t) : t[i] \in p.lines /\ t[i] >= a
  BY <1>1, <1>2, <1>4, <1>5
<1>7. ASSUME NEW i \in 1..Len(t), NEW j \in 1..Len(t), i < j PROVE t[i] < t[j]
  <2>1. j \in 2..Len(t) /\ t[j] = s[j - 1] /\ s[j - 1] >= n /\ s[j - 1] \in Nat
    BY <1>2, <1>4, <1>7
  <2>2. CASE i = 1
    BY <1>1, <1>2, <2>1, <2>2
  <2>3. CASE i \in 2..Len(t)
    <3>1. i - 1 \in 1..Len(s) /\ j - 1 \in 1..Len(s) /\ i - 1 < j - 1
      BY <1>2, <1>4, <1>7, <2>1, <2>3
    <3> QED
      BY <1>2, <2>1, <2>3, <3>1 DEF Ordered
  <2> QED
    BY <1>5, <2>2, <2>3
<1>8. ASSUME NEW b \in p.lines, b >= a PROVE \E i \in 1..Len(t) : t[i] = b
  <2>1. CASE b = a
    <3>1. 1 \in 1..Len(t)
      BY <1>2
    <3> QED
      BY <1>2, <2>1, <3>1
  <2>2. CASE b > a
    <3>1. PICK i \in 1..Len(s) : s[i] = b
      BY <2>2 DEF Ordered
    <3>2. i + 1 \in 2..Len(t) /\ i + 1 \in 1..Len(t) /\ (i + 1) - 1 = i
      BY <1>2
    <3> QED
      BY <1>2, <3>1, <3>2
  <2>3. b \in Nat
    BY <1>1
  <2> QED
    BY <1>8, <2>1, <2>2, <2>3
<1> QED
  BY <1>2, <1>6, <1>7, <1>8 DEF Ordered, t

LEMMA LinesFound ==
  ASSUME NEW m, NEW p, Holds(m, p)
  PROVE  Ordered(LinesOf(m), p, ProgramStart)
<1>1. PICK g \in [Addrs -> Seq(Addrs)] :
           /\ LinesOf(m) = g[ProgramStart]
           /\ \A a \in Addrs : g[a] = IF m[a] = 0 \/ a + m[a] \notin Addrs THEN <<>>
                                      ELSE <<a>> \o g[a + m[a]]
  BY LinesIs DEF Holds
<1> DEFINE Q == {a \in Addrs : a \in p.lines \cup {p.end} => Ordered(g[a], p, a)}
<1>2. \A a \in Addrs : (\A b \in Addrs : b > a => b \in Q) => a \in Q
  <2> SUFFICES ASSUME NEW a \in Addrs, \A b \in Addrs : b > a => b \in Q,
                      a \in p.lines \cup {p.end}
               PROVE  Ordered(g[a], p, a)
    OBVIOUS
  <2>1. CASE a = p.end
    <3>1. g[a] = <<>>
      BY <1>1, <2>1 DEF Holds
    <3>2. \A b \in p.lines : b < a /\ b \in Nat
      BY <2>1, LinkFacts, AddrTypes
    <3> QED
      BY <3>1, <3>2, AddrTypes DEF Ordered
  <2>2. CASE a \in p.lines
    <3>1. /\ m[a] # 0 /\ a + m[a] \in Addrs /\ a + m[a] \in p.lines \cup {p.end}
          /\ a < a + m[a] /\ a \in Nat /\ m[a] \in Nat /\ m[a] = LineSize(p.body[a])
      BY <2>2, LinkFacts, AddrTypes, WordType DEF Holds
    <3>2. Ordered(g[a + m[a]], p, a + m[a])
      BY <3>1
    <3>3. p.lines \subseteq Addrs /\ \A b \in p.lines : b > a => b >= a + m[a]
      BY <2>2, <3>1, AddrTypes DEF Holds, Shape
    <3>4. g[a] = <<a>> \o g[a + m[a]]
      BY <1>1, <3>1
    <3>5. PICK n \in Nat : n = a + m[a]
      BY <3>1
    <3>6. Ordered(<<a>> \o g[n], p, a)
      BY <2>2, <3>1, <3>2, <3>3, <3>5, OneMore
    <3> QED
      BY <3>4, <3>5, <3>6
  <2> QED
    BY <2>1, <2>2
<1>3. ProgramStart \in Q
  <2> HIDE DEF Q
  <2> QED
    BY <1>2, Descent, AddrTypes
<1> QED
  BY <1>1, <1>3 DEF Holds, Shape

\* The words of a line's body, the zero word included.
LEMMA WordsFound ==
  ASSUME NEW m, NEW p, Holds(m, p), NEW a \in p.lines,
         NEW j \in 1..(Len(p.body[a]) + 1)
  PROVE  /\ a + 2 \in Addrs /\ a + 2 + 2 * j \in Addrs
         /\ m[a + 2 + 2 * j] = IF j = Len(p.body[a]) + 1 THEN 0 ELSE p.body[a][j]
<1> DEFINE body == p.body[a]
<1>1. body \in Bodies /\ a \in Addrs /\ p.end \in Addrs /\ a \in Nat /\ p.end \in Nat
      /\ a + LineSize(body) <= p.end
  BY AddrTypes DEF Holds, Shape
<1>2. LineAt(m, a, p.number[a], body)
  BY DEF Holds
<1> HIDE DEF body
<1>3. Len(body) \in Nat /\ LineSize(body) = 2 * (Len(body) + 3)
  BY <1>1, BodyTypes
<1>4. j \in 1..(Len(body) + 1)
  BY DEF body
<1>5. a + 2 \in Addrs /\ a + 2 + 2 * j \in Addrs
  <2>1. ProgramStart \in Nat /\ ProgramStart <= a
    BY <1>1, AddrTypes
  <2>2. /\ 1 \in Int /\ a + 2 * 1 <= p.end /\ ProgramStart <= a + 2 * 1 /\ a + 2 * 1 = a + 2
        /\ j + 1 \in Int /\ a + 2 * (j + 1) <= p.end /\ ProgramStart <= a + 2 * (j + 1)
        /\ a + 2 * (j + 1) = a + 2 + 2 * j
    BY <1>1, <1>3, <1>4, <2>1
  <2>3. a + 2 * 1 \in Addrs /\ a + 2 * (j + 1) \in Addrs
    BY <1>1, <2>2, AddrStep
  <2> QED
    BY <2>2, <2>3
<1>6. CASE j = Len(body) + 1
  <2>1. a + LineSize(body) - 2 = a + 2 + 2 * j
    BY <1>1, <1>3, <1>6
  <2> QED
    BY <1>2, <1>5, <1>6, <2>1 DEF LineAt, body
<1>7. CASE j \in 1..Len(body)
  BY <1>2, <1>3, <1>5, <1>7 DEF LineAt, body
<1> QED
  BY <1>3, <1>4, <1>6, <1>7

LEMMA ConcatFacts ==
  ASSUME NEW S, NEW u \in Seq(S), NEW v \in Seq(S)
  PROVE  /\ u \o v \in Seq(S) /\ Len(u \o v) = Len(u) + Len(v)
         /\ \A i \in 1..Len(u) : (u \o v)[i] = u[i]
         /\ \A i \in 1..Len(v) : (u \o v)[Len(u) + i] = v[i]
OBVIOUS

LEMMA SameSeq ==
  ASSUME NEW S, NEW u \in Seq(S), NEW v \in Seq(S), Len(u) = Len(v),
         \A i \in 1..Len(u) : u[i] = v[i]
  PROVE  u = v
OBVIOUS

LEMMA SubSeqJoin ==
  ASSUME NEW S, NEW b \in Seq(S), NEW j \in 1..Len(b), NEW n \in Nat \ {0},
         j + n <= Len(b) + 1
  PROVE  [i \in 1..n |-> b[j + i - 1]] \o SubSeq(b, j + n, Len(b)) = SubSeq(b, j, Len(b))
<1> DEFINE u == [i \in 1..n |-> b[j + i - 1]]
           v == SubSeq(b, j + n, Len(b))
           w == SubSeq(b, j, Len(b))
<1>1. /\ Len(b) \in Nat /\ u \in Seq(S) /\ Len(u) = n
      /\ \A i \in 1..n : u[i] = b[j + i - 1]
  <2>1. Len(b) \in Nat
    OBVIOUS
  <2>2. \A i \in 1..n : b[j + i - 1] \in S
    <3>1. \A i \in 1..n : j + i - 1 \in 1..Len(b)
      BY <2>1
    <3> QED
      BY <3>1, ElementType
  <2>3. u \in [1..n -> S]
    BY <2>2
  <2> QED
    BY <2>1, <2>3
<1>2. /\ v \in Seq(S) /\ Len(v) = Len(b) - (j + n) + 1
      /\ \A i \in 1..Len(v) : v[i] = b[j + n + i - 1]
  BY <1>1
<1>3. /\ w \in Seq(S) /\ Len(w) = Len(b) - j + 1
      /\ \A i \in 1..Len(w) : w[i] = b[j + i - 1]
  BY <1>1
<1> HIDE DEF u, v, w
<1>4. u \o v \in Seq(S) /\ Len(u \o v) = Len(w)
  <2>1. u \o v \in Seq(S) /\ Len(u \o v) = Len(u) + Len(v)
    BY <1>1, <1>2, ConcatFacts
  <2>2. Len(u \o v) = n + (Len(b) - (j + n) + 1)
    BY <1>1, <1>2, <2>1, Zenon
  <2>3. n + (Len(b) - (j + n) + 1) = Len(b) - j + 1
    <3>1. \A l, m, o \in Int : l + (m - (o + l) + 1) = m - o + 1
      OBVIOUS
    <3>2. Len(b) \in Int /\ j \in Int /\ n \in Int
      BY <1>1
    <3> QED
      BY <3>1, <3>2, Zenon
  <2> QED
    BY <1>3, <2>1, <2>2, <2>3, Zenon
<1>5. ASSUME NEW i \in 1..Len(w) PROVE (u \o v)[i] = w[i]
  <2>1. /\ \A k \in 1..Len(u) : (u \o v)[k] = u[k]
        /\ \A k \in 1..Len(v) : (u \o v)[Len(u) + k] = v[k]
    <3>1. u \in Seq(S) /\ v \in Seq(S)
      BY <1>1, <1>2, Zenon
    <3> QED
      BY <3>1, ConcatFacts
  <2>2. w[i] = b[j + i - 1]
    BY <1>3, Zenon
  <2>3. i \in Int /\ 1 <= i /\ i <= Len(b) - j + 1
    <3>1. i \in 1..(Len(b) - j + 1) /\ Len(b) \in Int
      BY <1>1, <1>3
    <3> QED
      BY <3>1
  <2>4. CASE i <= n
    <3>1. i \in 1..n
      BY <2>3, <2>4
    <3>2. (u \o v)[i] = u[i] /\ u[i] = b[j + i - 1]
      BY <1>1, <2>1, <3>1, Zenon
    <3> QED
      BY <2>2, <3>2
  <2>5. CASE i > n
    <3>1. /\ i - n \in 1..(Len(b) - (j + n) + 1)
          /\ n + (i - n) = i /\ j + n + (i - n) - 1 = j + i - 1
      <4>1. Len(b) \in Int
        BY <1>1
      <4> QED
        BY <2>3, <2>5, <4>1
    <3>2. (u \o v)[n + (i - n)] = v[i - n] /\ v[i - n] = b[j + n + (i - n) - 1]
      BY <1>1, <1>2, <2>1, <3>1, Zenon
    <3> QED
      BY <2>2, <3>1, <3>2, Zenon
  <2>6. i <= n \/ i > n
    BY <2>3
  <2> QED
    BY <2>4, <2>5, <2>6, Zenon
<1>6. u \o v = w
  <2>1. \A k \in 1..Len(w) : (u \o v)[k] = w[k]
    BY <1>5
  <2> QED
    BY <1>3, <1>4, <2>1, SameSeq
<1> QED
  BY <1>6 DEF u, v, w

LEMMA TokensFound ==
  ASSUME NEW m, NEW p, Holds(m, p), NEW a \in p.lines
  PROVE  TokensAt(m, a + 4) = p.body[a]
<1>1. PICK g \in [Addrs -> Seq(Word)] :
           /\ \A c \in Addrs : TokensAt(m, c) = g[c]
           /\ \A c \in Addrs : g[c] = IF Ends(m, c) THEN <<>>
                                      ELSE Token(m, c) \o g[c + 2 * TokenWords(m[c])]
  BY TokensIs DEF Holds
<1>2. PICK b \in Bodies : b = p.body[a]
  BY DEF Holds, Shape
<1>3. PICK at \in SUBSET (1..(Len(b) + 1)) : Tokenised(b, at)
  BY BodiesAssumption
<1>4. b \in Seq(Word) /\ Len(b) \in Nat
  BY BodyTypes
<1>5. a \in Nat /\ \A c \in Addrs : c \in Nat
  BY AddrTypes DEF Holds, Shape
<1>6. \A j \in 1..(Len(b) + 1) :
        /\ a + 2 + 2 * j \in Addrs
        /\ m[a + 2 + 2 * j] = IF j = Len(b) + 1 THEN 0 ELSE b[j]
  BY <1>2, WordsFound
<1> DEFINE Q == {c \in Addrs : \A j \in at : c = a + 2 + 2 * j => g[c] = SubSeq(b, j, Len(b))}
<1>7. \A c \in Addrs : (\A d \in Addrs : d > c => d \in Q) => c \in Q
  <2> SUFFICES ASSUME NEW c \in Addrs, \A d \in Addrs : d > c => d \in Q,
                      NEW j \in at, c = a + 2 + 2 * j
               PROVE  g[c] = SubSeq(b, j, Len(b))
    OBVIOUS
  <2>1. j \in 1..(Len(b) + 1) /\ m[c] = IF j = Len(b) + 1 THEN 0 ELSE b[j]
    BY <1>6
  <2>2. CASE j = Len(b) + 1
    <3>1. g[c] = <<>>
      BY <1>1, <2>1, <2>2 DEF Ends
    <3>2. SubSeq(b, Len(b) + 1, Len(b)) = <<>>
      BY <1>4
    <3> QED
      BY <2>2, <3>1, <3>2
  <2>3. CASE j \in 1..Len(b)
    <3> DEFINE n == TokenWords(b[j])
    <3>1. b[j] # 0 /\ j + n \in at
      BY <1>3, <1>4, <2>3 DEF Tokenised
    <3>2. m[c] = b[j] /\ b[j] \in Nat
      <4>1. b[j] \in Word
        BY <1>4, <2>3, ElementType
      <4>2. j # Len(b) + 1
        BY <1>4, <2>3
      <4> QED
        BY <2>1, <4>1, <4>2, WordType
    <3>3. n \in Nat \ {0} /\ j + n \in 1..(Len(b) + 1)
      <4>1. n \in Nat \ {0}
        BY <3>1, <3>2, SMTT(30) DEF TokenWords, StringLimit
      <4> QED
        BY <3>1, <4>1
    <3> HIDE DEF n
    <3>4. c + 2 * n = a + 2 + 2 * (j + n) /\ c + 2 * n \in Addrs /\ c + 2 * n > c
      BY <1>4, <1>5, <1>6, <3>3
    <3>5. g[c + 2 * n] = SubSeq(b, j + n, Len(b))
      BY <3>1, <3>4
    <3>6. Token(m, c) = [i \in 1..n |-> b[j + i - 1]]
      <4>1. ASSUME NEW i \in 1..n PROVE m[c + 2 * (i - 1)] = b[j + i - 1]
        <5>1. j + i - 1 \in 1..Len(b) /\ c + 2 * (i - 1) = a + 2 + 2 * (j + i - 1)
              /\ j + i - 1 # Len(b) + 1 /\ j + i - 1 \in 1..(Len(b) + 1)
          BY <1>4, <1>5, <2>3, <3>3
        <5> HIDE DEF Q
        <5>2. m[a + 2 + 2 * (j + i - 1)] = b[j + i - 1]
          BY <1>6, <5>1
        <5> QED
          BY <5>1, <5>2
      <4>2. Token(m, c) = [i \in 1..n |-> m[c + 2 * (i - 1)]]
        BY <3>2 DEF Token, n
      <4> QED
        BY <4>1, <4>2
    <3>7. g[c] = Token(m, c) \o g[c + 2 * n]
      <4>1. ~Ends(m, c)
        BY <3>1, <3>2, <3>4 DEF Ends, n
      <4> QED
        BY <1>1, <3>2, <4>1 DEF n
    <3> QED
      <4>1. j + n <= Len(b) + 1
        BY <1>4, <3>3
      <4>2. [i \in 1..n |-> b[j + i - 1]] \o SubSeq(b, j + n, Len(b)) = SubSeq(b, j, Len(b))
        BY <1>4, <2>3, <3>3, <4>1, SubSeqJoin
      <4> QED
        BY <3>5, <3>6, <3>7, <4>2
  <2> QED
    BY <1>4, <2>1, <2>2, <2>3
<1>8. 1 \in at /\ a + 2 + 2 * 1 = a + 4 /\ a + 4 \in Addrs
  <2>1. 1 \in at /\ a + 2 + 2 * 1 = a + 4
    BY <1>3, <1>5 DEF Tokenised
  <2> QED
    BY <1>6, <2>1
<1>9. a + 4 \in Q
  <2> HIDE DEF Q
  <2> QED
    BY <1>7, <1>8, Descent
<1>10. g[a + 4] = SubSeq(b, 1, Len(b))
  BY <1>8, <1>9
<1>11. SubSeq(b, 1, Len(b)) = b
  BY <1>4
<1> QED
  BY <1>1, <1>2, <1>8, <1>10, <1>11

-----------------------------------------------------------------------------
(* What LIST shows. *)

Lists(l, p) ==
  /\ l \in [Numbers -> Bodies]
  /\ \A a \in p.lines : l[p.number[a]] = p.body[a]
  /\ \A n \in Numbers : (\A a \in p.lines : p.number[a] # n) => l[n] = <<>>

LEMMA ListedIs ==
  ASSUME NEW m, NEW p, Holds(m, p)
  PROVE  Lists(Listed(m), p)
<1> DEFINE s == LinesOf(m)
           At(n) == {i \in 1..Len(s) : m[s[i] + 2] = n}
           Shown(n) == IF At(n) = {} THEN <<>>
                       ELSE TokensAt(m, s[CHOOSE i \in At(n) : \A j \in At(n) : i <= j] + 4)
<1>1. Ordered(s, p, ProgramStart)
  BY LinesFound
<1>2. Listed(m) = [n \in Numbers |-> Shown(n)]
  BY DEF Listed
<1> HIDE DEF s
<1>3. \A a \in p.lines : m[a + 2] = p.number[a] /\ p.number[a] \in Numbers /\ a >= ProgramStart
  BY AddrTypes DEF Holds, LineAt, Shape
<1>4. \A i \in 1..Len(s) : s[i] \in p.lines /\ m[s[i] + 2] = p.number[s[i]]
  BY <1>1, <1>3 DEF Ordered
<1>5. ASSUME NEW a, NEW b, a \in p.lines, b \in p.lines, p.number[a] = p.number[b] PROVE a = b
  <2>1. /\ a < b => p.number[a] < p.number[b]
        /\ b < a => p.number[b] < p.number[a]
    BY <1>5 DEF Holds, Shape
  <2>2. a \in Nat /\ b \in Nat /\ p.number[a] \in Nat
    <3>1. p.number[a] \in Numbers /\ Numbers \subseteq Nat
      BY <1>3, <1>5, LineEditorAssumption
    <3> QED
      BY <1>5, <3>1, AddrTypes DEF Holds, Shape
  <2> QED
    BY <1>5, <2>1, <2>2
<1>6. ASSUME NEW a \in p.lines PROVE Shown(p.number[a]) = p.body[a]
  <2> DEFINE I == At(p.number[a])
  <2>1. PICK k \in 1..Len(s) : s[k] = a
    BY <1>1, <1>3 DEF Ordered
  <2>2. I \in SUBSET (1..Len(s)) /\ k \in I
    BY <1>3, <2>1
  <2>3. Len(s) \in Nat
    BY <1>1 DEF Ordered
  <2> HIDE DEF I
  <2>4. PICK e \in I : \A j \in I : e <= j
    BY <2>2, <2>3, LeastExists
  <2>5. PICK f : f = CHOOSE i \in I : \A j \in I : i <= j
    OBVIOUS
  <2>6. f \in I
    BY <2>4, <2>5
  <2>7. f \in 1..Len(s) /\ m[s[f] + 2] = p.number[a]
    BY <2>6 DEF I
  <2>8. s[f] = a
    BY <1>4, <1>5, <2>7
  <2>9. Shown(p.number[a]) = TokensAt(m, s[f] + 4)
    BY <2>2, <2>5 DEF I
  <2> QED
    BY <2>8, <2>9, TokensFound
<1>7. ASSUME NEW n \in Numbers, \A a \in p.lines : p.number[a] # n PROVE Shown(n) = <<>>
  <2>1. At(n) = {}
    BY <1>4, <1>7
  <2> QED
    BY <2>1
<1> HIDE DEF Shown
<1>8. \A n \in Numbers : Shown(n) \in Bodies
  <2>1. ASSUME NEW n \in Numbers PROVE Shown(n) \in Bodies
    <3>1. CASE \E a \in p.lines : p.number[a] = n
      <4>1. PICK a \in p.lines : p.number[a] = n
        BY <3>1
      <4>2. p.body[a] \in Bodies
        BY DEF Holds, Shape
      <4> QED
        BY <1>6, <4>1, <4>2
    <3>2. CASE ~ \E a \in p.lines : p.number[a] = n
      BY <1>7, <3>2, BodiesAssumption
    <3> QED
      BY <3>1, <3>2
  <2> QED
    BY <2>1
<1> QED
  BY <1>2, <1>3, <1>6, <1>7, <1>8 DEF Lists

\* A program is listed in one way.
LEMMA OneListing ==
  ASSUME NEW l, NEW k, NEW p, Shape(p), Lists(l, p), Lists(k, p)
  PROVE  l = k
<1>1. l \in [Numbers -> Bodies] /\ k \in [Numbers -> Bodies]
  BY DEF Lists
<1>2. ASSUME NEW n \in Numbers PROVE l[n] = k[n]
  BY DEF Lists
<1> QED
  BY <1>1, <1>2

-----------------------------------------------------------------------------
(* Programs changed in memory. *)

\* What lies behind the end is not part of the program.
LEMMA Frame ==
  ASSUME NEW m, NEW p, Holds(m, p), NEW k \in [Addrs -> Word],
         \A a \in Addrs : a <= p.end => k[a] = m[a]
  PROVE  Holds(k, p)
<1>1. p.end \in Addrs /\ Shape(p) /\ p.end \in Nat
  BY AddrTypes DEF Holds, Shape
<1>2. k[p.end] = 0
  BY <1>1 DEF Holds
<1>3. ASSUME NEW a \in p.lines PROVE LineAt(k, a, p.number[a], p.body[a])
  <2>1. LineAt(m, a, p.number[a], p.body[a])
    BY DEF Holds
  <2>2. PICK b \in Bodies : b = p.body[a]
    BY <1>1 DEF Shape
  <2>3. /\ Len(b) \in Nat /\ LineSize(b) = 2 * (Len(b) + 3) /\ a + LineSize(b) <= p.end
        /\ a \in Nat /\ a \in Addrs
    BY <1>1, <2>2, BodyTypes, AddrTypes DEF Shape
  <2>4. k[a] = m[a]
    BY <1>1, <2>3
  <2>5. ASSUME NEW j \in 1..(Len(b) + 1) PROVE k[a + 2 + 2 * j] = m[a + 2 + 2 * j]
    <3>1. a + 2 + 2 * j \in Addrs /\ a + 2 + 2 * j <= p.end
      BY <1>1, <2>2, <2>3, WordsFound
    <3> QED
      BY <3>1
  <2>6. k[a + 2] = m[a + 2]
    <3>1. 1 \in 1..(Len(b) + 1)
      BY <2>3
    <3>2. a + 2 \in Addrs /\ a + 2 <= p.end
      BY <1>1, <2>2, <2>3, <3>1, WordsFound
    <3> QED
      BY <3>2
  <2>7. k[a + LineSize(b) - 2] = m[a + LineSize(b) - 2]
    <3>1. a + LineSize(b) - 2 = a + 2 + 2 * (Len(b) + 1) /\ Len(b) + 1 \in 1..(Len(b) + 1)
      BY <2>3
    <3> QED
      BY <2>5, <3>1
  <2>8. \A j \in 1..Len(b) : j \in 1..(Len(b) + 1)
    BY <2>3
  <2> QED
    BY <2>1, <2>2, <2>4, <2>5, <2>6, <2>7, <2>8 DEF LineAt
<1> QED
  BY <1>1, <1>2, <1>3 DEF Holds

\* A line somewhere else.
LEMMA Moved ==
  ASSUME NEW m, NEW p, Holds(m, p), NEW a \in p.lines, NEW k, NEW d \in Int,
         \A c \in Addrs : a <= c /\ c < a + LineSize(p.body[a]) => k[c + d] = m[c]
  PROVE  LineAt(k, a + d, p.number[a], p.body[a])
<1>1. PICK b \in Bodies : b = p.body[a]
  BY DEF Holds, Shape
<1>2. /\ Len(b) \in Nat /\ LineSize(b) = 2 * (Len(b) + 3) /\ a \in Nat /\ a \in Addrs
  BY BodyTypes, AddrTypes DEF Holds, Shape
<1>3. LineAt(m, a, p.number[a], b)
  BY <1>1 DEF Holds
<1>4. k[a + d] = m[a]
  BY <1>1, <1>2
<1>5. ASSUME NEW j \in 1..(Len(b) + 1) PROVE k[a + d + 2 + 2 * j] = m[a + 2 + 2 * j]
  <2>1. a + 2 + 2 * j \in Addrs
    BY <1>1, WordsFound
  <2>2. /\ a <= a + 2 + 2 * j /\ a + 2 + 2 * j < a + LineSize(b)
        /\ (a + 2 + 2 * j) + d = a + d + 2 + 2 * j
    BY <1>2
  <2> QED
    BY <1>1, <2>1, <2>2
<1>6. k[a + d + 2] = m[a + 2]
  <2>1. 1 \in 1..(Len(b) + 1)
    BY <1>2
  <2>2. a + 2 \in Addrs
    BY <1>1, <2>1, WordsFound
  <2>3. a <= a + 2 /\ a + 2 < a + LineSize(b) /\ (a + 2) + d = a + d + 2
    BY <1>2
  <2> QED
    BY <1>1, <2>2, <2>3
<1>7. k[a + d + LineSize(b) - 2] = m[a + LineSize(b) - 2]
  <2>1. /\ a + LineSize(b) - 2 = a + 2 + 2 * (Len(b) + 1) /\ Len(b) + 1 \in 1..(Len(b) + 1)
        /\ a + d + LineSize(b) - 2 = a + d + 2 + 2 * (Len(b) + 1)
    BY <1>2
  <2> QED
    BY <1>5, <2>1
<1>8. \A j \in 1..Len(b) : j \in 1..(Len(b) + 1)
  BY <1>2
<1> QED
  BY <1>1, <1>3, <1>4, <1>5, <1>6, <1>7, <1>8 DEF LineAt

\* Without the line at t; those behind it are further down.
Without(p, t) ==
  LET d == LineSize(p.body[t])
      lines == {a \in p.lines : a < t} \cup {a - d : a \in {b \in p.lines : b > t}}
  IN  [lines |-> lines, end |-> p.end - d,
       number |-> [a \in lines |-> IF a < t THEN p.number[a] ELSE p.number[a + d]],
       body |-> [a \in lines |-> IF a < t THEN p.body[a] ELSE p.body[a + d]]]

LEMMA WithoutHolds ==
  ASSUME NEW m, NEW p, Holds(m, p), NEW t \in p.lines, NEW k \in [Addrs -> Word],
         NEW d, d = LineSize(p.body[t]),
         \A a \in Addrs : a < t => k[a] = m[a],
         \A a \in Addrs : t + d <= a /\ a <= p.end => k[a - d] = m[a]
  PROVE  /\ Holds(k, Without(p, t)) /\ Without(p, t).end = p.end - d
         /\ \A a \in Without(p, t).lines : Without(p, t).number[a] # p.number[t]
         /\ \A l : Lists(l, p) => Lists([l EXCEPT ![p.number[t]] = <<>>], Without(p, t))
<1> DEFINE q == Without(p, t)
<1>1. /\ p.lines \subseteq Addrs /\ p.end \in Addrs /\ Addrs \subseteq Nat
      /\ \A a \in p.lines : p.number[a] \in Numbers /\ p.body[a] \in Bodies
      /\ \A a \in p.lines : p.number[a] \in Nat
  <2>1. \A n \in Numbers : n \in Nat
    BY LineEditorAssumption
  <2> QED
    BY <2>1, AddrTypes DEF Holds, Shape
<1>2. PICK h \in Nat : d = 2 * h /\ h >= 3
  <2>1. Len(p.body[t]) \in Nat /\ d = 2 * (Len(p.body[t]) + 3)
    BY <1>1, BodyTypes
  <2>2. Len(p.body[t]) + 3 \in Nat /\ Len(p.body[t]) + 3 >= 3
    BY <2>1
  <2> QED
    BY <2>1, <2>2
<1>3. /\ q.end = p.end - d
      /\ \A a \in q.lines : \/ a \in p.lines /\ a < t
                            \/ \E b \in p.lines : b > t /\ a = b - d
      /\ \A a \in p.lines : /\ a < t => a \in q.lines
                            /\ a > t => a - d \in q.lines
  BY DEF Without
<1>4. q.number = [a \in q.lines |-> IF a < t THEN p.number[a] ELSE p.number[a + d]]
  BY DEF Without
<1>5. q.body = [a \in q.lines |-> IF a < t THEN p.body[a] ELSE p.body[a + d]]
  BY DEF Without
<1> HIDE DEF q
<1>6. /\ t \in Addrs /\ t \in Nat /\ p.end \in Nat /\ t + d <= p.end
      /\ t + d \in p.lines \cup {p.end}
  BY <1>1 DEF Holds, Shape
<1>7. \A b \in p.lines : b > t => b >= t + d /\ b \in Nat
  BY <1>1 DEF Holds, Shape
<1>8. \A a \in q.lines : \/ a \in p.lines /\ a < t /\ a \in Nat
                         \/ a >= t /\ a + d \in p.lines /\ a + d > t /\ a \in Nat
  <2> SUFFICES ASSUME NEW a \in q.lines
               PROVE  \/ a \in p.lines /\ a < t /\ a \in Nat
                      \/ a >= t /\ a + d \in p.lines /\ a + d > t /\ a \in Nat
    OBVIOUS
  <2>1. CASE a \in p.lines /\ a < t
    BY <1>1, <2>1
  <2>2. CASE \E b \in p.lines : b > t /\ a = b - d
    <3>1. PICK b \in p.lines : b > t /\ a = b - d
      BY <2>2
    <3>2. b \in Nat /\ b >= t + d
      BY <1>7, <3>1
    <3>3. a \in Nat /\ a >= t /\ a + d = b
      BY <1>2, <1>6, <3>1, <3>2
    <3> QED
      BY <3>1, <3>3
  <2> QED
    BY <1>3, <2>1, <2>2
<1>9. \A a \in q.lines :
        /\ a < t => a \in p.lines /\ q.number[a] = p.number[a] /\ q.body[a] = p.body[a]
        /\ ~(a < t) => /\ a + d \in p.lines /\ a + d > t
                       /\ q.number[a] = p.number[a + d] /\ q.body[a] = p.body[a + d]
  <2> SUFFICES ASSUME NEW a \in q.lines
      PROVE /\ a < t => a \in p.lines /\ q.number[a] = p.number[a] /\ q.body[a] = p.body[a]
            /\ ~(a < t) => /\ a + d \in p.lines /\ a + d > t
                           /\ q.number[a] = p.number[a + d] /\ q.body[a] = p.body[a + d]
    OBVIOUS
  <2>1. /\ q.number[a] = IF a < t THEN p.number[a] ELSE p.number[a + d]
        /\ q.body[a] = IF a < t THEN p.body[a] ELSE p.body[a + d]
    BY <1>4, <1>5
  <2>2. /\ a < t => a \in p.lines
        /\ ~(a < t) => a + d \in p.lines /\ a + d > t
    BY <1>2, <1>6, <1>8
  <2> QED
    BY <2>1, <2>2
<1>10. q.lines \subseteq Addrs /\ q.end \in Addrs /\ \A a \in q.lines : a \in Nat
  <2>1. ASSUME NEW b \in Addrs, b >= t + d PROVE b - d \in Addrs
    <3>1. /\ -h \in Int /\ b + 2 * (-h) = b - d /\ b \in Nat /\ ProgramStart \in Nat
          /\ ProgramStart <= t
      BY <1>1, <1>2, <1>6, AddrTypes
    <3>2. ProgramStart <= b + 2 * (-h) /\ b + 2 * (-h) <= b
      BY <1>2, <1>6, <2>1, <3>1
    <3> QED
      BY <3>1, <3>2, AddrStep
  <2>2. p.end - d \in Addrs
    BY <1>1, <1>6, <2>1
  <2>3. ASSUME NEW a \in q.lines PROVE a \in Addrs
    <3>1. CASE a \in p.lines
      BY <1>1, <3>1
    <3>2. CASE a >= t /\ a + d \in p.lines /\ a \in Nat
      <4>1. a + d >= t + d /\ (a + d) - d = a /\ a + d \in Addrs
        BY <1>1, <1>2, <1>6, <3>2
      <4>2. (a + d) - d \in Addrs
        BY <2>1, <4>1
      <4> QED
        BY <4>1, <4>2
    <3> QED
      BY <1>8, <3>1, <3>2
  <2> QED
    BY <1>1, <1>3, <2>2, <2>3
<1>11. t \in q.lines \cup {q.end}
  <2>1. CASE t + d \in p.lines
    <3>1. t + d > t /\ (t + d) - d = t
      BY <1>2, <1>6
    <3>2. (t + d) - d \in q.lines
      BY <1>3, <2>1, <3>1
    <3> QED
      BY <3>1, <3>2
  <2>2. CASE t + d = p.end
    BY <1>2, <1>3, <1>6, <2>2
  <2> QED
    BY <1>6, <2>1, <2>2
<1>12. Shape(q)
  <2>1. q.number \in [q.lines -> Numbers] /\ q.body \in [q.lines -> Bodies]
    <3>1. \A a \in q.lines : q.number[a] \in Numbers /\ q.body[a] \in Bodies
      BY <1>1, <1>9
    <3> QED
      BY <1>4, <1>5, <3>1
  <2>2. ProgramStart \in q.lines \cup {q.end}
    <3>1. ProgramStart <= t /\ ProgramStart \in Nat
      BY <1>6, AddrTypes
    <3>2. CASE ProgramStart = t
      BY <1>11, <3>2
    <3>3. CASE ProgramStart < t
      <4>1. ProgramStart # p.end
        BY <1>2, <1>6, <3>1, <3>3
      <4> QED
        BY <1>3, <3>3, <4>1 DEF Holds, Shape
    <3> QED
      BY <1>6, <3>1, <3>2, <3>3
  <2>3. ASSUME NEW a \in q.lines
        PROVE  /\ a + LineSize(q.body[a]) \in q.lines \cup {q.end}
               /\ a + LineSize(q.body[a]) <= q.end
    <3>1. CASE a < t
      <4>1. a \in p.lines /\ q.body[a] = p.body[a]
        BY <1>9, <3>1
      <4>2. PICK s \in Nat : s = LineSize(p.body[a])
        BY <1>1, <4>1, BodyTypes
      <4>3. /\ a + s \in p.lines \cup {p.end} /\ a + s <= t
        BY <3>1, <4>1, <4>2 DEF Holds, Shape
      <4>4. a + s <= q.end
        BY <1>2, <1>3, <1>6, <1>10, <4>2, <4>3
      <4>5. a + s \in q.lines \cup {q.end}
        <5>1. CASE a + s = t
          BY <1>11, <5>1
        <5>2. CASE a + s < t
          <6>1. a + s # p.end
            BY <1>2, <1>6, <5>2
          <6> QED
            BY <1>3, <4>3, <5>2, <6>1
        <5> QED
          BY <1>6, <1>10, <4>2, <4>3, <5>1, <5>2
      <4> QED
        BY <4>1, <4>2, <4>4, <4>5
    <3>2. CASE ~(a < t)
      <4>1. /\ a + d \in p.lines /\ q.body[a] = p.body[a + d] /\ a + d > t
        BY <1>9, <3>2
      <4>2. PICK s \in Nat : s = LineSize(p.body[a + d]) /\ s >= 6
        BY <1>1, <4>1, BodyTypes
      <4>3. /\ a + d + s \in p.lines \cup {p.end} /\ a + d + s <= p.end
        BY <4>1, <4>2 DEF Holds, Shape
      <4>4. a + s <= q.end /\ a + s = (a + d + s) - d /\ a + d + s > t
        BY <1>2, <1>3, <1>6, <1>10, <4>1, <4>2, <4>3
      <4>5. a + s \in q.lines \cup {q.end}
        BY <1>3, <4>3, <4>4
      <4> QED
        BY <4>1, <4>2, <4>4, <4>5
    <3> QED
      BY <3>1, <3>2
  <2>4. ASSUME NEW a \in q.lines, NEW b \in q.lines, a < b
        PROVE  a + LineSize(q.body[a]) <= b /\ q.number[a] < q.number[b]
    <3>0. a \in Nat /\ b \in Nat
      BY <1>10
    <3>1. CASE b < t
      <4>1. a < t
        BY <1>6, <2>4, <3>0, <3>1
      <4> QED
        BY <1>9, <2>4, <3>1, <4>1 DEF Holds, Shape
    <3>2. CASE ~(b < t) /\ a < t
      <4>1. /\ a \in p.lines /\ b + d \in p.lines /\ q.body[a] = p.body[a]
            /\ q.number[a] = p.number[a] /\ q.number[b] = p.number[b + d]
        BY <1>9, <3>2
      <4>2. PICK s \in Nat : s = LineSize(p.body[a])
        BY <1>1, <4>1, BodyTypes
      <4>3. a + s <= t
        BY <3>2, <4>1, <4>2 DEF Holds, Shape
      <4>4. a < b + d
        BY <1>2, <2>4, <3>0
      <4>5. p.number[a] < p.number[b + d]
        BY <4>1, <4>4 DEF Holds, Shape
      <4> QED
        BY <1>6, <3>0, <3>2, <4>1, <4>2, <4>3, <4>5
    <3>3. CASE ~(b < t) /\ ~(a < t)
      <4>1. /\ a + d \in p.lines /\ b + d \in p.lines /\ q.body[a] = p.body[a + d]
            /\ q.number[a] = p.number[a + d] /\ q.number[b] = p.number[b + d]
        BY <1>9, <3>3
      <4>2. PICK s \in Nat : s = LineSize(p.body[a + d])
        BY <1>1, <4>1, BodyTypes
      <4>3. a + d < b + d
        BY <1>2, <2>4, <3>0
      <4>4. a + d + s <= b + d /\ p.number[a + d] < p.number[b + d]
        BY <4>1, <4>2, <4>3 DEF Holds, Shape
      <4>5. a + s <= b
        BY <1>2, <3>0, <4>2, <4>4
      <4> QED
        BY <4>1, <4>2, <4>4, <4>5
    <3> QED
      BY <3>1, <3>2, <3>3
  <2> QED
    BY <1>10, <2>1, <2>2, <2>3, <2>4 DEF Shape
<1>13. \A a \in q.lines : LineAt(k, a, q.number[a], q.body[a])
  <2> SUFFICES ASSUME NEW a \in q.lines PROVE LineAt(k, a, q.number[a], q.body[a])
    OBVIOUS
  <2>1. CASE a < t
    <3>1. /\ a \in p.lines /\ q.body[a] = p.body[a] /\ q.number[a] = p.number[a]
      BY <1>9, <2>1
    <3>2. PICK s \in Nat : s = LineSize(p.body[a])
      BY <1>1, <3>1, BodyTypes
    <3>3. a + s <= t
      BY <2>1, <3>1, <3>2 DEF Holds, Shape
    <3>4. \A c \in Addrs : a <= c /\ c < a + LineSize(p.body[a]) => k[c + 0] = m[c]
      <4> SUFFICES ASSUME NEW c \in Addrs, a <= c, c < a + s PROVE k[c + 0] = m[c]
        BY <3>2
      <4>1. c \in Nat /\ c < t /\ c + 0 = c
        BY <1>1, <1>6, <1>10, <3>2, <3>3
      <4> QED
        BY <4>1
    <3>5. LineAt(k, a + 0, p.number[a], p.body[a])
      BY <3>1, <3>4, Moved
    <3>6. a + 0 = a
      BY <1>10
    <3> QED
      BY <3>1, <3>5, <3>6
  <2>2. CASE ~(a < t)
    <3>1. /\ a + d \in p.lines /\ q.body[a] = p.body[a + d] /\ q.number[a] = p.number[a + d]
          /\ a + d > t
      BY <1>9, <2>2
    <3>2. PICK s \in Nat : s = LineSize(p.body[a + d])
      BY <1>1, <3>1, BodyTypes
    <3>3. a + d + s <= p.end
      BY <3>1, <3>2 DEF Holds, Shape
    <3>4. \A c \in Addrs : a + d <= c /\ c < (a + d) + LineSize(p.body[a + d]) => k[c + (-d)] = m[c]
      <4> SUFFICES ASSUME NEW c \in Addrs, a + d <= c, c < (a + d) + s PROVE k[c + (-d)] = m[c]
        BY <3>2
      <4>1. c \in Nat /\ t + d <= c /\ c <= p.end /\ c + (-d) = c - d
        BY <1>1, <1>2, <1>6, <1>10, <2>2, <3>2, <3>3
      <4> QED
        BY <4>1
    <3>5. -d \in Int
      BY <1>2
    <3>6. LineAt(k, (a + d) + (-d), p.number[a + d], p.body[a + d])
      BY <3>1, <3>4, <3>5, Moved
    <3>7. (a + d) + (-d) = a
      BY <1>2, <1>10
    <3> QED
      BY <3>1, <3>6, <3>7
  <2> QED
    BY <2>1, <2>2
<1>14. k[q.end] = 0
  <2>1. t + d <= p.end /\ p.end \in Addrs /\ p.end <= p.end /\ m[p.end] = 0
    BY <1>1, <1>6 DEF Holds
  <2> QED
    BY <1>3, <2>1
<1>15. Holds(k, q)
  BY <1>12, <1>13, <1>14 DEF Holds
<1>16. \A a \in p.lines : a # t => p.number[a] # p.number[t]
  <2> SUFFICES ASSUME NEW a \in p.lines, a # t PROVE p.number[a] # p.number[t]
    OBVIOUS
  <2>0. a \in Nat /\ p.number[a] \in Nat /\ p.number[t] \in Nat
    BY <1>1
  <2>1. a < t \/ t < a
    BY <1>6, <2>0
  <2>2. /\ a < t => p.number[a] < p.number[t]
        /\ t < a => p.number[t] < p.number[a]
    BY DEF Holds, Shape
  <2> QED
    BY <2>0, <2>1, <2>2
<1>17. \A a \in q.lines : q.number[a] # p.number[t]
  <2> SUFFICES ASSUME NEW a \in q.lines PROVE q.number[a] # p.number[t]
    OBVIOUS
  <2>1. CASE a < t
    BY <1>6, <1>9, <1>10, <1>16, <2>1
  <2>2. CASE ~(a < t)
    <3>1. a + d # t
      BY <1>2, <1>6, <1>9, <1>10, <2>2
    <3> QED
      BY <1>9, <1>16, <2>2, <3>1
  <2> QED
    BY <2>1, <2>2
<1>18. ASSUME NEW l, Lists(l, p) PROVE Lists([l EXCEPT ![p.number[t]] = <<>>], q)
  <2> DEFINE r == [l EXCEPT ![p.number[t]] = <<>>]
  <2>1. /\ l \in [Numbers -> Bodies] /\ r \in [Numbers -> Bodies]
        /\ \A n \in Numbers : r[n] = IF n = p.number[t] THEN <<>> ELSE l[n]
    BY <1>1, <1>18, BodiesAssumption DEF Lists
  <2> HIDE DEF r
  <2>2. ASSUME NEW a \in q.lines PROVE r[q.number[a]] = q.body[a]
    <3>1. q.number[a] \in Numbers
      BY <1>12 DEF Shape
    <3>2. r[q.number[a]] = l[q.number[a]]
      BY <1>17, <2>1, <3>1
    <3> QED
      BY <1>9, <1>18, <3>2 DEF Lists
  <2>3. ASSUME NEW n \in Numbers, \A a \in q.lines : q.number[a] # n PROVE r[n] = <<>>
    <3> SUFFICES ASSUME n # p.number[t] PROVE l[n] = <<>>
      BY <2>1
    <3>1. ASSUME NEW a \in p.lines, p.number[a] = n PROVE FALSE
      <4>0. a \in Nat
        BY <1>1
      <4>1. CASE a < t
        BY <1>3, <1>9, <2>3, <3>1, <4>1
      <4>2. CASE a > t
        <5>1. a - d \in q.lines /\ ~(a - d < t) /\ (a - d) + d = a
          BY <1>2, <1>3, <1>6, <1>7, <4>0, <4>2
        <5>2. q.number[a - d] = n
          BY <1>9, <3>1, <5>1
        <5> QED
          BY <2>3, <5>1, <5>2
      <4>3. CASE a = t
        BY <3>1, <4>3
      <4> QED
        BY <1>6, <4>0, <4>1, <4>2, <4>3
    <3> QED
      BY <1>18, <3>1 DEF Lists
  <2> QED
    BY <2>1, <2>2, <2>3 DEF Lists, r
<1> QED
  BY <1>3, <1>15, <1>17, <1>18 DEF q

\* With a line of number n at t; those from t on are further up.
With(p, t, n, body) ==
  LET d == LineSize(body)
      lines == {a \in p.lines : a < t} \cup {t}
                 \cup {a + d : a \in {b \in p.lines : b >= t}}
  IN  [lines |-> lines, end |-> p.end + d,
       number |-> [a \in lines |-> IF a < t THEN p.number[a]
                                   ELSE IF a = t THEN n ELSE p.number[a - d]],
       body |-> [a \in lines |-> IF a < t THEN p.body[a]
                                 ELSE IF a = t THEN body ELSE p.body[a - d]]]

LEMMA WithHolds ==
  ASSUME NEW m, NEW p, Holds(m, p), NEW t \in p.lines \cup {p.end},
         NEW n \in Numbers, NEW body \in Bodies, NEW k \in [Addrs -> Word],
         NEW d, d = LineSize(body), p.end + d <= MemLast,
         \A a \in p.lines : a < t => p.number[a] < n,
         \A a \in p.lines : a >= t => n < p.number[a],
         \A a \in Addrs : a < t => k[a] = m[a],
         \A a \in Addrs : t <= a /\ a <= p.end => k[a + d] = m[a],
         LineAt(k, t, n, body)
  PROVE  /\ Holds(k, With(p, t, n, body)) /\ With(p, t, n, body).end = p.end + d
         /\ \A l : Lists(l, p) => Lists([l EXCEPT ![n] = body], With(p, t, n, body))
         /\ \A a \in With(p, t, n, body).lines :
              \/ With(p, t, n, body).number[a] = n
              \/ \E b \in p.lines : With(p, t, n, body).number[a] = p.number[b]
<1> DEFINE q == With(p, t, n, body)
<1>1. /\ p.lines \subseteq Addrs /\ p.end \in Addrs /\ Addrs \subseteq Nat
      /\ \A a \in p.lines : p.number[a] \in Numbers /\ p.body[a] \in Bodies
      /\ \A a \in p.lines : p.number[a] \in Nat
      /\ n \in Nat
  <2>1. \A i \in Numbers : i \in Nat
    BY LineEditorAssumption
  <2> QED
    BY <2>1, AddrTypes DEF Holds, Shape
<1>2. PICK h \in Nat : d = 2 * h /\ h >= 3
  <2>1. Len(body) \in Nat /\ d = 2 * (Len(body) + 3)
    BY BodyTypes
  <2>2. Len(body) + 3 \in Nat /\ Len(body) + 3 >= 3
    BY <2>1
  <2> QED
    BY <2>1, <2>2
<1>3. /\ q.end = p.end + d /\ t \in q.lines
      /\ \A a \in q.lines : \/ a \in p.lines /\ a < t
                            \/ a = t
                            \/ \E b \in p.lines : b >= t /\ a = b + d
      /\ \A a \in p.lines : /\ a < t => a \in q.lines
                            /\ a >= t => a + d \in q.lines
  BY DEF With
<1>4. q.number = [a \in q.lines |-> IF a < t THEN p.number[a]
                                    ELSE IF a = t THEN n ELSE p.number[a - d]]
  BY DEF With
<1>5. q.body = [a \in q.lines |-> IF a < t THEN p.body[a]
                                  ELSE IF a = t THEN body ELSE p.body[a - d]]
  BY DEF With
<1> HIDE DEF q
<1>6. t \in Addrs /\ t \in Nat /\ p.end \in Nat /\ t <= p.end
  <2>1. t \in Addrs /\ t \in Nat /\ p.end \in Nat
    BY <1>1
  <2>2. CASE t \in p.lines
    BY <2>1, <2>2, LinkFacts
  <2>3. CASE t = p.end
    BY <2>1, <2>3
  <2> QED
    BY <2>1, <2>2, <2>3
<1>7. \A a \in p.lines : a \in Nat
  BY <1>1
<1>8. \A a \in q.lines : \/ a \in p.lines /\ a < t /\ a \in Nat
                         \/ a = t /\ a \in Nat
                         \/ a - d \in p.lines /\ a - d >= t /\ a > t /\ a \in Nat
  <2> SUFFICES ASSUME NEW a \in q.lines
               PROVE  \/ a \in p.lines /\ a < t /\ a \in Nat
                      \/ a = t /\ a \in Nat
                      \/ a - d \in p.lines /\ a - d >= t /\ a > t /\ a \in Nat
    OBVIOUS
  <2>1. CASE a \in p.lines /\ a < t
    BY <1>7, <2>1
  <2>2. CASE a = t
    BY <1>6, <2>2
  <2>3. CASE \E b \in p.lines : b >= t /\ a = b + d
    <3>1. PICK b \in p.lines : b >= t /\ a = b + d
      BY <2>3
    <3>2. b \in Nat
      BY <1>7
    <3>3. a \in Nat /\ a > t /\ a - d = b
      BY <1>2, <1>6, <3>1, <3>2
    <3> QED
      BY <3>1, <3>3
  <2> QED
    BY <1>3, <2>1, <2>2, <2>3
<1>9. \A a \in q.lines :
        /\ a < t => a \in p.lines /\ q.number[a] = p.number[a] /\ q.body[a] = p.body[a]
        /\ a = t => q.number[a] = n /\ q.body[a] = body
        /\ a > t => /\ a - d \in p.lines /\ a - d >= t
                    /\ q.number[a] = p.number[a - d] /\ q.body[a] = p.body[a - d]
  <2> SUFFICES ASSUME NEW a \in q.lines
      PROVE /\ a < t => a \in p.lines /\ q.number[a] = p.number[a] /\ q.body[a] = p.body[a]
            /\ a = t => q.number[a] = n /\ q.body[a] = body
            /\ a > t => /\ a - d \in p.lines /\ a - d >= t
                        /\ q.number[a] = p.number[a - d] /\ q.body[a] = p.body[a - d]
    OBVIOUS
  <2>1. /\ q.number[a] = IF a < t THEN p.number[a] ELSE IF a = t THEN n ELSE p.number[a - d]
        /\ q.body[a] = IF a < t THEN p.body[a] ELSE IF a = t THEN body ELSE p.body[a - d]
    BY <1>4, <1>5
  <2>2. /\ a < t => a \in p.lines
        /\ a > t => a - d \in p.lines /\ a - d >= t
        /\ a \in Nat
    BY <1>6, <1>8
  <2>3. ~(t < t) /\ (a > t => ~(a < t) /\ a # t)
    BY <1>6, <2>2
  <2> QED
    BY <2>1, <2>2, <2>3
<1>10. q.lines \subseteq Addrs /\ q.end \in Addrs /\ \A a \in q.lines : a \in Nat
  <2>1. ASSUME NEW b \in Addrs, b <= p.end PROVE b + d \in Addrs
    <3>1. b \in Nat /\ ProgramStart \in Nat /\ ProgramStart <= b
      BY <1>1, AddrTypes
    <3>2. /\ h \in Int /\ b + 2 * h = b + d /\ ProgramStart <= b + 2 * h /\ b + 2 * h <= MemLast
      BY <1>2, <1>6, <2>1, <3>1, LineEditorAssumption
    <3>3. b + 2 * h \in Addrs
      BY <3>2, AddrFacts
    <3> QED
      BY <3>2, <3>3
  <2>2. p.end + d \in Addrs
    BY <1>1, <1>6, <2>1
  <2>3. ASSUME NEW a \in q.lines PROVE a \in Addrs
    <3>1. CASE a \in p.lines
      BY <1>1, <3>1
    <3>2. CASE a = t
      BY <1>6, <3>2
    <3>3. CASE a - d \in p.lines /\ a \in Nat
      <4>1. a - d \in Addrs /\ a - d <= p.end /\ (a - d) + d = a
        <5>1. a - d < p.end
          BY <3>3, LinkFacts
        <5>2. a - d \in Addrs /\ (a - d) + d = a
          BY <1>1, <1>2, <3>3
        <5> QED
          BY <1>2, <1>6, <3>3, <5>1, <5>2
      <4>2. (a - d) + d \in Addrs
        BY <2>1, <4>1
      <4> QED
        BY <4>1, <4>2
    <3> QED
      BY <1>8, <3>1, <3>2, <3>3
  <2> QED
    BY <1>1, <1>3, <2>2, <2>3
<1>11. t + d \in q.lines \cup {q.end}
  <2>1. CASE t \in p.lines
    BY <1>3, <1>6, <2>1
  <2>2. CASE t = p.end
    BY <1>3, <2>2
  <2> QED
    BY <2>1, <2>2
<1>12. Shape(q)
  <2>1. q.number \in [q.lines -> Numbers] /\ q.body \in [q.lines -> Bodies]
    <3>1. \A a \in q.lines : q.number[a] \in Numbers /\ q.body[a] \in Bodies
      <4> SUFFICES ASSUME NEW a \in q.lines
                   PROVE  q.number[a] \in Numbers /\ q.body[a] \in Bodies
        OBVIOUS
      <4>1. a < t \/ a = t \/ a > t
        BY <1>6, <1>10
      <4> QED
        BY <1>1, <1>9, <4>1
    <3> QED
      BY <1>4, <1>5, <3>1
  <2>2. ProgramStart \in q.lines \cup {q.end}
    <3>1. ProgramStart <= t /\ ProgramStart \in Nat
      BY <1>6, AddrTypes
    <3>2. CASE ProgramStart = t
      BY <1>3, <3>2
    <3>3. CASE ProgramStart < t
      <4>1. ProgramStart # p.end
        BY <1>6, <3>1, <3>3
      <4> QED
        BY <1>3, <3>3, <4>1 DEF Holds, Shape
    <3> QED
      BY <1>6, <3>1, <3>2, <3>3
  <2>3. ASSUME NEW a \in q.lines
        PROVE  /\ a + LineSize(q.body[a]) \in q.lines \cup {q.end}
               /\ a + LineSize(q.body[a]) <= q.end
    <3>1. CASE a < t
      <4>1. a \in p.lines /\ q.body[a] = p.body[a]
        BY <1>9, <3>1
      <4>2. PICK s \in Nat : s = LineSize(p.body[a])
        BY <1>1, <4>1, BodyTypes
      <4>3. /\ a + s \in p.lines \cup {p.end} /\ a + s <= t
        <5>1. /\ a + s \in p.lines \cup {p.end} /\ a + s <= p.end
          BY <4>1, <4>2 DEF Holds, Shape
        <5>2. CASE t \in p.lines
          BY <3>1, <4>1, <4>2, <5>1, <5>2 DEF Holds, Shape
        <5> QED
          BY <5>1, <5>2
      <4>4. a + s <= q.end
        BY <1>2, <1>3, <1>6, <1>10, <4>2, <4>3
      <4>5. a + s \in q.lines \cup {q.end}
        <5>1. CASE a + s = t
          BY <1>3, <5>1
        <5>2. CASE a + s < t
          <6>1. a + s # p.end
            BY <1>6, <5>2
          <6> QED
            BY <1>3, <4>3, <5>2, <6>1
        <5> QED
          BY <1>6, <1>10, <4>2, <4>3, <5>1, <5>2
      <4> QED
        BY <4>1, <4>2, <4>4, <4>5
    <3>2. CASE a = t
      <4>1. q.body[a] = body /\ a + d \in q.lines \cup {q.end}
        BY <1>9, <1>11, <3>2
      <4>2. a + d <= q.end
        BY <1>2, <1>3, <1>6, <3>2
      <4> QED
        BY <4>1, <4>2
    <3>3. CASE a > t
      <4>1. /\ a - d \in p.lines /\ q.body[a] = p.body[a - d] /\ a - d >= t
        BY <1>9, <3>3
      <4>2. PICK s \in Nat : s = LineSize(p.body[a - d]) /\ s >= 6
        BY <1>1, <4>1, BodyTypes
      <4>3. /\ a - d + s \in p.lines \cup {p.end} /\ a - d + s <= p.end
        BY <4>1, <4>2 DEF Holds, Shape
      <4>4. a + s <= q.end /\ a + s = (a - d + s) + d /\ a - d + s >= t
        BY <1>2, <1>3, <1>6, <1>10, <4>1, <4>2, <4>3
      <4>5. a + s \in q.lines \cup {q.end}
        BY <1>3, <4>3, <4>4
      <4> QED
        BY <4>1, <4>2, <4>4, <4>5
    <3>4. a < t \/ a = t \/ a > t
      BY <1>6, <1>10
    <3> QED
      BY <3>1, <3>2, <3>3, <3>4
  <2>4. ASSUME NEW a \in q.lines, NEW b \in q.lines, a < b
        PROVE  a + LineSize(q.body[a]) <= b /\ q.number[a] < q.number[b]
    <3>1. a \in Nat /\ b \in Nat
      BY <1>10
    <3>2. CASE a < t
      <4>1. a \in p.lines /\ q.body[a] = p.body[a] /\ q.number[a] = p.number[a]
        BY <1>9, <3>2
      <4>2. PICK s \in Nat : s = LineSize(p.body[a])
        BY <1>1, <4>1, BodyTypes
      <4>3. a + s <= t
        <5>1. a + s <= p.end
          BY <4>1, <4>2 DEF Holds, Shape
        <5>2. CASE t \in p.lines
          BY <3>2, <4>1, <4>2, <5>2 DEF Holds, Shape
        <5> QED
          BY <5>1, <5>2
      <4>4. p.number[a] < n
        BY <3>2, <4>1
      <4>5. CASE b < t
        BY <1>9, <2>4, <3>2, <4>5 DEF Holds, Shape
      <4>6. CASE b = t
        BY <1>9, <4>1, <4>2, <4>3, <4>4, <4>6
      <4>7. CASE b > t
        <5>1. b - d \in p.lines /\ b - d >= t /\ q.number[b] = p.number[b - d]
          BY <1>9, <4>7
        <5>2. n < p.number[b - d] /\ p.number[b - d] \in Nat /\ p.number[a] \in Nat
          BY <1>1, <4>1, <5>1
        <5>3. p.number[a] < p.number[b - d] /\ a + s <= b
          BY <1>1, <1>6, <3>1, <4>2, <4>3, <4>4, <4>7, <5>2
        <5> QED
          BY <4>1, <4>2, <5>1, <5>3
      <4> QED
        BY <1>6, <3>1, <4>5, <4>6, <4>7
    <3>3. CASE a = t
      <4>1. b > t
        BY <2>4, <3>3
      <4>2. b - d \in p.lines /\ b - d >= t /\ q.number[b] = p.number[b - d]
        BY <1>9, <4>1
      <4>3. n < p.number[b - d] /\ a + d <= b
        BY <1>2, <1>6, <3>1, <3>3, <4>2
      <4> QED
        BY <1>9, <3>3, <4>2, <4>3
    <3>4. CASE a > t
      <4>0. b > t
        BY <1>6, <2>4, <3>1, <3>4
      <4>1. /\ a - d \in p.lines /\ b - d \in p.lines /\ q.body[a] = p.body[a - d]
            /\ q.number[a] = p.number[a - d] /\ q.number[b] = p.number[b - d]
        BY <1>9, <3>4, <4>0
      <4>2. PICK s \in Nat : s = LineSize(p.body[a - d])
        BY <1>1, <4>1, BodyTypes
      <4>3. a - d < b - d
        BY <1>2, <2>4, <3>1
      <4>4. a - d + s <= b - d /\ p.number[a - d] < p.number[b - d]
        BY <4>1, <4>2, <4>3 DEF Holds, Shape
      <4>5. a + s <= b
        BY <1>2, <3>1, <4>2, <4>4
      <4> QED
        BY <4>1, <4>2, <4>4, <4>5
    <3> QED
      BY <1>6, <3>1, <3>2, <3>3, <3>4
  <2> QED
    BY <1>10, <2>1, <2>2, <2>3, <2>4 DEF Shape
<1>13. \A a \in q.lines : LineAt(k, a, q.number[a], q.body[a])
  <2> SUFFICES ASSUME NEW a \in q.lines PROVE LineAt(k, a, q.number[a], q.body[a])
    OBVIOUS
  <2>1. CASE a < t
    <3>1. /\ a \in p.lines /\ q.body[a] = p.body[a] /\ q.number[a] = p.number[a]
      BY <1>9, <2>1
    <3>2. PICK s \in Nat : s = LineSize(p.body[a])
      BY <1>1, <3>1, BodyTypes
    <3>3. a + s <= t
      <4>1. a + s <= p.end
        BY <3>1, <3>2 DEF Holds, Shape
      <4>2. CASE t \in p.lines
        BY <2>1, <3>1, <3>2, <4>2 DEF Holds, Shape
      <4> QED
        BY <4>1, <4>2
    <3>4. \A c \in Addrs : a <= c /\ c < a + LineSize(p.body[a]) => k[c + 0] = m[c]
      <4> SUFFICES ASSUME NEW c \in Addrs, a <= c, c < a + s PROVE k[c + 0] = m[c]
        BY <3>2
      <4>1. c \in Nat /\ c < t /\ c + 0 = c
        BY <1>1, <1>6, <1>10, <3>2, <3>3
      <4> QED
        BY <4>1
    <3>5. LineAt(k, a + 0, p.number[a], p.body[a])
      BY <3>1, <3>4, Moved
    <3>6. a + 0 = a
      BY <1>10
    <3> QED
      BY <3>1, <3>5, <3>6
  <2>2. CASE a = t
    BY <1>9, <2>2
  <2>3. CASE a > t
    <3>1. /\ a - d \in p.lines /\ q.body[a] = p.body[a - d] /\ q.number[a] = p.number[a - d]
          /\ a - d >= t
      BY <1>9, <2>3
    <3>2. PICK s \in Nat : s = LineSize(p.body[a - d])
      BY <1>1, <3>1, BodyTypes
    <3>3. a - d + s <= p.end
      BY <3>1, <3>2 DEF Holds, Shape
    <3>4. \A c \in Addrs : a - d <= c /\ c < (a - d) + LineSize(p.body[a - d]) => k[c + d] = m[c]
      <4> SUFFICES ASSUME NEW c \in Addrs, a - d <= c, c < (a - d) + s PROVE k[c + d] = m[c]
        BY <3>2
      <4>1. c \in Nat /\ t <= c /\ c <= p.end
        BY <1>1, <1>2, <1>6, <1>10, <3>1, <3>2, <3>3
      <4> QED
        BY <4>1
    <3>5. d \in Int
      BY <1>2
    <3>6. LineAt(k, (a - d) + d, p.number[a - d], p.body[a - d])
      BY <3>1, <3>4, <3>5, Moved
    <3>7. (a - d) + d = a
      BY <1>2, <1>10
    <3> QED
      BY <3>1, <3>6, <3>7
  <2> QED
    BY <1>6, <1>10, <2>1, <2>2, <2>3
<1>14. k[q.end] = 0
  <2>1. t <= p.end /\ p.end \in Addrs /\ p.end <= p.end /\ m[p.end] = 0
    BY <1>1, <1>6 DEF Holds
  <2> QED
    BY <1>3, <2>1
<1>15. Holds(k, q)
  BY <1>12, <1>13, <1>14 DEF Holds
<1>16. ASSUME NEW l, Lists(l, p) PROVE Lists([l EXCEPT ![n] = body], q)
  <2> DEFINE r == [l EXCEPT ![n] = body]
  <2>1. /\ l \in [Numbers -> Bodies] /\ r \in [Numbers -> Bodies]
        /\ \A i \in Numbers : r[i] = IF i = n THEN body ELSE l[i]
    BY <1>16 DEF Lists
  <2> HIDE DEF r
  <2>2. \A a \in p.lines : p.number[a] # n
    <3>1. \A a \in p.lines : a < t \/ a >= t
      BY <1>6, <1>7
    <3> QED
      BY <1>1, <3>1
  <2>3. ASSUME NEW a \in q.lines PROVE r[q.number[a]] = q.body[a]
    <3>1. q.number[a] \in Numbers
      BY <1>12 DEF Shape
    <3>2. CASE a = t
      BY <1>9, <2>1, <3>1, <3>2
    <3>3. CASE a # t
      <4>1. a < t \/ a > t
        BY <1>6, <1>10, <3>3
      <4>2. \E b \in p.lines : q.number[a] = p.number[b] /\ q.body[a] = p.body[b]
        BY <1>9, <4>1
      <4> QED
        BY <1>16, <2>1, <2>2, <3>1, <4>2 DEF Lists
    <3> QED
      BY <3>2, <3>3
  <2>4. ASSUME NEW i \in Numbers, \A a \in q.lines : q.number[a] # i PROVE r[i] = <<>>
    <3>1. i # n
      BY <1>3, <1>9, <2>4
    <3>2. ASSUME NEW a \in p.lines, p.number[a] = i PROVE FALSE
      <4>1. a \in Nat
        BY <1>7
      <4>2. CASE a < t
        BY <1>3, <1>9, <2>4, <3>2, <4>2
      <4>3. CASE a >= t
        <5>1. a + d \in q.lines /\ a + d > t /\ (a + d) - d = a
          BY <1>2, <1>3, <1>6, <4>1, <4>3
        <5>2. q.number[a + d] = i
          BY <1>9, <3>2, <5>1
        <5> QED
          BY <2>4, <5>1, <5>2
      <4> QED
        BY <1>6, <4>1, <4>2, <4>3
    <3> QED
      BY <1>16, <2>1, <3>1, <3>2 DEF Lists
  <2> QED
    BY <2>1, <2>3, <2>4 DEF Lists, r
<1>17. \A a \in q.lines : q.number[a] = n \/ \E b \in p.lines : q.number[a] = p.number[b]
  <2>1. \A a \in q.lines : a < t \/ a = t \/ a > t
    BY <1>6, <1>10
  <2> QED
    BY <1>9, <2>1
<1> QED
  BY <1>3, <1>15, <1>16, <1>17 DEF q

-----------------------------------------------------------------------------
(* The inductive invariant: what is in memory at each place of the editor.  *)
(* p is the program that is being edited, m the memory before it is moved.  *)

Entered == buffer.number \in Numbers
\* The line that is entered can be put in (the bound of TypeLine).
Room(p) == p.end + LineSize(buffer.code) + 4 <= MemLast
\* The program no longer has the line; it is otherwise as it was listed.
Rest(p) ==
  /\ \A a \in p.lines : p.number[a] # buffer.number
  /\ Lists([listing EXCEPT ![buffer.number] = <<>>], p)
\* The place of the line, and the new one's number.
Splits(p, t) ==
  /\ t \in p.lines \cup {p.end}
  /\ \A a \in p.lines : a < t => p.number[a] < buffer.number
  /\ \A a \in p.lines : a >= t => buffer.number < p.number[a]

Prompt(p) ==
  /\ Holds(mem, p) /\ Lists(listing, p) /\ p.end + 4 <= MemLast
  /\ low = p.end + 6 /\ mem[p.end + 2] = EndMarker /\ mem[p.end + 4] = EndMarker
  /\ pc = "host" => \A a \in p.lines : p.number[a] <= lastLine

Search(p) ==
  /\ Entered /\ Holds(mem, p) /\ Lists(listing, p) /\ Room(p)
  /\ y \in p.lines \cup {p.end}
  /\ \A a \in p.lines : a < y => p.number[a] # buffer.number

\* The words from t2 + y on are still to be copied, those before are at t1.
Copy(m, p) ==
  /\ Entered /\ Holds(m, p) /\ Lists(listing, p) /\ Room(p)
  /\ t1 \in p.lines /\ p.number[t1] = buffer.number
  /\ t2 = t1 + LineSize(p.body[t1])
  /\ t2 + y \in Addrs /\ t2 + y <= p.end /\ x = p.end - (t2 + y) + 2
  /\ \A a \in Addrs : a < t1 => mem[a] = m[a]
  /\ \A a \in Addrs : t2 <= a /\ a < t2 + y => mem[a - LineSize(p.body[t1])] = m[a]
  /\ \A a \in Addrs : t1 + y <= a => mem[a] = m[a]

Ready(p) == Entered /\ Holds(mem, p) /\ Room(p) /\ Rest(p)

\* The length is counted from token to token.
Length(p) ==
  /\ Ready(p) /\ t1 = 0 /\ t2 = buffer.number
  /\ \E at \in SUBSET (1..(Len(buffer.code) + 1)) :
       Tokenised(buffer.code, at) /\ \E j \in at : y = 2 * (j - 1)

Find(p) ==
  /\ Ready(p) /\ t1 = 0 /\ t2 = buffer.number /\ t3 = LineSize(buffer.code)
  /\ y \in p.lines \cup {p.end}
  /\ \A a \in p.lines : a < y => p.number[a] < t2

\* The words above t4 are moved up by the size of the line.
Move(m, p) ==
  /\ Entered /\ Holds(m, p) /\ Room(p) /\ Rest(p) /\ Splits(p, t5)
  /\ t1 = 0 /\ t2 = buffer.number /\ t3 = LineSize(buffer.code)
  /\ t4 \in Addrs /\ t5 <= t4 /\ t4 <= p.end /\ t4b = t4 + t3
  /\ \A a \in Addrs : a <= t4b => mem[a] = m[a]
  /\ \A a \in Addrs : t4 < a /\ a <= p.end => mem[a + LineSize(buffer.code)] = m[a]

\* There is a gap at t5.
Opened(m, p) ==
  /\ Entered /\ Holds(m, p) /\ Room(p) /\ Rest(p) /\ Splits(p, t5)
  /\ t2 = buffer.number
  /\ \A a \in Addrs : a < t5 => mem[a] = m[a]
  /\ \A a \in Addrs : t5 <= a /\ a <= p.end => mem[a + LineSize(buffer.code)] = m[a]

Header(m, p) == Opened(m, p) /\ t1 = 0 /\ t3 = LineSize(buffer.code)

Tokens(m, p) ==
  /\ Opened(m, p)
  /\ mem[t5] = LineSize(buffer.code) /\ mem[t5 + 2] = t2
  /\ y = t1 + 4 /\ t3 = LineSize(buffer.code) - t1
  /\ \E i \in 0..Len(buffer.code) :
       t1 = 2 * i /\ \A j \in 1..i : mem[t5 + 2 + 2 * j] = buffer.code[j]

Complete(p) ==
  /\ Entered /\ Holds(mem, p) /\ p.end + 4 <= MemLast
  /\ Lists([listing EXCEPT ![buffer.number] = buffer.code], p)

Inv ==
  /\ TypeOK
  /\ pc \in {"host", "next"} => \E p : Prompt(p)
  /\ pc = "ldLoop" => \E p : Search(p)
  /\ pc = "ldCopy" => \E m, p : Copy(m, p)
  /\ pc = "deleted" => \E p : Ready(p)
  /\ pc = "liLength" => \E p : Length(p)
  /\ pc = "liFind" => \E p : Find(p)
  /\ pc = "liMove" => \E m, p : Move(m, p)
  /\ pc = "liHeader" => \E m, p : Header(m, p)
  /\ pc = "liTokens" => \E m, p : Tokens(m, p)
  /\ pc = "inserted" => \E p : Complete(p)

\* What the types say of the variables one by one.
Types ==
  /\ mem \in [Addrs -> Word] /\ low \in Nat
  /\ buffer.number \in Numbers \cup {0} /\ buffer.code \in Bodies
  /\ x \in Nat /\ y \in Nat /\ t1 \in Nat /\ t2 \in Nat /\ t3 \in Nat
  /\ t4 \in Nat /\ t4b \in Nat /\ t5 \in Nat
  /\ lastLine \in Nat /\ listing \in [Numbers -> Bodies]
Places == {"host", "next", "ldLoop", "ldCopy", "deleted", "liLength",
           "liFind", "liMove", "liHeader", "liTokens", "inserted"}

LEMMA TypeParts == TypeOK <=> Types /\ pc \in Places
<1>1. <<x, y, t1, t2, t3, t4, t4b, t5>> \in [1..8 -> Nat] <=>
        /\ x \in Nat /\ y \in Nat /\ t1 \in Nat /\ t2 \in Nat /\ t3 \in Nat
        /\ t4 \in Nat /\ t4b \in Nat /\ t5 \in Nat
  <2> DEFINE r == <<x, y, t1, t2, t3, t4, t4b, t5>>
  <2>1. ASSUME r \in [1..8 -> Nat]
        PROVE  \A i \in 1..8 : r[i] \in Nat
    <3> HIDE DEF r
    <3> QED
      BY <2>1
  <2>2. ASSUME \A i \in 1..8 : r[i] \in Nat
        PROVE  r \in [1..8 -> Nat]
    <3>1. r = [i \in 1..8 |-> r[i]]
      OBVIOUS
    <3> HIDE DEF r
    <3> QED
      BY <2>2, <3>1
  <2>3. (\A i \in 1..8 : r[i] \in Nat) <=>
          r[1] \in Nat /\ r[2] \in Nat /\ r[3] \in Nat /\ r[4] \in Nat
          /\ r[5] \in Nat /\ r[6] \in Nat /\ r[7] \in Nat /\ r[8] \in Nat
    <3> HIDE DEF r
    <3>1. \A i \in 1..8 : i = 1 \/ i = 2 \/ i = 3 \/ i = 4 \/ i = 5 \/ i = 6 \/ i = 7 \/ i = 8
      OBVIOUS
    <3> QED
      BY <3>1
  <2>4. /\ r[1] = x /\ r[2] = y /\ r[3] = t1 /\ r[4] = t2 /\ r[5] = t3
        /\ r[6] = t4 /\ r[7] = t4b /\ r[8] = t5
    OBVIOUS
  <2> HIDE DEF r
  <2>5. r \in [1..8 -> Nat] <=>
          /\ x \in Nat /\ y \in Nat /\ t1 \in Nat /\ t2 \in Nat /\ t3 \in Nat
          /\ t4 \in Nat /\ t4b \in Nat /\ t5 \in Nat
    BY <2>1, <2>2, <2>3, <2>4
  <2> QED
    BY <2>5 DEF r
<1> QED
  BY <1>1 DEF TypeOK, Types, Places

LEMMA NumberType == Numbers \subseteq Word /\ Numbers \subseteq Nat \ {0} /\ EndMarker \in Word
<1>1. /\ MaxNumber \in Nat /\ MaxWord \in Nat /\ MaxNumber <= MaxWord
      /\ EndMarker \in Nat /\ EndMarker <= MaxWord
  BY DEF MaxNumber, MaxWord, EndMarker
<1>2. \A n \in 1..MaxNumber : n \in 0..MaxWord /\ n \in Nat \ {0}
  BY <1>1
<1>3. EndMarker \in 0..MaxWord
  BY <1>1
<1> QED
  BY <1>2, <1>3, LineEditorAssumption DEF Word

\* The two markers are behind the end of the program.
LEMMA MarkedHolds ==
  ASSUME NEW m, NEW p, Holds(m, p), p.end + 4 <= MemLast
  PROVE  /\ Holds(Marked(m, p.end), p) /\ Marked(m, p.end) \in [Addrs -> Word]
         /\ Marked(m, p.end)[p.end + 2] = EndMarker
         /\ Marked(m, p.end)[p.end + 4] = EndMarker
<1>1. m \in [Addrs -> Word] /\ p.end \in Addrs /\ p.end \in Nat /\ \A a \in Addrs : a \in Nat
  BY AddrTypes DEF Holds, Shape
<1>2. p.end + 2 \in Addrs /\ p.end + 4 \in Addrs
  <2>1. ProgramStart \in Nat /\ ProgramStart <= p.end
    BY <1>1, AddrTypes
  <2>2. /\ 1 \in Int /\ p.end + 2 * 1 = p.end + 2 /\ p.end + 2 * 1 <= MemLast
        /\ 2 \in Int /\ p.end + 2 * 2 = p.end + 4 /\ p.end + 2 * 2 <= MemLast
        /\ ProgramStart <= p.end + 2 * 1 /\ ProgramStart <= p.end + 2 * 2
    BY <1>1, <2>1, LineEditorAssumption
  <2>3. p.end + 2 * 1 \in Addrs /\ p.end + 2 * 2 \in Addrs
    BY <1>1, <2>2, AddrFacts
  <2> QED
    BY <2>2, <2>3
<1> DEFINE k == [m EXCEPT ![p.end + 2] = EndMarker, ![p.end + 4] = EndMarker]
<1>3. /\ k \in [Addrs -> Word] /\ k[p.end + 2] = EndMarker /\ k[p.end + 4] = EndMarker
      /\ \A a \in Addrs : a # p.end + 2 /\ a # p.end + 4 => k[a] = m[a]
  BY <1>1, <1>2, NumberType
<1> HIDE DEF k
<1>4. \A a \in Addrs : a <= p.end => k[a] = m[a]
  <2>1. \A a \in Addrs : a <= p.end => a # p.end + 2 /\ a # p.end + 4
    BY <1>1
  <2> QED
    BY <1>3, <2>1
<1>5. Holds(k, p)
  BY <1>3, <1>4, Frame
<1> QED
  BY <1>3, <1>5 DEF Marked, k

LEMMA TypePartsNext == TypeOK' <=> Types' /\ (pc \in Places)'
BY TypeParts, PTL

LEMMA BootStep ==
  ASSUME Inv, Boot
  PROVE  Inv'
<1>1. pc = "host" /\ pc' = "next" /\ UNCHANGED <<memory, buffer, temps, lastLine, listing>>
  BY DEF Boot
<1>2. PICK p : Prompt(p)
  BY <1>1 DEF Inv
<1>3. Prompt(p)'
  BY <1>1, <1>2 DEF Prompt, memory
<1>4. TypeOK'
  <2>1. Types
    BY TypeParts DEF Inv
  <2>2. Types'
    BY <1>1, <2>1 DEF Types, memory, temps
  <2> QED
    BY <1>1, <2>2, TypePartsNext DEF Places
<1> QED
  BY <1>1, <1>3, <1>4 DEF Inv

LEMMA TypeLineZeroStep ==
  ASSUME Inv, NEW body \in Bodies, TypeLineZero(body)
  PROVE  Inv'
<1>1. /\ pc = "next" /\ buffer' = [number |-> 0, code |-> body]
      /\ UNCHANGED <<memory, pc, temps, lastLine, listing>>
  BY DEF TypeLineZero
<1>2. PICK p : Prompt(p)
  BY <1>1 DEF Inv
<1>3. Prompt(p)'
  BY <1>1, <1>2 DEF Prompt, memory
<1>4. TypeOK'
  <2>1. Types
    BY TypeParts DEF Inv
  <2>2. Types'
    BY <1>1, <2>1 DEF Types, memory, temps
  <2> QED
    BY <1>1, <2>2, TypePartsNext DEF Places
<1> QED
  BY <1>1, <1>3, <1>4 DEF Inv

LEMMA TypeLineStep ==
  ASSUME Inv, NEW n \in Numbers, NEW body \in Bodies, TypeLine(n, body)
  PROVE  Inv'
<1>1. /\ pc = "next" /\ Bounded(body)
      /\ buffer' = [number |-> n, code |-> body]
      /\ y' = ProgramStart /\ pc' = "ldLoop"
      /\ UNCHANGED <<memory, x, t1, t2, t3, t4, t4b, t5, lastLine, listing>>
  BY DEF TypeLine
<1>2. PICK p : Prompt(p)
  BY <1>1 DEF Inv
<1>3. Search(p)'
  <2>1. Holds(mem, p) /\ Lists(listing, p) /\ mem' = mem /\ listing' = listing
    BY <1>1, <1>2 DEF Prompt, memory
  <2>2. Entered' /\ buffer'.code = body
    BY <1>1 DEF Entered
  <2>3. Room(p)'
    BY <1>1, <2>1, <2>2, EndFound DEF Bounded, Room
  <2>4. y' \in p.lines \cup {p.end} /\ p.lines \subseteq Addrs
    BY <1>1, <2>1 DEF Holds, Shape
  <2>5. \A a \in p.lines : ~(a < y')
    <3>1. y' = ProgramStart /\ ProgramStart \in Nat
      BY <1>1, AddrFacts
    <3>2. \A a \in p.lines : a \in Nat /\ ProgramStart <= a
      BY <2>4, AddrTypes
    <3> QED
      BY <3>1, <3>2
  <2> QED
    BY <2>1, <2>2, <2>3, <2>4, <2>5 DEF Search
<1>4. TypeOK'
  <2>1. Types
    BY TypeParts DEF Inv
  <2>2. Types'
    BY <1>1, <2>1, AddrFacts DEF Types, memory
  <2> QED
    BY <1>1, <2>2, TypePartsNext DEF Places
<1> QED
  BY <1>1, <1>3, <1>4 DEF Inv

LEMMA DeleteSearchStep ==
  ASSUME Inv, DeleteSearch
  PROVE  Inv'
<1>1. pc = "ldLoop" /\ UNCHANGED <<memory, buffer, t3, t4, t4b, t5, lastLine, listing>>
  BY DEF DeleteSearch
<1>2. PICK p : Search(p)
  BY <1>1 DEF Inv
<1>3. Types
  BY TypeParts DEF Inv
<1>4. /\ Entered /\ Holds(mem, p) /\ Lists(listing, p) /\ Room(p)
      /\ y \in p.lines \cup {p.end}
      /\ \A a \in p.lines : a < y => p.number[a] # buffer.number
  BY <1>2 DEF Search
<1>5. /\ mem' = mem /\ listing' = listing /\ buffer' = buffer
      /\ Entered' /\ Holds(mem', p) /\ Lists(listing', p) /\ Room(p)'
  BY <1>1, <1>4 DEF memory, Entered, Room
<1>6. p.lines \subseteq Addrs /\ p.end \in Addrs /\ mem[p.end] = 0
  BY <1>4 DEF Holds, Shape
<1>7. CASE mem[y] = 0 /\ pc' = "deleted" /\ UNCHANGED <<x, y, t1, t2>>
  <2>1. y = p.end
    BY <1>4, <1>7, LinkFacts
  <2>2. \A a \in p.lines : p.number[a] # buffer.number
    BY <1>4, <2>1, LinkFacts
  <2>3. Lists([listing EXCEPT ![buffer.number] = <<>>], p)
    <3>1. listing[buffer.number] = <<>> /\ listing \in [Numbers -> Bodies]
      BY <1>4, <2>2 DEF Lists, Entered
    <3>2. [listing EXCEPT ![buffer.number] = <<>>] = listing
      BY <1>4, <3>1 DEF Entered
    <3> QED
      BY <1>4, <3>2
  <2>4. Ready(p)'
    BY <1>5, <2>2, <2>3 DEF Ready, Rest
  <2>5. Types'
    BY <1>1, <1>3, <1>7 DEF Types, memory
  <2> QED
    BY <1>7, <2>4, <2>5, TypePartsNext DEF Inv, Places
<1>8. CASE /\ mem[y] # 0 /\ mem[y + 2] = buffer.number
           /\ t1' = y /\ t2' = y + mem[y]
           /\ x' = FindCodeEnd(mem) - t2' + 2
           /\ y' = 0 /\ pc' = "ldCopy"
  <2>1. y \in p.lines
    BY <1>4, <1>6, <1>8
  <2>2. PICK d \in Nat : d = LineSize(p.body[y]) /\ d >= 6
    BY <1>4, <2>1, BodyTypes DEF Holds, Shape
  <2>3. /\ mem[y] = d /\ y + d \in Addrs /\ y + d <= p.end
        /\ p.number[y] = buffer.number
    <3>1. mem[y] = d /\ y + d \in Addrs
      BY <1>4, <2>1, <2>2, LinkFacts
    <3>2. y + d <= p.end
      BY <1>4, <2>1, <2>2 DEF Holds, Shape
    <3>3. p.number[y] = buffer.number
      BY <1>4, <1>8, <2>1 DEF Holds, LineAt
    <3> QED
      BY <3>1, <3>2, <3>3
  <2>4. \A a \in Addrs : a \in Nat
    BY AddrTypes
  <2>5. x' = p.end - (y + d) + 2 /\ x' \in Nat
    BY <1>4, <1>6, <1>8, <2>3, <2>4, EndFound
  <2>6. t2' + y' = y + d /\ t1' + y' = y
    BY <1>8, <2>1, <2>2, <2>3, <2>4, <1>6
  <2>7. \A a \in Addrs : ~(t2' <= a /\ a < t2' + y')
    BY <1>6, <1>8, <2>1, <2>2, <2>3, <2>4
  <2>8. Copy(mem, p)'
    BY <1>5, <1>8, <2>1, <2>2, <2>3, <2>5, <2>6, <2>7 DEF Copy
  <2>9. Types'
    BY <1>1, <1>3, <1>8, <2>3, <2>4, <2>5 DEF Types, memory
  <2> QED
    BY <1>8, <2>8, <2>9, TypePartsNext DEF Inv, Places
<1>9. CASE /\ mem[y] # 0 /\ mem[y + 2] # buffer.number
           /\ y' = y + mem[y] /\ UNCHANGED <<pc, x, t1, t2>>
  <2>1. y \in p.lines
    BY <1>4, <1>6, <1>9
  <2>2. y' \in p.lines \cup {p.end} /\ y' \in Addrs /\ y < y' /\ mem[y] = LineSize(p.body[y])
    BY <1>4, <1>9, <2>1, LinkFacts
  <2>3. p.number[y] # buffer.number
    BY <1>4, <1>9, <2>1 DEF Holds, LineAt
  <2>4. ASSUME NEW a \in p.lines, a < y' PROVE p.number[a] # buffer.number
    <3>1. a \in Nat /\ y \in Nat /\ y' \in Nat
      BY <1>6, <2>1, <2>2, AddrTypes
    <3>2. ~(y < a)
      <4>1. y < a => y' <= a
        BY <1>4, <1>9, <2>1, <2>2 DEF Holds, Shape
      <4> QED
        BY <2>4, <3>1, <4>1
    <3>3. a < y \/ a = y
      BY <3>1, <3>2
    <3> QED
      BY <1>4, <2>3, <3>3
  <2>5. Search(p)'
    BY <1>5, <2>2, <2>4 DEF Search
  <2>6. Types'
    BY <1>1, <1>3, <1>9, <2>2, AddrTypes DEF Types, memory
  <2> QED
    BY <1>1, <1>9, <2>5, <2>6, TypePartsNext DEF Inv, Places
<1> QED
  BY <1>7, <1>8, <1>9 DEF DeleteSearch

LEMMA DeleteCopyStep ==
  ASSUME Inv, DeleteCopy
  PROVE  Inv'
<1>1. /\ pc = "ldCopy" /\ mem' = [mem EXCEPT ![t1 + y] = mem[t2 + y]]
      /\ y' = y + 2 /\ x' = x - 2
      /\ pc' = IF x' = 0 THEN "deleted" ELSE "ldCopy"
      /\ UNCHANGED <<low, buffer, t1, t2, t3, t4, t4b, t5, lastLine, listing>>
  BY DEF DeleteCopy
<1>2. PICK m, p : Copy(m, p)
  BY <1>1 DEF Inv
<1>3. Types
  BY TypeParts DEF Inv
<1>4. /\ Entered /\ Holds(m, p) /\ Lists(listing, p) /\ Room(p)
      /\ t1 \in p.lines /\ p.number[t1] = buffer.number
  BY <1>2 DEF Copy
<1>5. PICK d \in Nat : d = LineSize(p.body[t1]) /\ d >= 6 /\ d = 2 * (d \div 2) /\ d \div 2 \in Nat
  <2>1. PICK b \in Bodies : b = p.body[t1]
    BY <1>4 DEF Holds, Shape
  <2>2. LineSize(b) \in Nat /\ LineSize(b) >= 6 /\ LineSize(b) = 2 * (Len(b) + 3) /\ Len(b) \in Nat
    BY BodyTypes
  <2> QED
    BY <2>1, <2>2
<1>6. /\ t2 = t1 + d /\ t2 + y \in Addrs /\ t2 + y <= p.end /\ x = p.end - (t2 + y) + 2
      /\ \A a \in Addrs : a < t1 => mem[a] = m[a]
      /\ \A a \in Addrs : t2 <= a /\ a < t2 + y => mem[a - d] = m[a]
      /\ \A a \in Addrs : t1 + y <= a => mem[a] = m[a]
  BY <1>2, <1>5 DEF Copy
<1>7. /\ Addrs \subseteq Nat /\ p.end \in Addrs /\ t1 \in Addrs /\ y \in Nat /\ t1 \in Nat
      /\ p.end \in Nat /\ t2 \in Nat /\ mem \in [Addrs -> Word] /\ m \in [Addrs -> Word]
  BY <1>3, <1>4, AddrTypes DEF Holds, Shape, Types
<1>8. t1 + y \in Addrs
  <2>1. t1 + y = (t2 + y) + 2 * (-(d \div 2)) /\ -(d \div 2) \in Int
    BY <1>5, <1>6, <1>7
  <2>2. ProgramStart <= t1 + y /\ t1 + y <= t2 + y
    <3>1. ProgramStart \in Nat /\ ProgramStart <= t1
      BY <1>7, AddrTypes
    <3> QED
      BY <1>6, <1>7, <3>1
  <2> QED
    BY <1>6, <2>1, <2>2, AddrStep
<1>9. mem' \in [Addrs -> Word] /\ mem'[t1 + y] = m[t2 + y]
      /\ \A a \in Addrs : a # t1 + y => mem'[a] = mem[a]
  <2>1. t1 + y <= t2 + y
    BY <1>5, <1>6, <1>7
  <2>2. mem[t2 + y] = m[t2 + y]
    BY <1>6, <2>1
  <2> QED
    BY <1>1, <1>6, <1>7, <1>8, <2>2
<1>10. \A a \in Addrs : a < t1 => mem'[a] = m[a]
  <2>1. \A a \in Addrs : a < t1 => a # t1 + y
    BY <1>7
  <2> QED
    BY <1>6, <1>9, <2>1
<1>11. \A a \in Addrs : t2 <= a /\ a < t2 + y + 2 => mem'[a - d] = m[a]
  <2> SUFFICES ASSUME NEW a \in Addrs, t2 <= a, a < t2 + y + 2 PROVE mem'[a - d] = m[a]
    OBVIOUS
  <2>1. a \in Nat
    BY <1>7
  <2>2. CASE a < t2 + y
    <3>1. a - d # t1 + y
      BY <1>5, <1>6, <1>7, <2>1, <2>2
    <3>2. a - d \in Addrs
      <4>1. a - d = a + 2 * (-(d \div 2)) /\ -(d \div 2) \in Int /\ a - d <= a /\ t1 <= a - d
        BY <1>5, <1>6, <1>7, <2>1
      <4>2. ProgramStart \in Nat /\ ProgramStart <= t1
        BY <1>7, AddrTypes
      <4>3. ProgramStart <= a - d
        BY <1>5, <1>7, <2>1, <4>1, <4>2
      <4> QED
        BY <4>1, <4>3, AddrStep
    <3> QED
      BY <1>6, <1>9, <2>2, <3>1, <3>2
  <2>3. CASE a > t2 + y
    <3>1. t2 + y + 2 <= a
      BY <1>6, <2>3, AddrGap
    <3> QED
      BY <1>7, <2>1, <3>1
  <2>4. CASE a = t2 + y
    <3>1. a - d = t1 + y
      BY <1>5, <1>6, <1>7, <2>4
    <3> QED
      BY <1>9, <2>4, <3>1
  <2> QED
    BY <1>7, <2>1, <2>2, <2>3, <2>4
<1>12. \A a \in Addrs : t1 + (y + 2) <= a => mem'[a] = m[a]
  <2>1. \A a \in Addrs : t1 + (y + 2) <= a => a # t1 + y /\ t1 + y <= a
    BY <1>7
  <2> QED
    BY <1>6, <1>9, <2>1
<1>13. x' = p.end - (t2 + y) /\ x' \in Nat /\ y' \in Nat
  <2>1. x' = x - 2 /\ y' = y + 2 /\ x = p.end - (t2 + y) + 2 /\ t2 + y <= p.end
    BY <1>1, <1>6
  <2> QED
    BY <1>7, <2>1
<1>14. Types'
  BY <1>1, <1>3, <1>9, <1>13 DEF Types
<1>15. /\ Entered' /\ buffer' = buffer /\ listing' = listing /\ t1' = t1 /\ t2' = t2
       /\ Room(p)'
  BY <1>1, <1>4 DEF Entered, Room
<1>16. CASE x' = 0
  <2>1. t2 + y = p.end
    BY <1>6, <1>7, <1>13, <1>16
  <2>2. \A a \in Addrs : t1 + d <= a /\ a <= p.end => mem'[a - d] = m[a]
    <3> SUFFICES ASSUME NEW a \in Addrs, t1 + d <= a, a <= p.end PROVE mem'[a - d] = m[a]
      OBVIOUS
    <3>1. t2 <= a /\ a < t2 + y + 2
      BY <1>6, <1>7, <2>1
    <3> QED
      BY <1>11, <3>1
  <2>3. PICK k : k = mem'
    OBVIOUS
  <2>4. /\ Holds(k, Without(p, t1)) /\ Without(p, t1).end = p.end - d
        /\ \A a \in Without(p, t1).lines : Without(p, t1).number[a] # p.number[t1]
        /\ \A l : Lists(l, p) => Lists([l EXCEPT ![p.number[t1]] = <<>>], Without(p, t1))
    <3>1. k \in [Addrs -> Word]
      BY <1>9, <2>3
    <3>2. \A a \in Addrs : a < t1 => k[a] = m[a]
      BY <1>10, <2>3
    <3>3. \A a \in Addrs : t1 + d <= a /\ a <= p.end => k[a - d] = m[a]
      BY <2>2, <2>3
    <3> QED
      BY <1>4, <1>5, <3>1, <3>2, <3>3, WithoutHolds
  <2>5. PICK q : q = Without(p, t1)
    OBVIOUS
  <2>6. /\ Holds(mem', q) /\ q.end = p.end - d
        /\ \A a \in q.lines : q.number[a] # buffer.number
        /\ Lists([listing EXCEPT ![buffer.number] = <<>>], q)
    BY <1>4, <2>3, <2>4, <2>5
  <2>7. Room(q)'
    <3>1. LineSize(buffer'.code) \in Nat /\ p.end + LineSize(buffer'.code) + 4 <= MemLast
      BY <1>14, <1>15, BodyTypes DEF Types, Room
    <3>2. MemLast \in Nat /\ q.end + LineSize(buffer'.code) + 4 <= MemLast
      BY <1>5, <1>7, <2>6, <3>1, LineEditorAssumption
    <3> QED
      BY <3>2 DEF Room
  <2>8. Ready(q)'
    BY <1>15, <2>6, <2>7 DEF Ready, Rest
  <2> QED
    BY <1>1, <1>14, <1>16, <2>8, TypePartsNext DEF Inv, Places
<1>17. CASE x' # 0
  <2>1. t2 + y < p.end
    BY <1>6, <1>7, <1>13, <1>17
  <2>2. (t2 + y) + 2 <= p.end /\ (t2 + y) + 2 \in Addrs
    BY <1>6, <1>7, <2>1, AddrGap
  <2>3. t2 + y' = (t2 + y) + 2 /\ t2 + y' = t2 + y + 2 /\ t1 + y' = t1 + (y + 2)
        /\ x' = p.end - (t2 + y') + 2
    BY <1>1, <1>7, <1>13
  <2>4. Copy(m, p)'
    BY <1>4, <1>5, <1>6, <1>10, <1>11, <1>12, <1>15, <2>2, <2>3 DEF Copy
  <2> QED
    BY <1>1, <1>14, <1>17, <2>4, TypePartsNext DEF Inv, Places
<1> QED
  BY <1>16, <1>17

\* ClearVariables writes the markers behind the end it finds.
LEMMA ClearVariablesStep ==
  ASSUME NEW p, Holds(mem, p), p.end + 4 <= MemLast, ClearVariables
  PROVE  /\ Holds(mem', p) /\ mem' \in [Addrs -> Word] /\ low' = p.end + 6 /\ low' \in Nat
         /\ mem'[p.end + 2] = EndMarker /\ mem'[p.end + 4] = EndMarker
<1>1. FindCodeEnd(mem) = p.end
  BY EndFound
<1>2. mem' = Marked(mem, p.end) /\ low' = p.end + 6
  BY <1>1 DEF ClearVariables
<1>3. p.end \in Nat
  BY AddrTypes DEF Holds, Shape
<1> QED
  BY <1>2, <1>3, MarkedHolds

LEMMA DeletedStep ==
  ASSUME Inv, Deleted
  PROVE  /\ Inv' /\ buffer.number \in Numbers
         /\ listing' = listing \/ listing' = [listing EXCEPT ![buffer.number] = <<>>]
<1>1. pc = "deleted" /\ ClearVariables /\ UNCHANGED <<buffer, lastLine>>
  BY DEF Deleted
<1>2. PICK p : Ready(p)
  BY <1>1 DEF Inv
<1>3. Types
  BY TypeParts DEF Inv
<1>4. Entered /\ Holds(mem, p) /\ Room(p) /\ Rest(p)
  BY <1>2 DEF Ready
<1>5. p.end + 4 <= MemLast
  <2>1. LineSize(buffer.code) \in Nat /\ p.end \in Nat /\ MemLast \in Nat
    BY <1>3, <1>4, BodyTypes, AddrTypes, LineEditorAssumption DEF Types, Holds, Shape
  <2> QED
    BY <1>4, <2>1 DEF Room
<1>6. /\ Holds(mem', p) /\ mem' \in [Addrs -> Word] /\ low' = p.end + 6 /\ low' \in Nat
      /\ mem'[p.end + 2] = EndMarker /\ mem'[p.end + 4] = EndMarker
  BY <1>1, <1>4, <1>5, ClearVariablesStep
<1>7. CASE pc' = "next" /\ listing' = Listed(mem') /\ Forget
  <2>1. Lists(listing', p)
    BY <1>6, <1>7, ListedIs
  <2>2. Prompt(p)'
    BY <1>5, <1>6, <1>7, <2>1 DEF Prompt
  <2>3. Types'
    BY <1>1, <1>3, <1>6, <1>7, <2>1 DEF Types, Forget, Lists
  <2>4. listing' = [listing EXCEPT ![buffer.number] = <<>>]
    BY <1>4, <2>1, OneListing DEF Rest, Holds
  <2>5. Inv'
    BY <1>7, <2>2, <2>3, TypePartsNext DEF Inv, Places
  <2> QED
    BY <1>4, <2>4, <2>5 DEF Entered
<1>8. CASE /\ t1' = 0 /\ t2' = buffer.number /\ y' = 0
           /\ pc' = "liLength" /\ UNCHANGED <<x, t3, t4, t4b, t5, listing>>
  <2>1. Ready(p)'
    BY <1>1, <1>4, <1>6, <1>8 DEF Ready, Entered, Room, Rest
  <2>2. Length(p)'
    <3>1. PICK at \in SUBSET (1..(Len(buffer.code) + 1)) : Tokenised(buffer.code, at)
      BY <1>3, BodiesAssumption DEF Types
    <3>2. 1 \in at /\ y' = 2 * (1 - 1)
      BY <1>8, <3>1 DEF Tokenised
    <3> QED
      BY <1>1, <1>8, <2>1, <3>1, <3>2 DEF Length
  <2>3. Types'
    <3>1. t2' \in Nat
      BY <1>4, <1>8, NumberType DEF Entered
    <3> QED
      BY <1>1, <1>3, <1>6, <1>8, <3>1 DEF Types
  <2>4. Inv'
    BY <1>8, <2>2, <2>3, TypePartsNext DEF Inv, Places
  <2> QED
    BY <1>4, <1>8, <2>4 DEF Entered
<1> QED
  BY <1>7, <1>8 DEF Deleted

LEMMA InsertedStep ==
  ASSUME Inv, Inserted
  PROVE  /\ Inv' /\ buffer.number \in Numbers /\ buffer.code \in Bodies
         /\ listing' = [listing EXCEPT ![buffer.number] = buffer.code]
<1>1. /\ pc = "inserted" /\ ClearVariables /\ UNCHANGED <<buffer, lastLine>>
      /\ pc' = "next" /\ listing' = Listed(mem') /\ Forget
  BY DEF Inserted
<1>2. PICK p : Complete(p)
  BY <1>1 DEF Inv
<1>3. Types
  BY TypeParts DEF Inv
<1>4. /\ Holds(mem', p) /\ mem' \in [Addrs -> Word] /\ low' = p.end + 6 /\ low' \in Nat
      /\ mem'[p.end + 2] = EndMarker /\ mem'[p.end + 4] = EndMarker
  BY <1>1, <1>2, ClearVariablesStep DEF Complete
<1>5. Lists(listing', p)
  BY <1>1, <1>4, ListedIs
<1>6. Prompt(p)'
  BY <1>1, <1>2, <1>4, <1>5 DEF Prompt, Complete
<1>7. Types'
  BY <1>1, <1>3, <1>4, <1>5 DEF Types, Forget, Lists
<1>8. Inv'
  BY <1>1, <1>6, <1>7, TypePartsNext DEF Inv, Places
<1>9. listing' = [listing EXCEPT ![buffer.number] = buffer.code]
  BY <1>2, <1>4, <1>5, OneListing DEF Complete, Holds
<1> QED
  BY <1>2, <1>3, <1>8, <1>9 DEF Complete, Entered, Types

\* The words of the code and the zero word that ends them.
LEMMA CodeIs ==
  ASSUME Types, NEW i \in 0..Len(buffer.code)
  PROVE  /\ Code(2 * i) = IF i = Len(buffer.code) THEN 0 ELSE buffer.code[i + 1]
         /\ Code(2 * i) \in Word
<1>1. PICK b : b = buffer.code
  OBVIOUS
<1>2. b \in Seq(Word) /\ Len(b) \in Nat /\ <<0>> \in Seq(Word) /\ Len(<<0>>) = 1 /\ <<0>>[1] = 0
  BY <1>1, BodyTypes, WordType DEF Types
<1>3. i \in Nat /\ i <= Len(b) /\ (2 * i) \div 2 = i
  BY <1>1, <1>2
<1>4. Code(2 * i) = (b \o <<0>>)[i + 1]
  BY <1>1, <1>3 DEF Code
<1>5. CASE i = Len(b)
  <2>1. (b \o <<0>>)[Len(b) + 1] = 0
    <3>1. 1 \in 1..Len(<<0>>)
      BY <1>2
    <3> QED
      BY <1>2, <3>1, ConcatFacts
  <2> QED
    BY <1>1, <1>4, <1>5, <2>1, WordType
<1>6. CASE i # Len(b)
  <2>1. i + 1 \in 1..Len(b)
    BY <1>2, <1>3, <1>6
  <2>2. (b \o <<0>>)[i + 1] = b[i + 1] /\ b[i + 1] \in Word
    BY <1>2, <2>1, ConcatFacts, ElementType
  <2> QED
    BY <1>1, <1>4, <1>6, <2>2
<1> QED
  BY <1>5, <1>6

LEMMA InsertLengthStep ==
  ASSUME Inv, InsertLength
  PROVE  Inv'
<1>1. /\ pc = "liLength"
      /\ UNCHANGED <<memory, buffer, x, t1, t2, t4, t4b, t5, lastLine, listing>>
  BY DEF InsertLength
<1>2. PICK p : Length(p)
  BY <1>1 DEF Inv
<1>3. Types
  BY TypeParts DEF Inv
<1>4. PICK b \in Bodies : b = buffer.code /\ b \in Seq(Word) /\ Len(b) \in Nat
  BY <1>3, BodyTypes DEF Types
<1>5. PICK at \in SUBSET (1..(Len(b) + 1)) :
        Tokenised(b, at) /\ \E j \in at : y = 2 * (j - 1)
  BY <1>2, <1>4 DEF Length
<1>6. PICK j \in at : Tokenised(b, at) /\ y = 2 * (j - 1)
  BY <1>5
<1>7. /\ j - 1 \in 0..Len(b) /\ j \in Nat /\ j >= 1 /\ (j - 1) + 1 = j
      /\ Code(y) = IF j = Len(b) + 1 THEN 0 ELSE b[j]
  <2>1. j \in 1..(Len(b) + 1)
    BY <1>6
  <2>2. j - 1 \in 0..Len(b) /\ j \in Nat /\ j >= 1 /\ (j - 1) + 1 = j
    BY <1>4, <2>1
  <2>3. Code(2 * (j - 1)) = IF j - 1 = Len(b) THEN 0 ELSE b[(j - 1) + 1]
    BY <1>3, <1>4, <2>2, CodeIs
  <2>4. j - 1 = Len(b) <=> j = Len(b) + 1
    BY <1>4, <2>2
  <2> QED
    BY <1>6, <2>2, <2>3, <2>4
<1>8. /\ Ready(p)' /\ t1' = 0 /\ t2' = buffer'.number /\ buffer'.code = b
  BY <1>1, <1>2, <1>4 DEF Length, Ready, Entered, Room, Rest, memory
<1>9. CASE Code(y) = 0 /\ t3' = y + 6 /\ y' = ProgramStart /\ pc' = "liFind"
  <2>1. j = Len(b) + 1
    <3>1. j \in 1..Len(b) => b[j] # 0
      BY <1>4, <1>6 DEF Tokenised
    <3> QED
      BY <1>4, <1>7, <1>9, <3>1
  <2>2. t3' = LineSize(b) /\ t3' \in Nat
    BY <1>4, <1>6, <1>9, <2>1 DEF LineSize
  <2>3. y' \in p.lines \cup {p.end} /\ \A a \in p.lines : ~(a < y')
    <3>1. y' = ProgramStart /\ ProgramStart \in Nat
      BY <1>9, AddrFacts
    <3>2. Shape(p)
      BY <1>2 DEF Length, Ready, Holds
    <3>3. \A a \in p.lines : a \in Nat /\ ProgramStart <= a
      BY <3>2, AddrTypes DEF Shape
    <3>4. ProgramStart \in p.lines \cup {p.end}
      BY <3>2 DEF Shape
    <3> QED
      BY <3>1, <3>3, <3>4
  <2>4. Find(p)'
    BY <1>8, <2>2, <2>3 DEF Find
  <2>5. Types'
    BY <1>1, <1>3, <1>9, <2>2, AddrFacts DEF Types, memory
  <2> QED
    BY <1>9, <2>4, <2>5, TypePartsNext DEF Inv, Places
<1>10. CASE Code(y) # 0 /\ y' = y + CodeStep(Code(y)) /\ UNCHANGED <<t3, pc>>
  <2>1. j # Len(b) + 1 /\ j \in 1..Len(b) /\ Code(y) = b[j]
    BY <1>4, <1>7, <1>10
  <2>2. b[j] \in Word /\ b[j] \in Nat
    BY <1>4, <2>1, ElementType, WordType
  <2>3. (b[j] < StringLimit => b[j] % 2 = 0) /\ j + TokenWords(b[j]) \in at
    BY <1>4, <1>6, <2>1 DEF Tokenised
  <2>4. CodeStep(b[j]) = 2 * TokenWords(b[j]) /\ TokenWords(b[j]) \in Nat
    <3>1. PICK w \in Nat : w = b[j]
      BY <2>2
    <3>2. w < 256 => w % 2 = 0
      BY <2>3, <3>1 DEF StringLimit
    <3>3. CASE w < 256
      <4>1. (w + 1) \div 2 \in Nat /\ w = 2 * ((w + 1) \div 2)
        BY <3>2, <3>3
      <4> QED
        BY <3>1, <3>3, <4>1 DEF CodeStep, TokenWords, StringLimit
    <3>4. CASE ~(w < 256)
      BY <3>1, <3>4 DEF CodeStep, TokenWords, StringLimit
    <3> QED
      BY <3>3, <3>4
  <2>5. PICK i \in at : i = j + TokenWords(b[j])
    BY <2>3
  <2>6. y' = 2 * (i - 1) /\ y' \in Nat
    BY <1>6, <1>7, <1>10, <2>1, <2>4, <2>5
  <2>7. Length(p)'
    BY <1>6, <1>8, <2>6 DEF Length
  <2>8. Types'
    BY <1>1, <1>3, <1>10, <2>6 DEF Types, memory
  <2> QED
    BY <1>1, <1>10, <2>7, <2>8, TypePartsNext DEF Inv, Places
<1> QED
  BY <1>9, <1>10 DEF InsertLength

LEMMA InsertFindStep ==
  ASSUME Inv, InsertFind
  PROVE  Inv'
<1>1. pc = "liFind" /\ UNCHANGED <<memory, buffer, x, t1, t2, t3, lastLine, listing>>
  BY DEF InsertFind
<1>2. PICK p : Find(p)
  BY <1>1 DEF Inv
<1>3. Types
  BY TypeParts DEF Inv
<1>4. /\ Entered /\ Holds(mem, p) /\ Room(p) /\ Rest(p)
      /\ t1 = 0 /\ t2 = buffer.number /\ t3 = LineSize(buffer.code)
      /\ y \in p.lines \cup {p.end}
      /\ \A a \in p.lines : a < y => p.number[a] < t2
  BY <1>2 DEF Find, Ready
<1>5. /\ mem' = mem /\ listing' = listing /\ buffer' = buffer
      /\ t1' = t1 /\ t2' = t2 /\ t3' = t3
      /\ Entered' /\ Room(p)' /\ Rest(p)'
  BY <1>1, <1>4 DEF memory, Entered, Room, Rest
<1>6. /\ p.lines \subseteq Addrs /\ p.end \in Addrs /\ mem[p.end] = 0 /\ Addrs \subseteq Nat
      /\ \A a \in p.lines : p.number[a] \in Nat /\ a < p.end
      /\ t2 \in Nat /\ t3 \in Nat
  <2>1. \A a \in p.lines : p.number[a] \in Nat
    BY <1>4, NumberType DEF Holds, Shape
  <2> QED
    BY <1>3, <1>4, <2>1, AddrTypes, LinkFacts DEF Holds, Shape, Types
<1>7. y \in Addrs /\ y \in Nat /\ y <= p.end /\ p.end \in Nat
  <2>1. y \in Addrs /\ y \in Nat /\ p.end \in Nat
    BY <1>4, <1>6
  <2> QED
    BY <1>4, <1>6, <2>1
<1>8. CASE Here /\ t5' = y /\ t4' = FindCodeEnd(mem) /\ t4b' = t4' + t3
           /\ pc' = "liMove" /\ UNCHANGED y
  <2>1. t4' = p.end
    BY <1>4, <1>8, EndFound
  <2>2. \A a \in p.lines : a >= y => t2 < p.number[a]
    <3>1. CASE y = p.end
      <4>1. \A a \in p.lines : a \in Nat /\ a < p.end
        BY <1>6
      <4>2. \A a \in p.lines : ~(a >= y)
        BY <1>7, <3>1, <4>1
      <4> QED
        BY <4>2
    <3>2. CASE y \in p.lines
      <4>1. mem[y] # 0 /\ mem[y + 2] = p.number[y]
        BY <1>4, <3>2, LinkFacts DEF Holds, LineAt
      <4>2. p.number[y] >= t2 /\ p.number[y] # t2
        BY <1>4, <1>8, <3>2, <4>1 DEF Here, Rest
      <4>3. p.number[y] > t2
        BY <1>6, <3>2, <4>2
      <4> SUFFICES ASSUME NEW a \in p.lines, a >= y PROVE t2 < p.number[a]
        OBVIOUS
      <4>4. a = y \/ a > y
        <5>1. a \in Nat
          BY <1>6
        <5> QED
          BY <1>7, <5>1
      <4>5. a > y => p.number[y] < p.number[a]
        BY <1>4, <3>2 DEF Holds, Shape
      <4> QED
        BY <1>6, <3>2, <4>3, <4>4, <4>5
    <3> QED
      BY <1>4, <3>1, <3>2
  <2>3. Splits(p, y)'
    BY <1>4, <1>5, <1>8, <2>2 DEF Splits
  <2>4. Splits(p, t5)'
    BY <1>8, <2>3 DEF Splits
  <2>5. /\ \A a \in Addrs : a <= t4b' => mem'[a] = mem[a]
        /\ \A a \in Addrs : ~(t4' < a /\ a <= p.end)
    BY <1>5, <1>6, <1>7, <2>1
  <2>6. t5' <= t4' /\ t4' <= p.end /\ t4' \in Addrs /\ t4b' \in Nat /\ t4' \in Nat
    BY <1>6, <1>7, <1>8, <2>1
  <2>7. Move(mem, p)'
    BY <1>4, <1>5, <1>8, <2>4, <2>5, <2>6 DEF Move
  <2>8. Types'
    BY <1>1, <1>3, <1>7, <1>8, <2>6 DEF Types, memory
  <2> QED
    BY <1>8, <2>7, <2>8, TypePartsNext DEF Inv, Places
<1>9. CASE ~Here /\ y' = NextLine /\ UNCHANGED <<pc, t4, t4b, t5>>
  <2>1. y \in p.lines /\ ~(mem[y + 2] >= t2)
    BY <1>4, <1>6, <1>9 DEF Here
  <2>2. y' \in p.lines \cup {p.end} /\ y' \in Addrs /\ y < y' /\ mem[y] = LineSize(p.body[y])
        /\ y' = y + mem[y]
    BY <1>4, <1>9, <2>1, LinkFacts DEF NextLine
  <2>3. p.number[y] < t2
    <3>1. mem[y + 2] = p.number[y]
      BY <1>4, <2>1 DEF Holds, LineAt
    <3> QED
      BY <1>6, <2>1, <3>1
  <2>4. ASSUME NEW a \in p.lines, a < y' PROVE p.number[a] < t2
    <3>1. a \in Nat /\ y \in Nat /\ y' \in Nat
      BY <1>6, <2>1, <2>2
    <3>2. ~(y < a)
      <4>1. y < a => y' <= a
        BY <1>4, <2>1, <2>2 DEF Holds, Shape
      <4> QED
        BY <2>4, <3>1, <4>1
    <3>3. a < y \/ a = y
      BY <3>1, <3>2
    <3> QED
      BY <1>4, <2>3, <3>3
  <2>5. Find(p)'
    BY <1>4, <1>5, <2>2, <2>4 DEF Find, Ready
  <2>6. Types'
    BY <1>1, <1>3, <1>6, <1>9, <2>2 DEF Types, memory
  <2> QED
    BY <1>1, <1>9, <2>5, <2>6, TypePartsNext DEF Inv, Places
<1> QED
  BY <1>8, <1>9 DEF InsertFind

LEMMA InsertMoveStep ==
  ASSUME Inv, InsertMove
  PROVE  Inv'
<1>1. /\ pc = "liMove" /\ mem' = [mem EXCEPT ![t4b] = mem[t4]]
      /\ UNCHANGED <<low, buffer, x, y, t1, t2, t3, t5, lastLine, listing>>
  BY DEF InsertMove
<1>2. PICK m, p : Move(m, p)
  BY <1>1 DEF Inv
<1>3. Types
  BY TypeParts DEF Inv
<1>4. /\ Entered /\ Holds(m, p) /\ Room(p) /\ Rest(p) /\ Splits(p, t5)
      /\ t1 = 0 /\ t2 = buffer.number
  BY <1>2 DEF Move
<1>5. PICK d \in Nat : d = LineSize(buffer.code) /\ d >= 6 /\ d = 2 * (d \div 2) /\ d \div 2 \in Nat
  <2>1. PICK b \in Bodies : b = buffer.code
    BY <1>3 DEF Types
  <2>2. LineSize(b) \in Nat /\ LineSize(b) >= 6 /\ LineSize(b) = 2 * (Len(b) + 3) /\ Len(b) \in Nat
    BY BodyTypes
  <2> QED
    BY <2>1, <2>2
<1>6. /\ t3 = d /\ t4 \in Addrs /\ t5 <= t4 /\ t4 <= p.end /\ t4b = t4 + d
      /\ \A a \in Addrs : a <= t4b => mem[a] = m[a]
      /\ \A a \in Addrs : t4 < a /\ a <= p.end => mem[a + d] = m[a]
      /\ p.end + d + 4 <= MemLast
  BY <1>2, <1>5 DEF Move, Room
<1>7. /\ Addrs \subseteq Nat /\ p.end \in Addrs /\ p.end \in Nat /\ t4 \in Nat
      /\ mem \in [Addrs -> Word] /\ t5 \in Addrs /\ t5 \in Nat /\ ProgramStart \in Nat
      /\ ProgramStart <= t4 /\ MemLast \in Nat /\ t4b \in Nat
  <2>1. p.end \in Addrs /\ t5 \in Addrs
    BY <1>4 DEF Holds, Shape, Splits
  <2> QED
    BY <1>3, <1>6, <2>1, AddrTypes, LineEditorAssumption DEF Types
<1>8. t4b \in Addrs
  <2>1. /\ t4 + 2 * (d \div 2) = t4b /\ d \div 2 \in Int
        /\ ProgramStart <= t4 + 2 * (d \div 2) /\ t4 + 2 * (d \div 2) <= MemLast
    BY <1>5, <1>6, <1>7
  <2> QED
    BY <1>6, <2>1, AddrFacts
<1>9. /\ mem' \in [Addrs -> Word] /\ mem'[t4 + d] = m[t4]
      /\ \A a \in Addrs : a # t4 + d => mem'[a] = mem[a]
  <2>1. t4 <= t4b
    BY <1>5, <1>6, <1>7
  <2>2. mem[t4] = m[t4]
    BY <1>6, <2>1
  <2> QED
    BY <1>1, <1>6, <1>7, <1>8, <2>2
<1>10. \A a \in Addrs : a < t4b => mem'[a] = m[a]
  <2>1. \A a \in Addrs : a < t4b => a # t4 + d /\ a <= t4b
    BY <1>6, <1>7
  <2> QED
    BY <1>6, <1>9, <2>1
<1>11. \A a \in Addrs : t4 <= a /\ a <= p.end => mem'[a + d] = m[a]
  <2> SUFFICES ASSUME NEW a \in Addrs, t4 <= a, a <= p.end PROVE mem'[a + d] = m[a]
    OBVIOUS
  <2>1. a \in Nat
    BY <1>7
  <2>2. CASE a = t4
    BY <1>9, <2>2
  <2>3. CASE a > t4
    <3>1. a + d # t4 + d
      BY <1>5, <1>7, <2>1, <2>3
    <3>2. a + d \in Addrs
      <4>1. /\ a + 2 * (d \div 2) = a + d /\ d \div 2 \in Int
            /\ ProgramStart <= a + 2 * (d \div 2) /\ a + 2 * (d \div 2) <= MemLast
        BY <1>5, <1>6, <1>7, <2>1
      <4> QED
        BY <4>1, AddrFacts
    <3> QED
      BY <1>6, <1>9, <2>3, <3>1, <3>2
  <2> QED
    BY <1>7, <2>1, <2>2, <2>3
<1>12. /\ Entered' /\ buffer' = buffer /\ listing' = listing /\ t1' = t1 /\ t2' = t2
       /\ t3' = t3 /\ t5' = t5 /\ Room(p)' /\ Rest(p)' /\ Splits(p, t5)'
  BY <1>1, <1>4 DEF Entered, Room, Rest, Splits
<1>13. CASE t4 = t5 /\ pc' = "liHeader" /\ UNCHANGED <<t4, t4b>>
  <2>1. \A a \in Addrs : a < t5 => mem'[a] = m[a]
    <3>1. \A a \in Addrs : a < t5 => a < t4b
      BY <1>5, <1>6, <1>7, <1>13
    <3> QED
      BY <1>10, <3>1
  <2>2. Opened(m, p)'
    BY <1>4, <1>5, <1>11, <1>12, <1>13, <2>1 DEF Opened
  <2>3. Header(m, p)'
    BY <1>4, <1>5, <1>6, <1>12, <2>2 DEF Header
  <2>4. Types'
    BY <1>1, <1>3, <1>9, <1>13 DEF Types
  <2> QED
    BY <1>13, <2>3, <2>4, TypePartsNext DEF Inv, Places
<1>14. CASE t4 # t5 /\ t4' = t4 - 2 /\ t4b' = t4b - 2 /\ UNCHANGED pc
  <2>1. t5 < t4
    BY <1>6, <1>7, <1>14
  <2>2. t5 + 2 <= t4
    BY <1>6, <1>7, <2>1, AddrGap
  <2>3. /\ t4' \in Addrs /\ t5 <= t4' /\ t4' <= p.end /\ t4b' = t4' + d
        /\ t4' \in Nat /\ t4b' \in Nat
    <3>1. /\ t5 <= t4' /\ t4' <= p.end /\ t4b' = t4' + d /\ t4' = t4 + 2 * (-1)
          /\ t4' <= t4
      BY <1>6, <1>7, <1>14, <2>2
    <3>2. ProgramStart <= t4'
      BY <1>7, <1>14, <2>2, AddrTypes
    <3>3. t4' \in Addrs
      <4>1. PICK k \in Int : k = -1
        OBVIOUS
      <4>2. t4' = t4 + 2 * k
        BY <3>1, <4>1
      <4> QED
        BY <1>6, <3>1, <3>2, <4>2, AddrStep
    <3>4. t4' \in Nat
      BY <1>7, <3>3
    <3>5. t4b' \in Nat
      BY <1>5, <3>1, <3>4
    <3> QED
      BY <3>1, <3>3, <3>4, <3>5
  <2>4. \A a \in Addrs : a <= t4b' => mem'[a] = m[a]
    <3>1. \A a \in Addrs : a <= t4b' => a < t4b
      BY <1>7, <1>14
    <3> QED
      BY <1>10, <3>1
  <2>5. \A a \in Addrs : t4' < a /\ a <= p.end => mem'[a + d] = m[a]
    <3> SUFFICES ASSUME NEW a \in Addrs, t4' < a, a <= p.end PROVE mem'[a + d] = m[a]
      OBVIOUS
    <3>1. t4' + 2 <= a
      BY <2>3, AddrGap
    <3>2. t4 <= a
      BY <1>7, <1>14, <3>1
    <3> QED
      BY <1>11, <3>2
  <2>6. Move(m, p)'
    BY <1>4, <1>5, <1>6, <1>12, <2>3, <2>4, <2>5 DEF Move
  <2>7. Types'
    BY <1>1, <1>3, <1>9, <2>3 DEF Types
  <2> QED
    BY <1>1, <1>14, <2>6, <2>7, TypePartsNext DEF Inv, Places
<1> QED
  BY <1>13, <1>14 DEF InsertMove

\* What the gap at t5 is for: writing into it disturbs neither part.
LEMMA GapWrite ==
  ASSUME Types, NEW m, NEW p, Opened(m, p), NEW i \in 0..(Len(buffer.code) + 2)
  PROVE  /\ t5 + 2 * i \in Addrs
         /\ t5 <= t5 + 2 * i /\ t5 + 2 * i < t5 + LineSize(buffer.code)
         /\ \A k \in [Addrs -> Word] :
              (\A a \in Addrs : a # t5 + 2 * i => k[a] = mem[a]) =>
                /\ \A a \in Addrs : a < t5 => k[a] = m[a]
                /\ \A a \in Addrs : t5 <= a /\ a <= p.end => k[a + LineSize(buffer.code)] = m[a]
<1>1. PICK d \in Nat : /\ d = LineSize(buffer.code) /\ d >= 6 /\ d = 2 * (Len(buffer.code) + 3)
                       /\ Len(buffer.code) \in Nat
  BY BodyTypes DEF Types
<1>2. PICK n \in Nat : n = Len(buffer.code)
  BY <1>1
<1>3. /\ Holds(m, p) /\ p.end + d + 4 <= MemLast /\ t5 \in p.lines \cup {p.end}
      /\ \A a \in Addrs : a < t5 => mem[a] = m[a]
      /\ \A a \in Addrs : t5 <= a /\ a <= p.end => mem[a + d] = m[a]
  BY <1>1 DEF Opened, Room, Splits
<1>4. /\ Addrs \subseteq Nat /\ p.end \in Nat /\ t5 \in Addrs /\ t5 \in Nat /\ ProgramStart \in Nat
      /\ ProgramStart <= t5 /\ t5 <= p.end /\ MemLast \in Nat /\ p.end \in Addrs
  <2>1. p.lines \subseteq Addrs /\ p.end \in Addrs
    BY <1>3 DEF Holds, Shape
  <2>2. t5 \in Addrs /\ t5 \in Nat /\ p.end \in Nat
    BY <1>3, <2>1, AddrTypes
  <2>3. t5 <= p.end
    BY <1>3, <2>2, LinkFacts
  <2> QED
    BY <2>1, <2>2, <2>3, AddrTypes, LineEditorAssumption
<1>5. i \in Nat /\ i <= n + 2 /\ d = 2 * (n + 3)
  BY <1>1, <1>2
<1>6. t5 <= t5 + 2 * i /\ t5 + 2 * i < t5 + d
  BY <1>4, <1>5
<1>7. t5 + 2 * i \in Addrs
  <2>1. ProgramStart <= t5 + 2 * i /\ t5 + 2 * i <= MemLast
    BY <1>3, <1>4, <1>6
  <2>2. i \in Int
    BY <1>5
  <2> QED
    BY <1>4, <2>1, <2>2, AddrFacts
<1>8. ASSUME NEW k \in [Addrs -> Word], \A a \in Addrs : a # t5 + 2 * i => k[a] = mem[a]
      PROVE  /\ \A a \in Addrs : a < t5 => k[a] = m[a]
             /\ \A a \in Addrs : t5 <= a /\ a <= p.end => k[a + d] = m[a]
  <2>1. \A a \in Addrs : a < t5 => a # t5 + 2 * i
    BY <1>4, <1>6
  <2>2. ASSUME NEW a \in Addrs, t5 <= a, a <= p.end PROVE k[a + d] = m[a]
    <3>1. a \in Nat
      BY <1>4
    <3>2. a + d # t5 + 2 * i
      BY <1>4, <1>5, <1>6, <2>2, <3>1
    <3>3. a + d \in Addrs
      <4>1. /\ a + 2 * (n + 3) = a + d /\ n + 3 \in Int
            /\ ProgramStart <= a + 2 * (n + 3) /\ a + 2 * (n + 3) <= MemLast
        BY <1>3, <1>4, <1>5, <2>2, <3>1
      <4> QED
        BY <4>1, AddrFacts
    <3> QED
      BY <1>3, <1>8, <2>2, <3>2, <3>3
  <2> QED
    BY <1>3, <1>8, <2>1, <2>2
<1> QED
  BY <1>1, <1>6, <1>7, <1>8

LEMMA InsertHeaderStep ==
  ASSUME Inv, InsertHeader
  PROVE  Inv'
<1>1. /\ pc = "liHeader" /\ mem' = [mem EXCEPT ![t5] = t3, ![t5 + 2] = t2]
      /\ y' = 4 /\ pc' = "liTokens"
      /\ UNCHANGED <<low, buffer, x, t1, t2, t3, t4, t4b, t5, lastLine, listing>>
  BY DEF InsertHeader
<1>2. PICK m, p : Header(m, p)
  BY <1>1 DEF Inv
<1>3. Types
  BY TypeParts DEF Inv
<1>4. Opened(m, p) /\ t1 = 0 /\ t3 = LineSize(buffer.code)
  BY <1>2 DEF Header
<1>5. PICK d \in Nat : /\ d = LineSize(buffer.code) /\ d >= 6 /\ d = 2 * (Len(buffer.code) + 3)
                       /\ Len(buffer.code) \in Nat
  BY <1>3, BodyTypes DEF Types
<1>6. /\ Entered /\ Holds(m, p) /\ Room(p) /\ Rest(p) /\ Splits(p, t5) /\ t2 = buffer.number
      /\ p.end + d + 4 <= MemLast
  BY <1>4, <1>5 DEF Opened, Room
<1>7. t5 \in Addrs /\ t5 + 2 \in Addrs /\ t5 \in Nat /\ mem \in [Addrs -> Word]
  <2>1. 0 \in 0..(Len(buffer.code) + 2) /\ 1 \in 0..(Len(buffer.code) + 2)
    BY <1>5
  <2>2. t5 + 2 * 0 \in Addrs /\ t5 + 2 * 1 \in Addrs
    BY <1>3, <1>4, <2>1, GapWrite
  <2> QED
    BY <1>3, <2>2 DEF Types
<1>8. t3 \in Word /\ t2 \in Word
  <2>1. d \in 0..MaxWord
    <3>1. p.end \in Nat /\ MemLast \in Nat /\ MemLast <= MaxWord
      BY <1>6, AddrTypes, LineEditorAssumption DEF Holds, Shape
    <3>2. MaxWord \in Nat
      BY DEF MaxWord
    <3> QED
      BY <1>6, <3>1, <3>2
  <2>2. t2 \in Word
    BY <1>6, NumberType DEF Entered
  <2> QED
    BY <1>4, <1>5, <2>1, <2>2 DEF Word
<1> DEFINE k == [mem EXCEPT ![t5] = t3]
<1>9. /\ k \in [Addrs -> Word] /\ k[t5] = t3 /\ \A a \in Addrs : a # t5 => k[a] = mem[a]
      /\ mem' \in [Addrs -> Word] /\ mem'[t5] = t3 /\ mem'[t5 + 2] = t2
      /\ \A a \in Addrs : a # t5 /\ a # t5 + 2 => mem'[a] = mem[a]
  BY <1>1, <1>7, <1>8
<1> HIDE DEF k
<1>10. /\ \A a \in Addrs : a < t5 => mem'[a] = m[a]
       /\ \A a \in Addrs : t5 <= a /\ a <= p.end => mem'[a + d] = m[a]
  <2>1. /\ \A a \in Addrs : a < t5 => k[a] = m[a]
        /\ \A a \in Addrs : t5 <= a /\ a <= p.end => k[a + d] = m[a]
    <3>1. 0 \in 0..(Len(buffer.code) + 2) /\ t5 + 2 * 0 = t5
      BY <1>5, <1>7
    <3>2. \A a \in Addrs : a # t5 + 2 * 0 => k[a] = mem[a]
      BY <1>9, <3>1
    <3> QED
      BY <1>3, <1>4, <1>5, <1>9, <3>1, <3>2, GapWrite
  <2>2. \A a \in Addrs : a # t5 + 2 => mem'[a] = k[a]
    BY <1>9
  <2>3. \A a \in Addrs : a < t5 => a # t5 + 2
    BY <1>7, AddrTypes
  <2>4. \A a \in Addrs : t5 <= a /\ a <= p.end => a + d # t5 + 2 /\ a + d \in Addrs
    <3> SUFFICES ASSUME NEW a \in Addrs, t5 <= a, a <= p.end
                 PROVE  a + d # t5 + 2 /\ a + d \in Addrs
      OBVIOUS
    <3>1. /\ a \in Nat /\ ProgramStart \in Nat /\ ProgramStart <= a /\ MemLast \in Nat
          /\ p.end \in Nat
      BY <1>6, AddrTypes, LineEditorAssumption DEF Holds, Shape
    <3>2. a + d # t5 + 2
      BY <1>5, <1>7, <3>1
    <3>3. PICK h \in Nat : d = 2 * h
      <4>1. Len(buffer.code) + 3 \in Nat
        BY <1>5
      <4> QED
        BY <1>5, <4>1
    <3>4. /\ a + 2 * h = a + d /\ h \in Int
          /\ ProgramStart <= a + 2 * h /\ a + 2 * h <= MemLast
      BY <1>6, <3>1, <3>3
    <3> QED
      BY <3>2, <3>4, AddrFacts
  <2> QED
    BY <2>1, <2>2, <2>3, <2>4
<1>11. /\ Entered' /\ buffer' = buffer /\ Room(p)' /\ Rest(p)' /\ Splits(p, t5)'
  BY <1>1, <1>6 DEF Entered, Room, Rest, Splits
<1>12. Opened(m, p)'
  BY <1>1, <1>5, <1>6, <1>10, <1>11 DEF Opened
<1>13. Tokens(m, p)'
  <2>1. y' = t1' + 4 /\ t3' = LineSize(buffer'.code) - t1' /\ mem'[t5'] = LineSize(buffer'.code)
        /\ mem'[t5' + 2] = t2'
    BY <1>1, <1>4, <1>5, <1>9
  <2>2. 0 \in 0..Len(buffer'.code) /\ t1' = 2 * 0 /\ \A j \in 1..0 : FALSE
    BY <1>1, <1>4, <1>5
  <2> QED
    BY <1>12, <2>1, <2>2 DEF Tokens
<1>14. Types'
  BY <1>1, <1>3, <1>9 DEF Types
<1> QED
  BY <1>1, <1>13, <1>14, TypePartsNext DEF Inv, Places

LEMMA InsertTokensStep ==
  ASSUME Inv, InsertTokens
  PROVE  Inv'
<1>1. /\ pc = "liTokens" /\ mem' = [mem EXCEPT ![t5 + y] = Code(t1)]
      /\ y' = y + 2 /\ t1' = t1 + 2 /\ t3' = t3 - 2
      /\ pc' = IF t3' = 4 THEN "inserted" ELSE "liTokens"
      /\ UNCHANGED <<low, buffer, x, t2, t4, t4b, t5, lastLine, listing>>
  BY DEF InsertTokens
<1>2. PICK m, p : Tokens(m, p)
  BY <1>1 DEF Inv
<1>3. Types
  BY TypeParts DEF Inv
<1>4. PICK b \in Bodies : b = buffer.code
  BY <1>3 DEF Types
<1>5. PICK n \in Nat : n = Len(b)
  BY BodyTypes
<1>6. LineSize(b) = 2 * (n + 3) /\ LineSize(b) \in Nat
  BY <1>5, BodyTypes
<1>7. /\ Opened(m, p) /\ mem[t5] = LineSize(b) /\ mem[t5 + 2] = t2
      /\ y = t1 + 4 /\ t3 = LineSize(b) - t1
  BY <1>2, <1>4 DEF Tokens
<1>8. PICK i \in 0..n : t1 = 2 * i /\ \A j \in 1..i : mem[t5 + 2 + 2 * j] = b[j]
  BY <1>2, <1>4, <1>5 DEF Tokens
<1>9. /\ Entered /\ Holds(m, p) /\ Room(p) /\ Rest(p) /\ Splits(p, t5) /\ t2 = buffer.number
      /\ p.end + LineSize(b) + 4 <= MemLast
  BY <1>4, <1>7 DEF Opened, Room
<1>10. /\ i \in Nat /\ i <= n /\ t1 = 2 * i /\ y = 2 * i + 4 /\ t3 = 2 * (n + 3) - 2 * i
       /\ t5 \in Nat /\ mem \in [Addrs -> Word]
  BY <1>3, <1>6, <1>7, <1>8 DEF Types
<1>11. /\ i + 2 \in 0..(Len(buffer.code) + 2) /\ t5 + y = t5 + 2 * (i + 2)
       /\ t5 + y = t5 + 2 + 2 * (i + 1)
  BY <1>4, <1>5, <1>10
<1>12. /\ t5 + y \in Addrs
       /\ \A k \in [Addrs -> Word] :
            (\A a \in Addrs : a # t5 + y => k[a] = mem[a]) =>
              /\ \A a \in Addrs : a < t5 => k[a] = m[a]
              /\ \A a \in Addrs : t5 <= a /\ a <= p.end => k[a + LineSize(b)] = m[a]
  BY <1>3, <1>4, <1>7, <1>11, GapWrite
<1>13. /\ Code(t1) = IF i = n THEN 0 ELSE b[i + 1]
       /\ Code(t1) \in Word
  BY <1>3, <1>4, <1>5, <1>8, CodeIs
<1>14. PICK k \in [Addrs -> Word] :
         /\ k = mem' /\ k[t5 + y] = Code(t1)
         /\ \A a \in Addrs : a # t5 + y => k[a] = mem[a]
  <2>1. PICK c : c = Code(t1)
    OBVIOUS
  <2>2. PICK a \in Addrs : a = t5 + y
    BY <1>12
  <2>3. PICK k : k = [mem EXCEPT ![a] = c]
    OBVIOUS
  <2>4. /\ k \in [Addrs -> Word] /\ k[a] = c
        /\ \A e \in Addrs : e # a => k[e] = mem[e]
    BY <1>10, <1>13, <2>1, <2>3
  <2>5. k = mem'
    BY <1>1, <2>1, <2>2, <2>3
  <2> QED
    BY <2>1, <2>2, <2>4, <2>5
<1>15. /\ \A a \in Addrs : a < t5 => k[a] = m[a]
       /\ \A a \in Addrs : t5 <= a /\ a <= p.end => k[a + LineSize(b)] = m[a]
  BY <1>12, <1>14
<1>16. /\ k[t5] = LineSize(b) /\ k[t5 + 2] = t2
       /\ \A j \in 1..i : k[t5 + 2 + 2 * j] = b[j]
  <2>1. t5 \in Addrs /\ t5 + 2 \in Addrs
    <3>1. 0 \in 0..(Len(buffer.code) + 2) /\ 1 \in 0..(Len(buffer.code) + 2)
          /\ t5 + 2 * 0 = t5 /\ t5 + 2 * 1 = t5 + 2
      BY <1>4, <1>5, <1>10
    <3>2. t5 + 2 * 0 \in Addrs /\ t5 + 2 * 1 \in Addrs
      BY <1>3, <1>7, <3>1, GapWrite
    <3> QED
      BY <3>1, <3>2
  <2>2. t5 # t5 + y /\ t5 + 2 # t5 + y
    BY <1>10
  <2>3. ASSUME NEW j \in 1..i PROVE k[t5 + 2 + 2 * j] = b[j]
    <3>1. /\ j + 1 \in 0..(Len(buffer.code) + 2) /\ t5 + 2 * (j + 1) = t5 + 2 + 2 * j
          /\ t5 + 2 + 2 * j # t5 + y
      BY <1>4, <1>5, <1>10
    <3>2. t5 + 2 * (j + 1) \in Addrs
      BY <1>3, <1>7, <3>1, GapWrite
    <3> QED
      BY <1>8, <1>14, <3>1, <3>2
  <2> QED
    BY <1>7, <1>14, <2>1, <2>2, <2>3
<1>17. /\ Entered' /\ buffer' = buffer /\ Room(p)' /\ Rest(p)' /\ Splits(p, t5)'
  BY <1>1, <1>9 DEF Entered, Room, Rest, Splits
<1>18. t3' = 2 * (n + 3) - 2 * i - 2 /\ t3' \in Nat /\ y' \in Nat /\ t1' \in Nat
  BY <1>1, <1>10
<1>19. Types'
  BY <1>1, <1>3, <1>14, <1>18 DEF Types
<1>20. CASE t3' = 4
  <2>1. i = n
    BY <1>10, <1>18, <1>20
  <2>2. LineAt(k, t5, t2, b)
    <3>1. t5 + LineSize(b) - 2 = t5 + y
      BY <1>6, <1>10, <2>1
    <3> QED
      BY <1>5, <1>13, <1>14, <1>16, <2>1, <3>1 DEF LineAt
  <2>3. PICK q : q = With(p, t5, buffer.number, b)
    OBVIOUS
  <2>4. /\ Holds(k, q) /\ q.end = p.end + LineSize(b)
        /\ \A l : Lists(l, p) => Lists([l EXCEPT ![buffer.number] = b], q)
    <3>1. PICK d : d = LineSize(b)
      OBVIOUS
    <3>2. p.end + d <= MemLast
      <4>1. p.end \in Nat /\ MemLast \in Nat
        BY <1>9, AddrTypes, LineEditorAssumption DEF Holds, Shape
      <4> QED
        BY <1>6, <1>9, <3>1, <4>1
    <3>3. /\ t5 \in p.lines \cup {p.end} /\ buffer.number \in Numbers
          /\ \A a \in p.lines : a < t5 => p.number[a] < buffer.number
          /\ \A a \in p.lines : a >= t5 => buffer.number < p.number[a]
      BY <1>9 DEF Splits, Entered
    <3>4. LineAt(k, t5, buffer.number, b)
      BY <1>9, <2>2
    <3> QED
      BY <1>9, <1>15, <2>3, <3>1, <3>2, <3>3, <3>4, WithHolds
  <2>5. Lists([listing EXCEPT ![buffer.number] = b], q)
    <3>1. PICK l : l = [listing EXCEPT ![buffer.number] = <<>>]
      OBVIOUS
    <3>2. Lists([l EXCEPT ![buffer.number] = b], q)
      BY <1>9, <2>4, <3>1 DEF Rest
    <3>3. [l EXCEPT ![buffer.number] = b] = [listing EXCEPT ![buffer.number] = b]
      BY <1>3, <1>9, <3>1, BodiesAssumption DEF Entered, Types
    <3> QED
      BY <3>2, <3>3
  <2>6. Complete(q)'
    BY <1>1, <1>4, <1>9, <1>14, <1>17, <2>4, <2>5 DEF Complete
  <2> QED
    BY <1>1, <1>19, <1>20, <2>6, TypePartsNext DEF Inv, Places
<1>21. CASE t3' # 4
  <2>1. i # n /\ i + 1 \in 0..n
    BY <1>10, <1>18, <1>21
  <2>2. ASSUME NEW j \in 1..(i + 1) PROVE k[t5 + 2 + 2 * j] = b[j]
    <3>1. CASE j = i + 1
      BY <1>11, <1>13, <1>14, <2>1, <3>1
    <3>2. CASE j # i + 1
      <4>1. j \in 1..i
        BY <1>10, <3>2
      <4> QED
        BY <1>16, <4>1
    <3> QED
      BY <3>1, <3>2
  <2>3. Opened(m, p)'
    BY <1>1, <1>4, <1>9, <1>14, <1>15, <1>17 DEF Opened
  <2>4. t1' = 2 * (i + 1) /\ y' = t1' + 4 /\ t3' = LineSize(b) - t1'
    BY <1>1, <1>6, <1>10, <1>18
  <2>5. \E h \in 0..Len(buffer'.code) :
          t1' = 2 * h /\ \A j \in 1..h : mem'[t5' + 2 + 2 * j] = buffer'.code[j]
    <3>1. t5' = t5 /\ buffer'.code = b /\ mem' = k
      BY <1>1, <1>4, <1>14
    <3> QED
      BY <1>5, <2>1, <2>2, <2>4, <3>1
  <2>6. mem'[t5'] = LineSize(buffer'.code) /\ mem'[t5' + 2] = t2' /\ t3' = LineSize(buffer'.code) - t1'
    BY <1>1, <1>4, <1>14, <1>16, <2>4
  <2>7. Tokens(m, p)'
    BY <2>3, <2>4, <2>5, <2>6 DEF Tokens
  <2> QED
    BY <1>1, <1>19, <1>21, <2>7, TypePartsNext DEF Inv, Places
<1> QED
  BY <1>20, <1>21

LEMMA AddBASICLineStep ==
  ASSUME Inv, NEW n \in Numbers, NEW body \in Bodies, AddBASICLine(n, body)
  PROVE  Inv' /\ listing' = [listing EXCEPT ![n] = body]
<1> DEFINE pos == FindCodeEnd(mem)
           line == <<LineSize(body), n>> \o body \o <<0, 0>>
           end == pos + LineSize(body)
           written == [a \in Addrs |-> IF a \in pos..end
                                       THEN line[((a - pos) \div 2) + 1] ELSE mem[a]]
<1>1. /\ pc = "host" /\ n > lastLine
      /\ end + 6 + Reserve < HighAddress
      /\ mem' = Marked(written, end) /\ low' = end + 6
      /\ lastLine' = n /\ listing' = Listed(mem')
      /\ UNCHANGED <<buffer, pc, temps>>
  BY DEF AddBASICLine
<1>2. PICK p : Prompt(p)
  BY <1>1 DEF Inv
<1>3. Types
  BY TypeParts DEF Inv
<1>4. /\ Holds(mem, p) /\ Lists(listing, p)
      /\ \A a \in p.lines : p.number[a] <= lastLine
  BY <1>1, <1>2 DEF Prompt
<1>5. pos = p.end
  BY <1>4, EndFound
<1>6. /\ p.end \in Addrs /\ p.end \in Nat /\ Addrs \subseteq Nat /\ n \in Nat /\ n \in Word
      /\ \A a \in p.lines : a \in Nat /\ p.number[a] \in Nat /\ a < p.end
      /\ lastLine \in Nat /\ mem \in [Addrs -> Word]
  <2>1. p.end \in Addrs /\ p.lines \subseteq Addrs /\ \A a \in p.lines : p.number[a] \in Nat
    BY <1>4, NumberType DEF Holds, Shape
  <2>2. \A a \in p.lines : a < p.end
    BY <1>4, LinkFacts
  <2> QED
    BY <1>3, <2>1, <2>2, AddrTypes, NumberType DEF Types
<1>7. PICK d \in Nat : d = LineSize(body) /\ d = 2 * (Len(body) + 3)
  BY BodyTypes
<1>8. PICK c \in Nat : c = Len(body)
  BY BodyTypes
<1>9. /\ end = p.end + d /\ d = 2 * (c + 3) /\ MemLast \in Nat /\ p.end + d + 6 <= MemLast
      /\ d \in Word
  <2>1. end = p.end + d
    BY <1>5, <1>7
  <2>2. p.end + d + 6 + Reserve < HighAddress
    BY <1>1, <2>1
  <2>3. Reserve \in Nat /\ HighAddress \in Nat /\ HighAddress <= MemLast /\ MemLast \in Nat
        /\ MemLast <= MaxWord
    BY LineEditorAssumption
  <2>4. p.end + d + 6 <= MemLast
    BY <1>6, <2>2, <2>3
  <2>5. MaxWord \in Nat
    BY DEF MaxWord
  <2>6. d \in 0..MaxWord
    BY <1>6, <2>3, <2>4, <2>5
  <2> QED
    BY <1>7, <1>8, <2>1, <2>3, <2>4, <2>6 DEF Word
<1>10. /\ line \in Seq(Word) /\ Len(line) = c + 4
       /\ line[1] = d /\ line[2] = n /\ line[c + 3] = 0 /\ line[c + 4] = 0
       /\ \A j \in 1..c : line[j + 2] = body[j]
  <2> DEFINE u == <<d, n>>
             v == <<0, 0>>
  <2>1. /\ u \in Seq(Word) /\ Len(u) = 2 /\ u[1] = d /\ u[2] = n
        /\ v \in Seq(Word) /\ Len(v) = 2 /\ v[1] = 0 /\ v[2] = 0
    BY <1>6, <1>9, WordType
  <2>2. body \in Seq(Word)
    BY BodyTypes
  <2>3. line = (u \o body) \o v
    BY <1>7
  <2> HIDE DEF u, v, line
  <2>4. PICK w : w = u \o body
    OBVIOUS
  <2>5. /\ w \in Seq(Word) /\ Len(w) = Len(u) + Len(body)
        /\ \A i \in 1..Len(u) : w[i] = u[i]
        /\ \A i \in 1..Len(body) : w[Len(u) + i] = body[i]
    <3>1. u \in Seq(Word) /\ body \in Seq(Word)
      BY <2>1, <2>2
    <3>2. /\ u \o body \in Seq(Word) /\ Len(u \o body) = Len(u) + Len(body)
          /\ \A i \in 1..Len(u) : (u \o body)[i] = u[i]
          /\ \A i \in 1..Len(body) : (u \o body)[Len(u) + i] = body[i]
      BY <3>1, ConcatFacts
    <3> QED
      BY <2>4, <3>2
  <2>6. /\ line \in Seq(Word) /\ Len(line) = Len(w) + Len(v)
        /\ \A i \in 1..Len(w) : line[i] = w[i]
        /\ \A i \in 1..Len(v) : line[Len(w) + i] = v[i]
    BY <2>1, <2>3, <2>4, <2>5, ConcatFacts
  <2>7. Len(w) = c + 2 /\ Len(line) = c + 4 /\ c + 2 + 1 = c + 3 /\ c + 2 + 2 = c + 4
    <3>1. Len(w) = 2 + c /\ Len(line) = Len(w) + 2
      BY <1>8, <2>1, <2>5, <2>6
    <3> QED
      BY <3>1
  <2>8. line[1] = d /\ line[2] = n
    <3>1. 1 \in 1..Len(u) /\ 2 \in 1..Len(u) /\ 1 \in 1..Len(w) /\ 2 \in 1..Len(w)
      BY <2>1, <2>7
    <3> QED
      BY <2>1, <2>5, <2>6, <3>1
  <2>9. line[c + 3] = 0 /\ line[c + 4] = 0
    <3>1. 1 \in 1..Len(v) /\ 2 \in 1..Len(v)
      BY <2>1
    <3>2. line[Len(w) + 1] = v[1] /\ line[Len(w) + 2] = v[2]
      BY <2>6, <3>1
    <3> QED
      BY <2>1, <2>7, <3>2
  <2>10. ASSUME NEW j \in 1..c PROVE line[j + 2] = body[j]
    <3>1. j \in 1..Len(body) /\ Len(u) + j = j + 2 /\ j + 2 \in 1..Len(w)
      BY <1>8, <2>1, <2>7
    <3>2. w[Len(u) + j] = body[j]
      BY <2>5, <3>1
    <3> QED
      BY <2>6, <3>1, <3>2
  <2> QED
    BY <2>6, <2>7, <2>8, <2>9, <2>10
<1>11. written = [a \in Addrs |-> IF a \in p.end..(p.end + d)
                                  THEN line[((a - p.end) \div 2) + 1] ELSE mem[a]]
  BY <1>5, <1>9
<1> HIDE DEF pos, line, end, written
<1>12. ASSUME NEW i \in 0..(c + 3) PROVE p.end + 2 * i \in Addrs /\ written[p.end + 2 * i] = line[i + 1]
  <2>1. /\ p.end + 2 * i <= MemLast /\ i \in Int /\ p.end <= p.end + 2 * i
        /\ p.end + 2 * i \in p.end..(p.end + d)
        /\ ((p.end + 2 * i) - p.end) \div 2 = i
    BY <1>6, <1>9
  <2>2. p.end + 2 * i \in Addrs
    <3>1. ProgramStart \in Nat /\ ProgramStart <= p.end
      BY <1>6, AddrTypes
    <3>2. ProgramStart <= p.end + 2 * i
      BY <1>6, <2>1, <3>1
    <3> QED
      BY <1>6, <2>1, <3>2, AddrFacts
  <2> QED
    BY <1>11, <2>1, <2>2
<1>13. \A a \in Addrs : a < p.end => written[a] = mem[a]
  <2>1. \A a \in Addrs : a < p.end => a \notin p.end..(p.end + d)
    BY <1>6
  <2> QED
    BY <1>11, <2>1
<1>14. written \in [Addrs -> Word]
  <2>1. ASSUME NEW a \in Addrs, a \in p.end..(p.end + d)
        PROVE  line[((a - p.end) \div 2) + 1] \in Word
    <3>1. a \in Nat /\ p.end <= a /\ a <= p.end + d
      BY <1>6, <2>1
    <3>2. PICK w \in Int : a = p.end + 2 * w
      BY <1>6, AddrFacts
    <3>3. w \in 0..(c + 3) /\ (a - p.end) \div 2 = w
      BY <1>6, <1>9, <3>1, <3>2
    <3>4. w + 1 \in 1..Len(line)
      BY <1>10, <3>3
    <3> QED
      BY <1>10, <3>3, <3>4, ElementType
  <2> QED
    BY <1>6, <1>11, <2>1
<1>15. PICK k \in [Addrs -> Word] : k = written
  BY <1>14
<1>16. LineAt(k, p.end, n, body)
  <2>1. k[p.end] = d
    <3>1. 0 \in 0..(c + 3) /\ p.end + 2 * 0 = p.end /\ 0 + 1 = 1
      BY <1>6
    <3> QED
      BY <1>10, <1>12, <1>15, <3>1
  <2>2. k[p.end + 2] = n
    <3>1. 1 \in 0..(c + 3) /\ p.end + 2 * 1 = p.end + 2 /\ 1 + 1 = 2
      BY <1>6
    <3> QED
      BY <1>10, <1>12, <1>15, <3>1
  <2>3. ASSUME NEW j \in 1..Len(body) PROVE k[p.end + 2 + 2 * j] = body[j]
    <3>1. /\ j + 1 \in 0..(c + 3) /\ p.end + 2 * (j + 1) = p.end + 2 + 2 * j
          /\ (j + 1) + 1 = j + 2 /\ j \in 1..c
      BY <1>6, <1>8
    <3> QED
      BY <1>10, <1>12, <1>15, <3>1
  <2>4. k[p.end + d - 2] = 0
    <3>1. c + 2 \in 0..(c + 3) /\ p.end + 2 * (c + 2) = p.end + d - 2 /\ (c + 2) + 1 = c + 3
      BY <1>6, <1>9
    <3> QED
      BY <1>10, <1>12, <1>15, <3>1
  <2> QED
    BY <1>7, <2>1, <2>2, <2>3, <2>4 DEF LineAt
<1>17. PICK q : q = With(p, p.end, n, body)
  OBVIOUS
<1>18. /\ Holds(k, q) /\ q.end = p.end + d
       /\ \A l : Lists(l, p) => Lists([l EXCEPT ![n] = body], q)
       /\ \A a \in q.lines : q.number[a] = n \/ \E b \in p.lines : q.number[a] = p.number[b]
  <2>1. p.end \in p.lines \cup {p.end} /\ p.end + d <= MemLast
    BY <1>6, <1>9
  <2>2. \A a \in p.lines : a < p.end => p.number[a] < n
    <3> SUFFICES ASSUME NEW a \in p.lines PROVE p.number[a] < n
      OBVIOUS
    <3>1. p.number[a] \in Nat /\ p.number[a] <= lastLine
      BY <1>4, <1>6
    <3> QED
      BY <1>1, <1>6, <3>1
  <2>3. \A a \in p.lines : a >= p.end => n < p.number[a]
    <3>1. \A a \in p.lines : a \in Nat /\ a < p.end
      BY <1>6
    <3>2. \A a \in p.lines : ~(a >= p.end)
      BY <1>6, <3>1
    <3> QED
      BY <3>2
  <2>4. \A a \in Addrs : a < p.end => k[a] = mem[a]
    BY <1>13, <1>15
  <2>5. \A a \in Addrs : p.end <= a /\ a <= p.end => k[a + d] = mem[a]
    <3>1. k[p.end + d] = 0
      <4>1. c + 3 \in 0..(c + 3) /\ p.end + 2 * (c + 3) = p.end + d /\ (c + 3) + 1 = c + 4
        BY <1>6, <1>9
      <4> QED
        BY <1>10, <1>12, <1>15, <4>1
    <3>2. mem[p.end] = 0
      BY <1>4 DEF Holds
    <3>3. \A a \in Addrs : p.end <= a /\ a <= p.end => a = p.end
      BY <1>6
    <3> QED
      BY <3>1, <3>2, <3>3
  <2>6. PICK t : t = p.end
    OBVIOUS
  <2>7. /\ Holds(k, With(p, t, n, body)) /\ With(p, t, n, body).end = p.end + d
        /\ \A l : Lists(l, p) => Lists([l EXCEPT ![n] = body], With(p, t, n, body))
        /\ \A a \in With(p, t, n, body).lines :
             \/ With(p, t, n, body).number[a] = n
             \/ \E b \in p.lines : With(p, t, n, body).number[a] = p.number[b]
    <3>1. t \in p.lines \cup {p.end} /\ LineAt(k, t, n, body)
      BY <1>16, <2>6
    <3>2. /\ \A a \in p.lines : a < t => p.number[a] < n
          /\ \A a \in p.lines : a >= t => n < p.number[a]
          /\ \A a \in Addrs : a < t => k[a] = mem[a]
          /\ \A a \in Addrs : t <= a /\ a <= p.end => k[a + d] = mem[a]
      BY <2>2, <2>3, <2>4, <2>5, <2>6
    <3>3. d = LineSize(body) /\ Holds(mem, p)
      BY <1>4, <1>7
    <3> QED
      BY <2>1, <3>1, <3>2, <3>3, WithHolds
  <2> QED
    BY <1>17, <2>6, <2>7
<1>19. q.end + 4 <= MemLast /\ q.end \in Nat
  BY <1>6, <1>9, <1>18
<1>20. /\ Holds(mem', q) /\ mem' \in [Addrs -> Word] /\ low' = q.end + 6
       /\ mem'[q.end + 2] = EndMarker /\ mem'[q.end + 4] = EndMarker
  <2>1. mem' = Marked(k, q.end) /\ low' = q.end + 6
    BY <1>1, <1>9, <1>15, <1>18
  <2> QED
    BY <1>18, <1>19, <2>1, MarkedHolds
<1>21. Lists(listing', q)
  BY <1>1, <1>20, ListedIs
<1>22. listing' = [listing EXCEPT ![n] = body]
  <2>1. Lists([listing EXCEPT ![n] = body], q)
    BY <1>4, <1>18
  <2> QED
    BY <1>20, <1>21, <2>1, OneListing DEF Holds
<1>23. \A a \in q.lines : q.number[a] <= lastLine'
  <2>1. \A b \in p.lines : p.number[b] <= n
    BY <1>1, <1>4, <1>6
  <2>2. n <= n
    BY <1>6
  <2> QED
    BY <1>1, <1>18, <2>1, <2>2
<1>24. Prompt(q)'
  BY <1>19, <1>20, <1>21, <1>23 DEF Prompt
<1>25. Types'
  BY <1>1, <1>3, <1>6, <1>19, <1>20, <1>21 DEF Types, temps, Lists
<1> QED
  BY <1>1, <1>22, <1>24, <1>25, TypePartsNext DEF Inv, Places

LEMMA InitStep == Init => Inv /\ Store!Init
<1> SUFFICES ASSUME Init PROVE Inv /\ Store!Init
  OBVIOUS
<1> DEFINE zero == [a \in Addrs |-> 0]
           p == [lines |-> {}, end |-> ProgramStart,
                 number |-> [a \in {} |-> 0], body |-> [a \in {} |-> <<>>]]
<1>1. /\ mem = Marked(zero, ProgramStart) /\ low = ProgramStart + 6
      /\ buffer = [number |-> 0, code |-> <<>>] /\ pc = "host" /\ lastLine = 0
      /\ x = 0 /\ y = 0 /\ t1 = 0 /\ t2 = 0 /\ t3 = 0 /\ t4 = 0 /\ t4b = 0 /\ t5 = 0
      /\ listing = [n \in Numbers |-> <<>>]
  BY DEF Init
<1>2. p.lines = {} /\ p.end = ProgramStart
  OBVIOUS
<1>3. Shape(p)
  <2>1. p.number \in [{} -> Numbers] /\ p.body \in [{} -> Bodies]
    OBVIOUS
  <2> HIDE DEF p
  <2> QED
    BY <1>2, <2>1, AddrTypes DEF Shape
<1> HIDE DEF p
<1>4. zero \in [Addrs -> Word] /\ zero[p.end] = 0
  BY <1>2, AddrTypes, WordType
<1> HIDE DEF zero
<1>5. Holds(zero, p)
  BY <1>2, <1>3, <1>4 DEF Holds
<1>6. p.end + 4 <= MemLast /\ p.end \in Nat
  BY <1>2, AddrFacts, LineEditorAssumption
<1>7. /\ Holds(mem, p) /\ mem \in [Addrs -> Word] /\ low = p.end + 6
      /\ mem[p.end + 2] = EndMarker /\ mem[p.end + 4] = EndMarker
  BY <1>1, <1>2, <1>5, <1>6, MarkedHolds
<1>8. listing \in [Numbers -> Bodies] /\ Lists(listing, p)
  BY <1>1, <1>2, BodiesAssumption DEF Lists
<1>9. Prompt(p)
  BY <1>2, <1>6, <1>7, <1>8 DEF Prompt
<1>10. Types
  BY <1>1, <1>6, <1>7, <1>8, BodiesAssumption DEF Types
<1>11. Store!Init
  BY <1>1 DEF Store!Init
<1> QED
  BY <1>1, <1>9, <1>10, <1>11, TypeParts DEF Inv, Places

\* Every step keeps the invariant, and changes the listing by at most one line.
LEMMA NextStep == Inv /\ [Next]_vars => Inv' /\ [Store!Next]_listing
<1> SUFFICES ASSUME Inv, [Next]_vars PROVE Inv' /\ [Store!Next]_listing
  OBVIOUS
<1>1. ASSUME UNCHANGED vars PROVE Inv' /\ listing' = listing
  <2>1. /\ mem' = mem /\ low' = low /\ buffer' = buffer /\ pc' = pc /\ x' = x /\ y' = y
        /\ t1' = t1 /\ t2' = t2 /\ t3' = t3 /\ t4' = t4 /\ t4b' = t4b /\ t5' = t5
        /\ lastLine' = lastLine /\ listing' = listing
    BY <1>1 DEF vars
  <2>2. TypeOK'
    BY <2>1 DEF Inv, TypeOK
  <2>3. ASSUME NEW p
        PROVE  /\ Prompt(p) => Prompt(p)'
               /\ Search(p) => Search(p)'
               /\ Ready(p) => Ready(p)'
               /\ Length(p) => Length(p)'
               /\ Find(p) => Find(p)'
               /\ Complete(p) => Complete(p)'
    <3>1. Ready(p) => Ready(p)'
      BY <2>1 DEF Ready, Entered, Room, Rest
    <3>2. Prompt(p) => Prompt(p)'
      BY <2>1 DEF Prompt
    <3>3. Search(p) => Search(p)'
      BY <2>1 DEF Search, Entered, Room
    <3>4. Length(p) => Length(p)'
      BY <2>1, <3>1 DEF Length
    <3>5. Find(p) => Find(p)'
      BY <2>1, <3>1 DEF Find
    <3>6. Complete(p) => Complete(p)'
      BY <2>1 DEF Complete, Entered
    <3> QED
      BY <3>1, <3>2, <3>3, <3>4, <3>5, <3>6
  <2>4. ASSUME NEW m, NEW p
        PROVE  /\ Copy(m, p) => Copy(m, p)'
               /\ Move(m, p) => Move(m, p)'
               /\ Header(m, p) => Header(m, p)'
               /\ Tokens(m, p) => Tokens(m, p)'
    <3>1. Opened(m, p) => Opened(m, p)'
      BY <2>1 DEF Opened, Entered, Room, Rest, Splits
    <3>2. Copy(m, p) => Copy(m, p)'
      BY <2>1 DEF Copy, Entered, Room
    <3>3. Move(m, p) => Move(m, p)'
      BY <2>1 DEF Move, Entered, Room, Rest, Splits
    <3>4. Header(m, p) => Header(m, p)'
      BY <2>1, <3>1 DEF Header
    <3>5. Tokens(m, p) => Tokens(m, p)'
      BY <2>1, <3>1 DEF Tokens
    <3> QED
      BY <3>2, <3>3, <3>4, <3>5
  <2>5. Inv'
    <3>1. (pc \in {"host", "next"} => \E p : Prompt(p))'
      BY <2>1, <2>3 DEF Inv
    <3>2. (pc = "ldLoop" => \E p : Search(p))'
      BY <2>1, <2>3 DEF Inv
    <3>3. (pc = "ldCopy" => \E m, p : Copy(m, p))'
      BY <2>1, <2>4 DEF Inv
    <3>4. (pc = "deleted" => \E p : Ready(p))'
      BY <2>1, <2>3 DEF Inv
    <3>5. (pc = "liLength" => \E p : Length(p))'
      BY <2>1, <2>3 DEF Inv
    <3>6. (pc = "liFind" => \E p : Find(p))'
      BY <2>1, <2>3 DEF Inv
    <3>7. (pc = "liMove" => \E m, p : Move(m, p))'
      BY <2>1, <2>4 DEF Inv
    <3>8. (pc = "liHeader" => \E m, p : Header(m, p))'
      BY <2>1, <2>4 DEF Inv
    <3>9. (pc = "liTokens" => \E m, p : Tokens(m, p))'
      BY <2>1, <2>4 DEF Inv
    <3>10. (pc = "inserted" => \E p : Complete(p))'
      BY <2>1, <2>3 DEF Inv
    <3> QED
      BY <2>2, <3>1, <3>2, <3>3, <3>4, <3>5, <3>6, <3>7, <3>8, <3>9, <3>10 DEF Inv
  <2> QED
    BY <2>1, <2>5
<1>2. ASSUME NEW n \in Numbers, NEW body \in Bodies, listing' = [listing EXCEPT ![n] = body]
      PROVE  Store!Next
  BY <1>2 DEF Store!Next, Store!Enter
<1>3. CASE Boot
  BY <1>3, BootStep DEF Boot
<1>4. CASE \E n \in Numbers, body \in Bodies : AddBASICLine(n, body)
  BY <1>2, <1>4, AddBASICLineStep
<1>5. CASE \E body \in Bodies : TypeLineZero(body)
  BY <1>5, TypeLineZeroStep DEF TypeLineZero
<1>6. CASE \E n \in Numbers, body \in Bodies : TypeLine(n, body)
  BY <1>6, TypeLineStep DEF TypeLine
<1>7. CASE DeleteSearch
  BY <1>7, DeleteSearchStep DEF DeleteSearch
<1>8. CASE DeleteCopy
  BY <1>8, DeleteCopyStep DEF DeleteCopy
<1>9. CASE Deleted
  BY <1>2, <1>9, DeletedStep, BodiesAssumption
<1>10. CASE InsertLength
  BY <1>10, InsertLengthStep DEF InsertLength
<1>11. CASE InsertFind
  BY <1>11, InsertFindStep DEF InsertFind
<1>12. CASE InsertMove
  BY <1>12, InsertMoveStep DEF InsertMove
<1>13. CASE InsertHeader
  BY <1>13, InsertHeaderStep DEF InsertHeader
<1>14. CASE InsertTokens
  BY <1>14, InsertTokensStep DEF InsertTokens
<1>15. CASE Inserted
  BY <1>2, <1>15, InsertedStep
<1> QED
  BY <1>1, <1>3, <1>4, <1>5, <1>6, <1>7, <1>8, <1>9, <1>10, <1>11, <1>12, <1>13, <1>14, <1>15
     DEF Next, Host, Keyboard, Editor

LEMMA Invariance == Spec => []Inv
<1>1. Inv /\ [Next]_vars => Inv'
  BY NextStep
<1> QED
  BY <1>1, InitStep, PTL DEF Spec

\* Whatever lines are entered, with numbers that have a line and numbers that
\* have none, at the start, in the middle and at the end of the program: when
\* the prompt is back every offset is the size of its line, and the numbers
\* ascend (LineDelete and LineInsert, editline.asm:20-145).
THEOREM EditingKeepsProgramSound == Spec => []ProgramSound
<1>1. Inv => ProgramSound
  <2> SUFFICES ASSUME Inv PROVE ProgramSound
    OBVIOUS
  <2>1. TypeOK
    BY DEF Inv
  <2>2. ASSUME AtPrompt, NEW i \in 1..Len(LinesOf(mem))
        PROVE  /\ mem[LinesOf(mem)[i]] = LineSize(TokensAt(mem, LinesOf(mem)[i] + 4))
               /\ i > 1 => mem[LinesOf(mem)[i - 1] + 2] < mem[LinesOf(mem)[i] + 2]
    <3>1. PICK p : Prompt(p)
      BY <2>2 DEF Inv, AtPrompt
    <3>2. Holds(mem, p)
      BY <3>1 DEF Prompt
    <3>3. PICK lines : lines = LinesOf(mem)
      OBVIOUS
    <3>4. Ordered(lines, p, ProgramStart) /\ Len(lines) \in Nat
      BY <3>2, <3>3, LinesFound DEF Ordered
    <3>5. lines[i] \in p.lines
      BY <2>2, <3>3, <3>4 DEF Ordered
    <3>6. mem[lines[i]] = LineSize(TokensAt(mem, lines[i] + 4))
      BY <3>2, <3>5, LinkFacts, TokensFound
    <3>7. ASSUME i > 1 PROVE mem[lines[i - 1] + 2] < mem[lines[i] + 2]
      <4>1. i - 1 \in 1..Len(lines) /\ i - 1 < i /\ i \in 1..Len(lines)
        BY <2>2, <3>3, <3>4, <3>7
      <4>2. lines[i - 1] \in p.lines /\ lines[i - 1] < lines[i]
        BY <3>4, <4>1 DEF Ordered
      <4>3. p.number[lines[i - 1]] < p.number[lines[i]]
        BY <3>2, <3>5, <4>2 DEF Holds, Shape
      <4> QED
        BY <3>2, <3>5, <4>2, <4>3 DEF Holds, LineAt
    <3> QED
      BY <3>3, <3>6, <3>7
  <2> QED
    BY <2>1, <2>2 DEF ProgramSound
<1> QED
  BY <1>1, Invariance, PTL

\* At the prompt the low memory pointer and the markers are where the program
\* ends (ClearVariablesPointersAndStacks, run.asm:66-92, after every edit).
THEOREM VariablesStartPastProgram == Spec => []LowPastProgram
<1>1. Inv => LowPastProgram
  <2> SUFFICES ASSUME Inv, AtPrompt
               PROVE  /\ low = FindCodeEnd(mem) + 6
                      /\ mem[FindCodeEnd(mem) + 2] = EndMarker
                      /\ mem[FindCodeEnd(mem) + 4] = EndMarker
    BY DEF LowPastProgram
  <2>1. PICK p : Prompt(p)
    BY DEF Inv, AtPrompt
  <2> QED
    BY <2>1, EndFound DEF Prompt
<1> QED
  BY <1>1, Invariance, PTL

\* An edit changes the line that is entered and no other: what is listed at the
\* prompt takes only the steps of ProgramStore.
THEOREM EditingImplementsStore == Spec => ImplementsProgramStore
<1>1. Inv /\ [Next]_vars => [Store!Next]_listing
  BY NextStep
<1>2. Init => Store!Init
  BY InitStep
<1> QED
  BY <1>1, <1>2, Invariance, PTL DEF Spec, ImplementsProgramStore, Store!Spec

-----------------------------------------------------------------------------
(* The token buffer. *)

CONSTANTS Table, LowTop, ShiftTop, BufferSize, Texts
VARIABLES line, text, at, out, used, top, label
Tok == INSTANCE Tokeniser

EvenBuffer == BufferSize \in Nat /\ BufferSize % 2 = 0 /\ BufferSize > 4

\* What is kept while tokens are written: the next one starts at an even
\* place, at least a word before the end of the buffer.
Writing ==
  /\ text \in Seq(Int) /\ at \in Nat
  /\ used \in Nat /\ used % 2 = 0 /\ used + 2 <= BufferSize
  /\ top \in Nat /\ top <= BufferSize

\* A token whose size is known.
Sized(t) == t.is = "string" => Len(t.text) \in Nat
AllSized(ts) == Len(ts) \in Nat /\ DOMAIN ts = 1..Len(ts) /\ \A i \in 1..Len(ts) : Sized(ts[i])

-----------------------------------------------------------------------------
(* Even places. *)

LEMMA EvenHalf ==
  ASSUME NEW u \in Nat
  PROVE  u % 2 = 0 <=> \E k \in Nat : u = 2 * k
OBVIOUS

LEMMA HalfOf ==
  ASSUME NEW u \in Nat
  PROVE  u \div 2 \in Nat /\ (u = 2 * (u \div 2) \/ u = 2 * (u \div 2) + 1)
OBVIOUS

\* A token takes an even number of bytes, and what is written of it is all the
\* even places of them, or more.
LEMMA WritesFacts ==
  ASSUME NEW t, Sized(t), NEW u \in Nat, u % 2 = 0
  PROVE  /\ Tok!Size(t) \in Nat /\ Tok!Size(t) % 2 = 0 /\ Tok!Size(t) >= 2
         /\ Tok!Writes(t, u) \subseteq u..(u + Tok!Size(t) - 1)
         /\ \A w \in u..(u + Tok!Size(t) - 1) : w % 2 = 0 => w \in Tok!Writes(t, u)
<1>1. CASE t.is = "string"
  <2>1. PICK l \in Nat : l = Len(t.text)
    BY <1>1 DEF Sized
  <2>2. PICK h \in Nat : h = (l + 4) \div 2 /\ (l + 4 = 2 * h \/ l + 4 = 2 * h + 1)
    <3>1. l + 4 \in Nat
      BY <2>1
    <3> QED
      BY <3>1, HalfOf
  <2>3. Tok!Size(t) = 2 * h /\ Tok!Writes(t, u) = {u} \cup (u + 2)..(u + 2 + l)
    BY <1>1, <2>1, <2>2 DEF Tok!Size, Tok!Writes
  <2>4. PICK j \in Nat : u = 2 * j
    BY EvenHalf
  <2>5. (2 * h) % 2 = 0 /\ h >= 2
    BY <2>2
  <2>6. ASSUME NEW w \in u..(u + 2 * h - 1), w % 2 = 0 PROVE w \in {u} \cup (u + 2)..(u + 2 + l)
    <3>1. w \in Nat
      BY <2>6
    <3>2. PICK k \in Nat : w = 2 * k
      BY <2>6, <3>1, EvenHalf
    <3> QED
      BY <2>2, <2>4, <2>6, <3>2
  <2>7. {u} \cup (u + 2)..(u + 2 + l) \subseteq u..(u + 2 * h - 1)
    BY <2>2
  <2> QED
    BY <2>3, <2>5, <2>6, <2>7
<1>2. CASE t.is # "string"
  <2>1. Tok!Size(t) = 2 /\ Tok!Writes(t, u) = {u}
    BY <1>2 DEF Tok!Size, Tok!Writes
  <2>2. PICK j \in Nat : u = 2 * j
    BY EvenHalf
  <2>3. ASSUME NEW w \in u..(u + 1), w % 2 = 0 PROVE w = u
    <3>1. PICK k \in Nat : w = 2 * k
      BY <2>3, EvenHalf
    <3> QED
      BY <2>2, <2>3, <3>1
  <2> QED
    BY <2>1, <2>3
<1> QED
  BY <1>1, <1>2

-----------------------------------------------------------------------------
(* Where the tokens start. *)

Follows(f, n, u, ts) ==
  [i \in 1..(n + 1) |-> IF i = 1 THEN u ELSE f[i - 1] + Tok!Size(ts[i - 1])]

LEMMA StartExists ==
  ASSUME NEW n \in Nat, NEW u \in Nat, NEW ts, \A i \in 1..n : Tok!Size(ts[i]) \in Nat
  PROVE  \E f : f = Follows(f, n, u, ts)
<1> DEFINE Up(k, f) == /\ f \in [1..k -> Nat]
                       /\ \A i \in 1..k : f[i] = IF i = 1 THEN u ELSE f[i - 1] + Tok!Size(ts[i - 1])
           K == {k \in 1..(n + 1) : \E f : Up(k, f)}
<1>1. 1 \in K
  <2> DEFINE g == [i \in 1..1 |-> u]
  <2>1. g \in [1..1 -> Nat] /\ g[1] = u /\ \A i \in 1..1 : i = 1
    OBVIOUS
  <2> HIDE DEF g
  <2>2. Up(1, g)
    BY <2>1
  <2>3. 1 \in 1..(n + 1)
    OBVIOUS
  <2> HIDE DEF Up
  <2> QED
    BY <2>2, <2>3
<1>2. PICK m \in K : \A k \in K : m >= k
  <2> HIDE DEF Up
  <2>1. K \in SUBSET (1..(n + 1)) /\ n + 1 \in Nat
    OBVIOUS
  <2> HIDE DEF K
  <2> QED
    BY <1>1, <2>1, MaxType
<1>3. PICK f : Up(m, f)
  BY <1>2
<1>4. ASSUME m # n + 1 PROVE FALSE
  <2> DEFINE g == [i \in 1..(m + 1) |-> IF i = m + 1 THEN f[m] + Tok!Size(ts[m]) ELSE f[i]]
  <2>1. m \in 1..n /\ m + 1 \in 1..(n + 1)
    BY <1>2, <1>4
  <2>2. f[m] \in Nat /\ Tok!Size(ts[m]) \in Nat
    BY <1>3, <2>1
  <2>3. \A i \in 1..(m + 1) : i # m + 1 => i \in 1..m
    BY <2>1
  <2>4. g \in [1..(m + 1) -> Nat]
    BY <1>3, <2>2, <2>3
  <2>5. ASSUME NEW i \in 1..(m + 1)
        PROVE  g[i] = IF i = 1 THEN u ELSE g[i - 1] + Tok!Size(ts[i - 1])
    <3>1. CASE i = m + 1
      <4>1. i # 1 /\ i - 1 = m /\ m \in 1..(m + 1) /\ m # m + 1
        BY <2>1, <3>1
      <4> QED
        BY <3>1, <4>1
    <3>2. CASE i # m + 1
      <4>1. i \in 1..m
        BY <2>3, <3>2
      <4>2. g[i] = f[i]
        BY <3>2
      <4>3. ASSUME i # 1 PROVE g[i - 1] = f[i - 1]
        <5>1. i - 1 \in 1..(m + 1) /\ i - 1 # m + 1
          BY <2>1, <4>1, <4>3
        <5> QED
          BY <5>1
      <4> HIDE DEF g
      <4> QED
        BY <1>3, <4>1, <4>2, <4>3
    <3> QED
      BY <3>1, <3>2
  <2>6. Up(m + 1, g)
    <3> HIDE DEF g
    <3> QED
      BY <2>4, <2>5
  <2>7. m + 1 \in K
    <3> HIDE DEF g, Up
    <3> QED
      BY <2>1, <2>6
  <2>8. ~(m >= m + 1)
    BY <2>1
  <2> HIDE DEF K
  <2> QED
    BY <1>2, <2>7, <2>8
<1>5. f = Follows(f, n, u, ts)
  BY <1>3, <1>4 DEF Follows
<1> QED
  BY <1>5

LEMMA StartFacts ==
  ASSUME NEW n \in Nat, NEW u \in Nat, u % 2 = 0,
         NEW ts, \A i \in 1..n : Tok!Size(ts[i]) \in Nat /\ Tok!Size(ts[i]) % 2 = 0 /\ Tok!Size(ts[i]) >= 2,
         NEW start, start = Follows(start, n, u, ts)
  PROVE  /\ start[1] = u
         /\ \A i \in 1..n : start[i + 1] = start[i] + Tok!Size(ts[i])
         /\ \A i \in 1..(n + 1) : start[i] \in Nat /\ start[i] % 2 = 0 /\ start[i] >= u
<1>2. \A i \in 1..(n + 1) : start[i] = IF i = 1 THEN u ELSE start[i - 1] + Tok!Size(ts[i - 1])
  BY DEF Follows
<1>3. ASSUME NEW i \in 1..n PROVE start[i + 1] = start[i] + Tok!Size(ts[i])
  <2>1. i + 1 \in 1..(n + 1) /\ i + 1 # 1 /\ (i + 1) - 1 = i
    OBVIOUS
  <2> QED
    BY <1>2, <2>1
<1> DEFINE Bad == {i \in 1..(n + 1) : ~(start[i] \in Nat /\ start[i] % 2 = 0 /\ start[i] >= u)}
<1>4. Bad = {}
  <2> SUFFICES ASSUME Bad # {} PROVE FALSE
    OBVIOUS
  <2>1. PICK i \in Bad : \A j \in Bad : i <= j
    <3>1. Bad \in SUBSET (1..(n + 1)) /\ n + 1 \in Nat
      OBVIOUS
    <3> HIDE DEF Bad
    <3> QED
      BY <3>1, LeastExists
  <2>2. i \in 1..(n + 1) /\ i # 1
    BY <1>2, <2>1
  <2>3. i - 1 \in 1..n /\ i - 1 \in 1..(n + 1) /\ ~(i <= i - 1) /\ (i - 1) + 1 = i
    BY <2>2
  <2>4. i - 1 \notin Bad
    <3> HIDE DEF Bad
    <3> QED
      BY <2>1, <2>3
  <2>5. start[i - 1] \in Nat /\ start[i - 1] % 2 = 0 /\ start[i - 1] >= u
    BY <2>3, <2>4
  <2>6. start[i] = start[i - 1] + Tok!Size(ts[i - 1])
    BY <1>3, <2>3
  <2>7. Tok!Size(ts[i - 1]) \in Nat /\ Tok!Size(ts[i - 1]) % 2 = 0 /\ Tok!Size(ts[i - 1]) >= 2
    BY <2>3
  <2>8. start[i] \in Nat /\ start[i] % 2 = 0 /\ start[i] >= u
    BY <2>5, <2>6, <2>7
  <2> QED
    BY <2>1, <2>8
<1>5. start[1] = u
  BY <1>2
<1> QED
  BY <1>3, <1>4, <1>5

-----------------------------------------------------------------------------
(* Writing tokens. *)

\* The greatest element, when nothing is below 0, and the least.
LEMMA MaxFromZero ==
  ASSUME NEW n \in Nat, NEW I \in SUBSET (0..n), I # {}
  PROVE  Tok!Max(I) \in I /\ \A j \in I : Tok!Max(I) >= j
<1> DEFINE J == {i + 1 : i \in I}
<1>1. J \in SUBSET (1..(n + 1)) /\ J # {} /\ n + 1 \in Nat
  <2>1. \A i \in I : i + 1 \in 1..(n + 1)
    OBVIOUS
  <2>2. PICK i \in I : TRUE
    OBVIOUS
  <2>3. i + 1 \in J
    OBVIOUS
  <2> QED
    BY <2>1, <2>3
<1>2. Tok!Max(J) \in J /\ \A j \in J : Tok!Max(J) >= j
  <2> HIDE DEF J
  <2> QED
    BY <1>1, MaxType DEF Max, Tok!Max
<1>3. PICK i \in I : Tok!Max(J) = i + 1
  BY <1>2
<1>4. \A j \in I : i + 1 >= j + 1
  BY <1>2, <1>3
<1>5. \A j \in I : j \in Int
  OBVIOUS
<1>6. \A j \in I : i >= j
  BY <1>4, <1>5
<1> QED
  BY <1>6 DEF Tok!Max

LEMMA MinType ==
  ASSUME NEW n \in Nat, NEW I \in SUBSET (1..n), I # {}
  PROVE  Tok!Min(I) \in I /\ \A j \in I : Tok!Min(I) <= j
BY LeastExists DEF Tok!Min

\* What lies behind the end of the buffer is never written: the last word of it
\* would have to be written before, and then the buffer is full.
LEMMA EmitFits ==
  ASSUME EvenBuffer, Writing, NEW ts, AllSized(ts), Tok!Emit(ts)
  PROVE  /\ used' \in Nat /\ used' % 2 = 0 /\ used' + 2 <= BufferSize
         /\ top' \in Nat /\ top' <= BufferSize
<1> DEFINE n == Len(ts)
           start == CHOOSE f : f = [i \in 1..(Len(ts) + 1) |->
                                IF i = 1 THEN used ELSE f[i - 1] + Tok!Size(ts[i - 1])]
           all == UNION {Tok!Writes(ts[i], start[i]) : i \in DOMAIN ts}
           full == {u \in all : Tok!Full(u)}
           last == IF full = {} THEN all ELSE {Tok!Min(full)}
<1>1. n \in Nat /\ DOMAIN ts = 1..n /\ \A i \in 1..n : Sized(ts[i])
  BY DEF AllSized
<1>2. /\ top' = Tok!Max({top} \cup {u + 2 : u \in last})
      /\ IF full = {} THEN used' = start[n + 1] ELSE used' = used
  <2>1. /\ top' = Tok!Max({top} \cup {u + 2 : u \in last})
        /\ IF full = {}
             THEN /\ out' = out \o ts /\ used' = start[n + 1]
                  /\ label' = label
             ELSE label' = "Line too long" /\ UNCHANGED <<out, used>>
    BY Zenon DEF Tok!Emit
  <2>2. top' = Tok!Max({top} \cup {u + 2 : u \in last})
    BY Zenon, <2>1
  <2> HIDE DEF full, last, start
  <2>3. IF full = {} THEN used' = start[n + 1] ELSE used' = used
    BY <2>1
  <2> QED
    BY Zenon, <2>2, <2>3
<1>4. /\ \A i \in 1..n : Tok!Size(ts[i]) \in Nat /\ Tok!Size(ts[i]) % 2 = 0 /\ Tok!Size(ts[i]) >= 2
      /\ used \in Nat /\ used % 2 = 0 /\ used + 2 <= BufferSize
      /\ top \in Nat /\ top <= BufferSize /\ BufferSize \in Nat
  BY <1>1, WritesFacts DEF Writing, EvenBuffer
<1>3. start = Follows(start, n, used, ts)
  <2>1. \E f : f = Follows(f, n, used, ts)
    BY <1>1, <1>4, StartExists
  <2>2. start = CHOOSE f : f = Follows(f, n, used, ts)
    BY DEF Follows
  <2> HIDE DEF start
  <2> QED
    BY <2>1, <2>2
<1> HIDE DEF start
<1>5. /\ start[1] = used
      /\ \A i \in 1..n : start[i + 1] = start[i] + Tok!Size(ts[i])
      /\ \A i \in 1..(n + 1) : start[i] \in Nat /\ start[i] % 2 = 0 /\ start[i] >= used
  <2>1. n \in Nat /\ used \in Nat /\ used % 2 = 0
    BY <1>1, <1>4
  <2>2. \A i \in 1..n : Tok!Size(ts[i]) \in Nat /\ Tok!Size(ts[i]) % 2 = 0 /\ Tok!Size(ts[i]) >= 2
    BY <1>4
  <2> HIDE DEF n
  <2> QED
    BY <1>3, <2>1, <2>2, StartFacts
<1>6. \A i \in 1..n :
        /\ Tok!Writes(ts[i], start[i]) \subseteq start[i]..(start[i + 1] - 1)
        /\ \A w \in start[i]..(start[i + 1] - 1) : w % 2 = 0 => w \in Tok!Writes(ts[i], start[i])
  <2> SUFFICES ASSUME NEW i \in 1..n
               PROVE  /\ Tok!Writes(ts[i], start[i]) \subseteq start[i]..(start[i + 1] - 1)
                      /\ \A w \in start[i]..(start[i + 1] - 1) :
                           w % 2 = 0 => w \in Tok!Writes(ts[i], start[i])
    OBVIOUS
  <2>1. /\ start[i] \in Nat /\ start[i] % 2 = 0 /\ Sized(ts[i])
        /\ start[i + 1] = start[i] + Tok!Size(ts[i])
    BY <1>1, <1>5
  <2> QED
    BY <2>1, WritesFacts
<1>7. \A u \in all : u \in Nat
  <2> SUFFICES ASSUME NEW i \in 1..n, NEW u \in Tok!Writes(ts[i], start[i]) PROVE u \in Nat
    BY <1>1
  <2>1. i \in 1..(n + 1) /\ i + 1 \in 1..(n + 1)
    BY <1>1
  <2>2. start[i] \in Nat /\ start[i + 1] \in Nat /\ u \in start[i]..(start[i + 1] - 1)
    BY <1>5, <1>6, <2>1
  <2> QED
    BY <2>2
\* The last word of the buffer is written before what is behind it.
<1>8. ASSUME NEW i \in 1..(n + 1), start[i] > BufferSize - 2
      PROVE  BufferSize - 2 \in all
  <2> DEFINE I == {j \in 1..(n + 1) : start[j] > BufferSize - 2}
  <2>1. PICK j \in I : \A k \in I : j <= k
    <3>1. I \in SUBSET (1..(n + 1)) /\ I # {} /\ n + 1 \in Nat
      BY <1>1, <1>8
    <3> HIDE DEF I
    <3> QED
      BY <3>1, LeastExists
  <2>2. j # 1
    BY <1>4, <1>5, <2>1
  <2>3. PICK k \in 1..n : j = k + 1
    <3>1. j - 1 \in 1..n /\ j = (j - 1) + 1
      BY <1>1, <2>1, <2>2
    <3> QED
      BY <3>1
  <2>4. k \in 1..(n + 1) /\ ~(j <= k)
    BY <1>1, <2>3
  <2>5. ~(start[k] > BufferSize - 2) /\ start[k + 1] > BufferSize - 2
    BY <2>1, <2>3, <2>4
  <2>6. start[k] \in Nat /\ start[k + 1] \in Nat
    BY <1>1, <1>5, <2>1, <2>3, <2>4
  <2>7. BufferSize - 2 \in start[k]..(start[k + 1] - 1) /\ (BufferSize - 2) % 2 = 0
    BY <2>5, <2>6 DEF EvenBuffer
  <2>8. BufferSize - 2 \in Tok!Writes(ts[k], start[k])
    BY <1>6, <2>7
  <2> QED
    BY <1>1, <2>8
<1>9. \A u \in all : u > BufferSize - 2 => BufferSize - 2 \in all
  <2> SUFFICES ASSUME NEW i \in 1..n, NEW u \in Tok!Writes(ts[i], start[i]), u > BufferSize - 2
               PROVE  BufferSize - 2 \in all
    BY <1>1
  <2>1. i + 1 \in 1..(n + 1) /\ i \in 1..(n + 1)
    BY <1>1
  <2>2. start[i] \in Nat /\ start[i + 1] \in Nat /\ u \in start[i]..(start[i + 1] - 1)
    BY <1>5, <1>6, <2>1
  <2>3. start[i + 1] > BufferSize - 2
    BY <1>4, <2>2
  <2> QED
    BY <1>8, <2>1, <2>3
<1>10. BufferSize - 2 \in all => BufferSize - 2 \in full
  <2>1. Tok!Full(BufferSize - 2)
    BY DEF Tok!Full, EvenBuffer
  <2> QED
    BY <2>1
<1> HIDE DEF all
<1>11. CASE full = {}
  <2>1. BufferSize - 2 \notin all /\ last = all
    BY <1>10, <1>11
  <2>2. \A u \in all : u + 2 \in 0..BufferSize
    BY <1>4, <1>7, <1>9, <2>1
  <2>3. used' = start[n + 1] /\ n + 1 \in 1..(n + 1)
    BY <1>1, <1>2, <1>11
  <2>4. ~(start[n + 1] > BufferSize - 2)
    BY <1>8, <2>1, <2>3
  <2>5. used' \in Nat /\ used' % 2 = 0 /\ used' + 2 <= BufferSize
    BY <1>4, <1>5, <2>3, <2>4
  <2>6. top' = Tok!Max({top} \cup {u + 2 : u \in all})
    BY <1>2, <2>1
  <2>7. top' \in 0..BufferSize
    <3> DEFINE I == {top} \cup {u + 2 : u \in all}
    <3>1. I \in SUBSET (0..BufferSize) /\ I # {}
      BY <1>4, <2>2
    <3> HIDE DEF I
    <3> QED
      BY <1>4, <2>6, <3>1, MaxFromZero DEF I
  <2>8. top' \in Nat /\ top' <= BufferSize
    BY <1>4, <2>7
  <2> QED
    BY <2>5, <2>8
<1>12. CASE full # {}
  <2>1. BufferSize - 2 \in full
    <3>1. PICK u \in full : TRUE
      BY <1>12
    <3>2. u \in all /\ u \in Nat /\ (u + 2) % BufferSize = 0
      BY <1>7 DEF Tok!Full
    <3>3. u + 2 >= BufferSize
      <4>1. ASSUME u + 2 < BufferSize PROVE (u + 2) % BufferSize = u + 2
        BY <1>4, <3>2, <4>1
      <4> QED
        BY <1>4, <3>2, <4>1
    <3>4. u = BufferSize - 2 \/ u > BufferSize - 2
      BY <1>4, <3>2, <3>3
    <3> QED
      BY <1>9, <1>10, <3>2, <3>4
  <2>2. Tok!Min(full) = BufferSize - 2
    <3>1. ASSUME NEW u \in full PROVE u >= BufferSize - 2
      <4>1. u \in all /\ u \in Nat /\ (u + 2) % BufferSize = 0
        BY <1>7 DEF Tok!Full
      <4>2. ASSUME u + 2 < BufferSize PROVE (u + 2) % BufferSize = u + 2
        BY <1>4, <4>1, <4>2
      <4> QED
        BY <1>4, <4>1, <4>2
    <3>2. \A u \in full : u \in Nat
      BY <1>7
    <3> HIDE DEF full
    <3>3. Tok!Min(full) \in full /\ \A u \in full : Tok!Min(full) <= u
      BY <2>1, <3>1 DEF Tok!Min
    <3> QED
      BY <1>4, <2>1, <3>1, <3>2, <3>3
  <2>3. last = {BufferSize - 2}
    BY <1>12, <2>2
  <2>4. top' = Tok!Max({top, BufferSize})
    <3>1. {u + 2 : u \in {BufferSize - 2}} = {BufferSize}
      BY <1>4
    <3>2. {top} \cup {u + 2 : u \in {BufferSize - 2}} = {top, BufferSize}
      BY <3>1
    <3> QED
      BY <1>2, <2>3, <3>2
  <2>5. top' \in 0..BufferSize
    <3>1. {top, BufferSize} \in SUBSET (0..BufferSize) /\ {top, BufferSize} # {}
      BY <1>4
    <3> QED
      BY <1>4, <2>4, <3>1, MaxFromZero
  <2> QED
    BY <1>2, <1>4, <1>12, <2>5
<1> QED
  BY <1>11, <1>12

-----------------------------------------------------------------------------
(* The tokens of each item, and the steps. *)

LEMMA OneSized ==
  ASSUME NEW t, Sized(t)
  PROVE  AllSized(<<t>>)
BY DEF AllSized

LEMMA KeywordSized == \A k : AllSized(<<Tok!Keyword(k)>>)
BY OneSized DEF Sized, Tok!Keyword

LEMMA ConstantSized == \A v : AllSized(Tok!ConstantTokens(v))
<1> SUFFICES ASSUME NEW v PROVE AllSized(Tok!ConstantTokens(v))
  OBVIOUS
<1>1. CASE v >= LowTop
  <2>1. PICK p, q : p = Tok!Shift(v \div LowTop) /\ q = Tok!Constant(v % LowTop)
    OBVIOUS
  <2>2. Tok!ConstantTokens(v) = <<p>> \o <<q>>
    BY <1>1, <2>1 DEF Tok!ConstantTokens
  <2>3. \A s, t \in Seq({p, q}) :
          /\ s \o t \in Seq({p, q}) /\ Len(s \o t) = Len(s) + Len(t)
    OBVIOUS
  <2>5. <<p>> \o <<q>> \in Seq({p, q}) /\ Len(<<p>> \o <<q>>) = 2
    <3>1. <<p>> \in Seq({p, q}) /\ <<q>> \in Seq({p, q}) /\ Len(<<p>>) = 1 /\ Len(<<q>>) = 1
      OBVIOUS
    <3> QED
      BY <2>3, <3>1
  <2>4. p.is # "string" /\ q.is # "string"
    BY <2>1 DEF Tok!Shift, Tok!Constant
  <2> QED
    BY <2>2, <2>5, <2>4 DEF AllSized, Sized
<1>2. CASE ~(v >= LowTop)
  <2>1. Tok!ConstantTokens(v) = <<Tok!Constant(v % LowTop)>>
    <3>1. PICK q : q = Tok!Constant(v % LowTop)
      OBVIOUS
    <3>2. <<>> \o <<q>> = <<q>>
      OBVIOUS
    <3> QED
      BY <1>2, <3>1, <3>2 DEF Tok!ConstantTokens
  <2> QED
    BY <2>1, OneSized DEF Sized, Tok!Constant
<1> QED
  BY <1>1, <1>2

LEMMA NameSized ==
  ASSUME NEW s, Len(s) \in Nat, NEW str, NEW arr
  PROVE  AllSized(Tok!NameTokens(s, str, arr))
<1>1. (Len(s) + 1) \div 2 \in Nat
  OBVIOUS
<1>2. PICK words \in Nat : words = (Len(s) + 1) \div 2
  BY <1>1
<1> DEFINE ts == Tok!NameTokens(s, str, arr)
<1>3. ts = [w \in 1..words |->
        Tok!Name(Tok!Packed(Tok!Code(s[2 * w - 1]), IF 2 * w <= Len(s) THEN Tok!Code(s[2 * w]) ELSE 0),
             w < words, str, arr)]
  BY <1>2 DEF Tok!NameTokens
<1>4. DOMAIN ts = 1..words /\ \A w \in 1..words : ts[w].is = "name"
  BY <1>3 DEF Tok!Name
<1>5. Len(ts) = words
  <2> HIDE DEF ts
  <2> QED
    BY <1>3
<1> QED
  BY <1>4, <1>5 DEF AllSized, Sized

\* How far a run of characters of one class goes is a number.
LEMMA RunType ==
  ASSUME NEW s, NEW i \in Nat, Len(s) \in Nat, i <= Len(s), NEW P
  PROVE  Tok!Max({n \in 0..(Len(s) + 1 - i) : \A j \in i..(i + n - 1) : j \in P}) \in Nat
<1> DEFINE I == {n \in 0..(Len(s) + 1 - i) : \A j \in i..(i + n - 1) : j \in P}
<1>1. Len(s) + 1 - i \in Nat /\ I \in SUBSET (0..(Len(s) + 1 - i))
  OBVIOUS
<1>2. 0 \in I
  OBVIOUS
<1> HIDE DEF I
<1>3. Tok!Max(I) \in I
  BY <1>1, <1>2, MaxFromZero
<1>4. Tok!Max(I) \in Nat
  <2>1. Tok!Max(I) \in 0..(Len(s) + 1 - i)
    BY <1>1, <1>3
  <2> QED
    BY <1>1, <2>1
<1> QED
  BY <1>4 DEF I

LEMMA EmitWrites ==
  ASSUME EvenBuffer, Writing, NEW ts, AllSized(ts), Tok!Emit(ts), UNCHANGED text, at' \in Nat
  PROVE  Writing'
BY EmitFits DEF Writing

LEMMA FailWrites ==
  ASSUME Writing, NEW message, Tok!Fail(message), UNCHANGED text, at' \in Nat
  PROVE  Writing'
BY DEF Writing, Tok!Fail

LEMMA WiderType ==
  ASSUME NEW S, NEW T, S \subseteq T, NEW s \in Seq(S)
  PROVE  s \in Seq(T)
<1>1. Len(s) \in Nat /\ s \in [1..Len(s) -> S]
  OBVIOUS
<1>2. s \in [1..Len(s) -> T]
  BY <1>1
<1> QED
  BY <1>1, <1>2, FunctionIsSeq

LEMMA CapitaliseWrites == Writing /\ Tok!Capitalise => Writing'
<1> SUFFICES ASSUME Writing, Tok!Capitalise PROVE Writing'
  OBVIOUS
<1>1. text \in Seq(Int) /\ text' = Tok!Capitalised(text)
  BY DEF Writing, Tok!Capitalise
<1>2. \A c \in Int : Tok!Upper(c) \in Int
  BY DEF Tok!Upper
<1>3. Tok!Capitalised(text) \in [1..Len(text) -> Int] /\ Len(text) \in Nat
  <2>1. DOMAIN text = 1..Len(text) /\ Len(text) \in Nat
    BY <1>1
  <2>2. \A i \in 1..Len(text) : text[i] \in Int /\ Tok!Upper(text[i]) \in Int
    BY <1>1, <1>2
  <2>3. DOMAIN Tok!Capitalised(text) = 1..Len(text)
    BY <2>1 DEF Tok!Capitalised
  <2>4. \A i \in 1..Len(text) : Tok!Capitalised(text)[i] = text[i] \/ Tok!Capitalised(text)[i] = Tok!Upper(text[i])
    BY <2>1 DEF Tok!Capitalised
  <2>5. Tok!Capitalised(text) = [i \in 1..Len(text) |-> Tok!Capitalised(text)[i]]
    BY <2>1 DEF Tok!Capitalised
  <2> QED
    BY <2>1, <2>2, <2>4, <2>5
<1>4. Tok!Capitalised(text) \in Seq(Int)
  BY <1>3, FunctionIsSeq
<1> QED
  BY <1>1, <1>4 DEF Writing, Tok!Capitalise

LEMMA StringWrites == EvenBuffer /\ Writing /\ Tok!QuotedString => Writing'
<1> SUFFICES ASSUME EvenBuffer, Writing, Tok!QuotedString PROVE Writing'
  OBVIOUS
<1> DEFINE ends == {i \in (at + 1)..Len(text) : text[i] = Tok!Quote}
<1>1. at \in Nat /\ Len(text) \in Nat /\ UNCHANGED text
  <2>1. Tok!Scanning
    BY Zenon DEF Tok!QuotedString
  <2> QED
    BY <2>1 DEF Writing, Tok!Scanning
<1>10. IF ends = {}
         THEN Tok!Fail("Missing closing quote") /\ at' = Len(text) + 1
         ELSE Tok!Emit(<<Tok!Text(SubSeq(text, at + 1, Tok!Min(ends) - 1))>>) /\ at' = Tok!Min(ends) + 1
  BY Zenon DEF Tok!QuotedString
<1>2. CASE ends = {}
  <2>1. Tok!Fail("Missing closing quote") /\ at' = Len(text) + 1
    BY <1>2, <1>10
  <2>2. at' = Len(text) + 1
    BY <2>1
  <2>3. at' \in Nat
    BY <1>1, <2>2
  <2> QED
    BY <1>1, <2>1, <2>3, FailWrites, Zenon
<1>3. CASE ends # {}
  <2>1. ends \in SUBSET (1..Len(text))
    BY <1>1
  <2>2. Tok!Min(ends) \in Nat
    <3> HIDE DEF ends
    <3>1. Tok!Min(ends) \in ends
      BY <1>1, <1>3, <2>1, MinType
    <3>2. Tok!Min(ends) \in 1..Len(text)
      BY <2>1, <3>1
    <3> QED
      BY <1>1, <3>2
  <2>3. /\ Tok!Emit(<<Tok!Text(SubSeq(text, at + 1, Tok!Min(ends) - 1))>>)
        /\ at' = Tok!Min(ends) + 1
    BY <1>3, <1>10
  <2> HIDE DEF ends
  <2>4. Len(SubSeq(text, at + 1, Tok!Min(ends) - 1)) \in Nat
    BY <1>1, <2>2
  <2>5. AllSized(<<Tok!Text(SubSeq(text, at + 1, Tok!Min(ends) - 1))>>)
    BY <2>4, OneSized DEF Sized, Tok!Text
  <2> QED
    BY <1>1, <2>2, <2>3, <2>5, EmitWrites
<1> QED
  BY <1>2, <1>3

LEMMA PunctuationWrites == EvenBuffer /\ Writing /\ Tok!Punctuation => Writing'
<1> SUFFICES ASSUME EvenBuffer, Writing, Tok!Punctuation PROVE Writing'
  OBVIOUS
<1>1. PICK n \in {1, 2} :
        IF Tok!Found(n) = {} THEN Tok!Fail("Cannot parse line") /\ UNCHANGED at
        ELSE Tok!Emit(<<Tok!Keyword(Tok!Min(Tok!Found(n)))>>) /\ at' = at + n
  BY Zenon DEF Tok!Punctuation, Tok!Lengths
<1>2. at \in Nat /\ at' \in Nat /\ UNCHANGED text
  <2>1. Tok!Scanning
    BY Zenon DEF Tok!Punctuation
  <2>2. at' = at \/ at' = at + n
    BY <1>1
  <2> QED
    BY <2>1, <2>2 DEF Writing, Tok!Scanning
<1> QED
  BY <1>1, <1>2, FailWrites, EmitWrites, KeywordSized

LEMMA EndWrites == EvenBuffer /\ Writing /\ Tok!EndOfLine => Writing'
<1> SUFFICES ASSUME EvenBuffer, Writing, Tok!EndOfLine PROVE Writing'
  OBVIOUS
<1>1. /\ top \in Nat /\ used \in Nat /\ top <= BufferSize /\ used + 2 <= BufferSize
      /\ BufferSize \in Nat
  BY DEF Writing, EvenBuffer
<1>2. {top, used + 2} \in SUBSET (0..BufferSize) /\ {top, used + 2} # {}
  BY <1>1
<1>3. top' = Tok!Max({top, used + 2}) /\ UNCHANGED <<text, at, used>>
  BY DEF Tok!EndOfLine
<1>4. top' \in 0..BufferSize
  BY <1>1, <1>2, <1>3, MaxFromZero
<1> QED
  BY <1>1, <1>3, <1>4 DEF Writing

LEMMA NumberWrites == EvenBuffer /\ Writing /\ Tok!Number => Writing'
<1> SUFFICES ASSUME EvenBuffer, Writing, Tok!Number PROVE Writing'
  OBVIOUS
<1>1. at \in Nat /\ Len(text) \in Nat /\ at <= Len(text) /\ UNCHANGED text
  <2>1. Tok!Scanning
    BY Zenon DEF Tok!Number
  <2> QED
    BY <2>1 DEF Writing, Tok!Scanning
<1>2. PICK n, I, v :
        /\ n = Tok!Run(text, at, Tok!IsDigit) /\ I \subseteq 1..n
        /\ IF I # {} THEN Tok!Fail("Integer too large") /\ at' = at + Tok!Min(I) - 1
           ELSE /\ at' = at + n
                /\ IF Tok!ShiftFits(v) THEN Tok!Emit(Tok!ConstantTokens(v))
                   ELSE Tok!Fail("Integer too large")
  <2> DEFINE n == Tok!Run(text, at, Tok!IsDigit)
             sum == CHOOSE sum : sum = [i \in 0..n |->
                      IF i = 0 THEN 0
                      ELSE ((sum[i - 1] * 10) % Tok!LongTop) + text[at + i - 1] - 48]
             I == {i \in 1..n : Tok!TooLarge(sum[i - 1])}
  <2>1. IF I # {} THEN Tok!Fail("Integer too large") /\ at' = at + Tok!Min(I) - 1
        ELSE /\ at' = at + n
             /\ IF Tok!ShiftFits(sum[n]) THEN Tok!Emit(Tok!ConstantTokens(sum[n]))
                ELSE Tok!Fail("Integer too large")
    BY Zenon DEF Tok!Number
  <2>2. I \subseteq 1..n
    OBVIOUS
  <2> HIDE DEF I, sum
  <2> QED
    BY <2>1, <2>2
<1>3. n \in Nat
  <2>1. n = Tok!Max({k \in 0..(Len(text) + 1 - at) : \A j \in at..(at + k - 1) : Tok!IsDigit(text[j])})
    BY <1>2, Zenon DEF Tok!Run
  <2> DEFINE P == {j \in at..(at + Len(text)) : Tok!IsDigit(text[j])}
  <2>2. \A k \in 0..(Len(text) + 1 - at) : \A j \in at..(at + k - 1) : j \in P <=> Tok!IsDigit(text[j])
    <3> SUFFICES ASSUME NEW k \in 0..(Len(text) + 1 - at), NEW j \in at..(at + k - 1)
                 PROVE  j \in at..(at + Len(text))
      OBVIOUS
    <3> QED
      BY <1>1
  <2> HIDE DEF P
  <2>3. {k \in 0..(Len(text) + 1 - at) : \A j \in at..(at + k - 1) : Tok!IsDigit(text[j])}
          = {k \in 0..(Len(text) + 1 - at) : \A j \in at..(at + k - 1) : j \in P}
    BY <2>2
  <2>4. Tok!Max({k \in 0..(Len(text) + 1 - at) : \A j \in at..(at + k - 1) : j \in P}) \in Nat
    BY <1>1, RunType
  <2> QED
    BY <2>1, <2>3, <2>4
<1>4. at' \in Nat
  <2>1. CASE I # {}
    <3>1. Tok!Min(I) \in I
      BY <1>2, <1>3, <2>1, MinType
    <3>2. Tok!Min(I) \in 1..n /\ at' = at + Tok!Min(I) - 1
      BY <1>2, <2>1, <3>1
    <3> QED
      BY <1>1, <1>3, <3>2
  <2>2. CASE I = {}
    <3>1. at' = at + n
      BY <1>2, <2>2
    <3> QED
      BY <1>1, <1>3, <3>1
  <2> QED
    BY <2>1, <2>2
<1>5. CASE Tok!Fail("Integer too large")
  BY <1>1, <1>4, <1>5, FailWrites, Zenon
<1>6. CASE Tok!Emit(Tok!ConstantTokens(v))
  BY <1>1, <1>4, <1>6, ConstantSized, EmitWrites
<1> QED
  BY <1>2, <1>5, <1>6

LEMMA IdentifierWrites == EvenBuffer /\ Writing /\ Tok!Identifier => Writing'
<1> SUFFICES ASSUME EvenBuffer, Writing, Tok!Identifier PROVE Writing'
  OBVIOUS
<1>1. at \in Nat /\ Len(text) \in Nat /\ at <= Len(text) /\ UNCHANGED text
  <2>1. Tok!Scanning
    BY Zenon DEF Tok!Identifier
  <2> QED
    BY <2>1 DEF Writing, Tok!Scanning
<1> DEFINE I == {k \in 0..(Len(text) + 1 - at) :
                   \A j \in at..(at + k - 1) : Tok!IsUpper(text[j]) \/ Tok!IsDigit(text[j])}
<1> DEFINE n == Tok!Max(I)
           str == Tok!Has(text, at + n, Tok!Dollar)
           m == IF str THEN n + 1 ELSE n
           arr == Tok!Has(text, at + m, Tok!Bracket)
           whole == IF arr THEN m + 1 ELSE m
<1>2. /\ Tok!Emit(IF Tok!Found(whole) # {} THEN <<Tok!Keyword(Tok!Min(Tok!Found(whole)))>>
               ELSE Tok!NameTokens(SubSeq(text, at, at + n - 1), str, arr))
      /\ at' = at + whole
  BY Zenon DEF Tok!Identifier, Tok!Run
<1>3. n \in Nat
  <2> DEFINE P == {j \in at..(at + Len(text)) : Tok!IsUpper(text[j]) \/ Tok!IsDigit(text[j])}
  <2>1. \A k \in 0..(Len(text) + 1 - at) : \A j \in at..(at + k - 1) :
          j \in P <=> Tok!IsUpper(text[j]) \/ Tok!IsDigit(text[j])
    <3> SUFFICES ASSUME NEW k \in 0..(Len(text) + 1 - at), NEW j \in at..(at + k - 1)
                 PROVE  j \in at..(at + Len(text))
      OBVIOUS
    <3> QED
      BY <1>1
  <2> HIDE DEF P
  <2>2. I = {k \in 0..(Len(text) + 1 - at) : \A j \in at..(at + k - 1) : j \in P}
    BY <2>1
  <2>3. Tok!Max({k \in 0..(Len(text) + 1 - at) : \A j \in at..(at + k - 1) : j \in P}) \in Nat
    BY <1>1, RunType
  <2> HIDE DEF I
  <2> QED
    BY <2>2, <2>3
<1> HIDE DEF I, n, str, arr
<1>4. m \in Nat /\ whole \in Nat
  BY <1>3
<1> HIDE DEF m, whole
<1>5. at' \in Nat
  BY <1>1, <1>2, <1>4
<1>6. Len(SubSeq(text, at, at + n - 1)) \in Nat
  BY <1>1, <1>3
<1>7. AllSized(IF Tok!Found(whole) # {} THEN <<Tok!Keyword(Tok!Min(Tok!Found(whole)))>>
               ELSE Tok!NameTokens(SubSeq(text, at, at + n - 1), str, arr))
  BY <1>6, KeywordSized, NameSized
<1> QED
  BY <1>1, <1>2, <1>5, <1>7, EmitWrites

\* However long a line, whatever it is made of and however large the page, no word
\* is written behind the token buffer, where the program starts: every word is
\* followed by the check (TOKWriteToken and its callers, tokeniser.asm:144-345).
THEOREM TokensStayInBuffer ==
  ASSUME EvenBuffer, Tok!TextsAssumption
  PROVE  Tok!Spec => []Tok!WithinBuffer
<1>1. Tok!Init => Writing
  <2> SUFFICES ASSUME Tok!Init PROVE Writing
    OBVIOUS
  <2>1. text \in Seq(Tok!Blank..255) /\ at = 1 /\ used = 0 /\ top = 0
    BY DEF Tok!Init, Tok!TextsAssumption
  <2>2. text \in Seq(Int)
    <3>1. Tok!Blank..255 \subseteq Int
      BY DEF Tok!Blank
    <3> QED
      BY <2>1, <3>1, WiderType
  <2> QED
    BY <2>1, <2>2 DEF Writing, EvenBuffer
<1>2. ASSUME Writing, [Tok!Next]_(Tok!vars) PROVE Writing'
  <2>1. CASE Tok!Space
    BY <1>2, <2>1 DEF Tok!Space, Tok!Scanning, Writing
  <2>2. CASE UNCHANGED Tok!vars
    BY <1>2, <2>2 DEF Tok!vars, Writing
  <2> QED
    BY <1>2, <2>1, <2>2, CapitaliseWrites, StringWrites, PunctuationWrites, NumberWrites,
       IdentifierWrites, EndWrites DEF Tok!Next
<1>3. Writing => Tok!WithinBuffer
  BY DEF Writing, Tok!WithinBuffer
<1> QED
  BY <1>1, <1>2, <1>3, PTL DEF Tok!Spec

-----------------------------------------------------------------------------
(* LIST: the words that open and close structures, counted. *)

CONSTANTS Programs, Arguments, ByteTop, LastNumber
VARIABLES program, from, to, indent, indent2, length, shown
List == INSTANCE Listing

\* The lines of a program and their tokens.
Lined ==
  /\ Len(program) \in Nat /\ DOMAIN program = 1..Len(program)
  /\ \A i \in 1..Len(program) :
       /\ Len(program[i].tokens) \in 0..ByteTop
       /\ DOMAIN program[i].tokens = 1..Len(program[i].tokens)

\* The words of a type up to the token j of line n.
Until(k, n, j) == {w \in List!Words(k, n) : w[1] < n \/ w[2] <= j}

\* Words, as membership.
LEMMA WordsAre ==
  ASSUME ByteTop \in Nat, Lined, NEW k, NEW m \in 0..Len(program), NEW w
  PROVE  w \in List!Words(k, m) <=>
           /\ w \in (1..m) \X (1..ByteTop) /\ w[2] \in DOMAIN program[w[1]].tokens
           /\ List!Type(program[w[1]].tokens[w[2]]) = k
BY DEF List!Words

\* Up to no token of a line are the words before the line, up to its last those with it.
LEMMA UntilEnds ==
  ASSUME ByteTop \in Nat, Lined, NEW k, NEW n \in 1..Len(program)
  PROVE  /\ Until(k, n, 0) = List!Words(k, n - 1)
         /\ Until(k, n, Len(program[n].tokens)) = List!Words(k, n)
<1>1. ByteTop \in Nat
  OBVIOUS
<1>2. \A m \in 0..Len(program) : \A w :
        w \in List!Words(k, m) <=>
          /\ w \in (1..m) \X (1..ByteTop) /\ w[2] \in DOMAIN program[w[1]].tokens
          /\ List!Type(program[w[1]].tokens[w[2]]) = k
  BY WordsAre
<1>3. n \in Nat /\ n - 1 \in 0..Len(program) /\ n \in 0..Len(program)
      /\ Len(program) \in 0..Len(program) /\ Len(program) \in Nat
      /\ Len(program[n].tokens) \in Nat /\ Len(program[n].tokens) <= ByteTop
  BY <1>1 DEF Lined
<1>4. \A w \in (1..n) \X (1..ByteTop) :
        /\ w[1] < n <=> w \in (1..(n - 1)) \X (1..ByteTop)
        /\ w[1] \in 1..n /\ w[2] \in 1..ByteTop /\ w = <<w[1], w[2]>>
  BY <1>1, <1>3
<1>5. (1..(n - 1)) \X (1..ByteTop) \subseteq (1..n) \X (1..ByteTop)
  BY <1>3
<1>6. Until(k, n, 0) = List!Words(k, n - 1)
  <2>1. \A w : w \in Until(k, n, 0) <=> w \in List!Words(k, n) /\ w[1] < n
    BY <1>1, <1>2, <1>3, <1>4 DEF Until
  <2>2. \A w : w \in Until(k, n, 0) <=> w \in List!Words(k, n - 1)
    BY <1>2, <1>3, <1>4, <1>5, <2>1
  <2> QED
    BY <2>2
<1>7. Until(k, n, Len(program[n].tokens)) = List!Words(k, n)
  <2>1. \A w \in List!Words(k, n) : w[1] < n \/ w[2] <= Len(program[n].tokens)
    <3> SUFFICES ASSUME NEW w \in List!Words(k, n), ~(w[1] < n)
                 PROVE  w[2] <= Len(program[n].tokens)
      OBVIOUS
    <3>1. w[2] \in 1..Len(program[w[1]].tokens) /\ w[1] \in 1..n
      BY <1>2, <1>3, <1>4 DEF Lined
    <3>2. w[1] = n
      BY <1>3, <3>1
    <3> QED
      BY <1>3, <3>1, <3>2
  <2> QED
    BY <2>1 DEF Until
<1> QED
  BY <1>6, <1>7

\* One token more is one word more of its own type, and of no other.
LEMMA UntilMore ==
  ASSUME ByteTop \in Nat, Lined, NEW k, NEW n \in 1..Len(program),
         NEW j \in DOMAIN program[n].tokens
  PROVE  /\ <<n, j>> \notin Until(k, n, j - 1)
         /\ List!Before(k, <<n, j>>) = Until(k, n, j - 1)
         /\ List!Type(program[n].tokens[j]) = k
              => Until(k, n, j) = Until(k, n, j - 1) \cup {<<n, j>>}
         /\ List!Type(program[n].tokens[j]) # k => Until(k, n, j) = Until(k, n, j - 1)
         /\ List!Type(program[n].tokens[j]) = k => <<n, j>> \in List!Words(k, Len(program))
<1>1. ByteTop \in Nat
  OBVIOUS
<1>2. \A m \in 0..Len(program) : \A w :
        w \in List!Words(k, m) <=>
          /\ w \in (1..m) \X (1..ByteTop) /\ w[2] \in DOMAIN program[w[1]].tokens
          /\ List!Type(program[w[1]].tokens[w[2]]) = k
  BY WordsAre
<1>3. n \in Nat /\ n - 1 \in 0..Len(program) /\ n \in 0..Len(program)
      /\ Len(program) \in 0..Len(program) /\ Len(program) \in Nat
      /\ Len(program[n].tokens) \in Nat /\ Len(program[n].tokens) <= ByteTop
  BY <1>1 DEF Lined
<1>4. \A w \in (1..n) \X (1..ByteTop) :
        /\ w[1] < n <=> w \in (1..(n - 1)) \X (1..ByteTop)
        /\ w[1] \in 1..n /\ w[2] \in 1..ByteTop /\ w = <<w[1], w[2]>>
  BY <1>1, <1>3
<1>5. (1..(n - 1)) \X (1..ByteTop) \subseteq (1..n) \X (1..ByteTop)
  BY <1>3
<1>11. j \in Nat /\ j \in 1..ByteTop
  BY <1>1, <1>3 DEF Lined
<1>12. <<n, j>> \notin Until(k, n, j - 1)
  BY <1>3, <1>11 DEF Until
<1>13. \A m \in n..Len(program) :
        <<n, j>> \in List!Words(k, m) <=> List!Type(program[n].tokens[j]) = k
  <2> SUFFICES ASSUME NEW m \in n..Len(program)
               PROVE  <<n, j>> \in List!Words(k, m)
                        <=> List!Type(program[n].tokens[j]) = k
    OBVIOUS
  <2>1. m \in 0..Len(program) /\ <<n, j>> \in (1..m) \X (1..ByteTop)
        /\ <<n, j>>[1] = n /\ <<n, j>>[2] = j
    BY <1>3, <1>11
  <2> QED
    BY <1>2, <2>1
<1>14. \A w \in List!Words(k, n) :
        /\ w[1] < n \/ w[2] <= j <=> (w[1] < n \/ w[2] <= j - 1) \/ w = <<n, j>>
        /\ w[1] < n \/ w[2] < j <=> w[1] < n \/ w[2] <= j - 1
  <2> SUFFICES ASSUME NEW w \in List!Words(k, n)
               PROVE  /\ w[1] < n \/ w[2] <= j
                           <=> (w[1] < n \/ w[2] <= j - 1) \/ w = <<n, j>>
                      /\ w[1] < n \/ w[2] < j <=> w[1] < n \/ w[2] <= j - 1
    OBVIOUS
  <2>1. w[1] \in 1..n /\ w[2] \in 1..ByteTop /\ w = <<w[1], w[2]>>
    BY <1>2, <1>3, <1>4
  <2> QED
    BY <1>1, <1>3, <1>11, <2>1
<1>15. /\ List!Type(program[n].tokens[j]) = k
            => Until(k, n, j) = Until(k, n, j - 1) \cup {<<n, j>>}
       /\ List!Type(program[n].tokens[j]) # k => Until(k, n, j) = Until(k, n, j - 1)
  <2>1. <<n, j>> \in List!Words(k, n) <=> List!Type(program[n].tokens[j]) = k
    <3>1. n \in n..Len(program)
      BY <1>3
    <3> QED
      BY <1>13, <3>1
  <2>2. \A w : w \in Until(k, n, j) <=>
                 w \in Until(k, n, j - 1)
                   \/ (List!Type(program[n].tokens[j]) = k /\ w = <<n, j>>)
    BY <1>14, <2>1 DEF Until
  <2> QED
    BY <2>2
<1>16. List!Before(k, <<n, j>>) = Until(k, n, j - 1)
  <2>1. List!Before(k, <<n, j>>) = {v \in List!Words(k, n) : v[1] < n \/ v[2] < j}
    BY DEF List!Before
  <2> QED
    BY <1>14, <2>1 DEF Until
<1>17. List!Type(program[n].tokens[j]) = k => <<n, j>> \in List!Words(k, Len(program))
  <2>1. Len(program) \in n..Len(program)
    BY <1>3
  <2> QED
    BY <1>13, <2>1
<1> QED
  BY <1>12, <1>15, <1>16, <1>17

\* Cardinality is the same operator inside the instance.
LEMMA SameCardinality == \A S : List!Cardinality(S) = Cardinality(S)
BY DEF List!Cardinality, Cardinality

\* The words up to a token are finitely many.
LEMMA UntilCounts ==
  ASSUME ByteTop \in Nat, Lined, NEW k, NEW n \in 1..Len(program), NEW j
  PROVE  IsFiniteSet(Until(k, n, j)) /\ Cardinality(Until(k, n, j)) \in Nat
<1>1. ByteTop \in Nat /\ n \in Nat
  BY DEF Lined
<1>2. IsFiniteSet(1..n) /\ IsFiniteSet(1..ByteTop)
  BY <1>1, FS_Interval
<1>3. IsFiniteSet((1..n) \X (1..ByteTop))
  BY <1>2, FS_Product
<1>4. Until(k, n, j) \in SUBSET ((1..n) \X (1..ByteTop))
  BY DEF Until, List!Words
<1>5. IsFiniteSet(Until(k, n, j))
  BY <1>3, <1>4, FS_Subset
<1> QED
  BY <1>5, FS_CardinalityType

\* How many structures are open behind the token j of line n.
Depth(n, j) == Cardinality(Until(List!Opens, n, j)) - Cardinality(Until(List!Closes, n, j))

\* Depth leads from Open(n - 1) to Open(n) as ScanIndent's After does.
LEMMA DepthFacts ==
  ASSUME ByteTop \in Nat, Lined, NEW n \in 1..Len(program)
  PROVE  /\ Depth(n, 0) = List!Open(n - 1)
         /\ Depth(n, Len(program[n].tokens)) = List!Open(n)
         /\ List!Balanced => \A j \in DOMAIN program[n].tokens :
              Depth(n, j) = List!After(Depth(n, j - 1), program[n].tokens[j])
<1>1. /\ Depth(n, 0) = List!Open(n - 1)
      /\ Depth(n, Len(program[n].tokens)) = List!Open(n)
  <2>1. \A k : /\ Until(k, n, 0) = List!Words(k, n - 1)
               /\ Until(k, n, Len(program[n].tokens)) = List!Words(k, n)
    BY UntilEnds
  <2> QED
    BY <2>1, SameCardinality DEF Depth, List!Open
<1>2. ASSUME List!Balanced, NEW j \in DOMAIN program[n].tokens
      PROVE  Depth(n, j) = List!After(Depth(n, j - 1), program[n].tokens[j])
  <2> DEFINE t == program[n].tokens[j]
             C(k, i) == Cardinality(Until(k, n, i))
  <2>0. ASSUME NEW k
        PROVE  /\ <<n, j>> \notin Until(k, n, j - 1)
               /\ List!Before(k, <<n, j>>) = Until(k, n, j - 1)
               /\ List!Type(t) = k => Until(k, n, j) = Until(k, n, j - 1) \cup {<<n, j>>}
               /\ List!Type(t) # k => Until(k, n, j) = Until(k, n, j - 1)
               /\ List!Type(t) = k => <<n, j>> \in List!Words(k, Len(program))
    BY UntilMore
  <2>1. \A k : /\ C(k, j) \in Nat /\ C(k, j - 1) \in Nat
               /\ IsFiniteSet(Until(k, n, j - 1))
    BY UntilCounts
  <2>2. \A k : C(k, j) = C(k, j - 1) + IF List!Type(t) = k THEN 1 ELSE 0
    <3> SUFFICES ASSUME NEW k
                 PROVE  C(k, j) = C(k, j - 1) + IF List!Type(t) = k THEN 1 ELSE 0
      OBVIOUS
    <3>1. CASE List!Type(t) = k
      <4>1. Until(k, n, j) = Until(k, n, j - 1) \cup {<<n, j>>}
            /\ <<n, j>> \notin Until(k, n, j - 1)
        BY <3>1, <2>0
      <4>2. Cardinality(Until(k, n, j - 1) \cup {<<n, j>>}) = C(k, j - 1) + 1
        BY <2>1, <4>1, FS_AddElement
      <4> QED
        BY <3>1, <4>1, <4>2
    <3>2. CASE List!Type(t) # k
      <4>1. Until(k, n, j) = Until(k, n, j - 1)
        BY <3>2, <2>0
      <4> QED
        BY <2>1, <3>2, <4>1
    <3> QED
      BY <3>1, <3>2
  <2>3. List!Type(t) = List!Closes => C(List!Opens, j - 1) > C(List!Closes, j - 1)
    <3> SUFFICES ASSUME List!Type(t) = List!Closes
                 PROVE  C(List!Opens, j - 1) > C(List!Closes, j - 1)
      OBVIOUS
    <3>1. <<n, j>> \in List!Words(List!Closes, Len(program))
      BY <2>0
    <3>2. \A k : List!Before(k, <<n, j>>) = Until(k, n, j - 1)
      BY <2>0
    <3>3. Cardinality(List!Before(List!Opens, <<n, j>>))
            > Cardinality(List!Before(List!Closes, <<n, j>>))
      BY <1>2, <3>1, SameCardinality DEF List!Balanced
    <3> QED
      BY <3>2, <3>3
  <2>4. List!Opens = 14 /\ List!Closes = 13
    BY DEF List!Opens, List!Closes
  <2>5. Depth(n, j) = C(List!Opens, j) - C(List!Closes, j)
        /\ Depth(n, j - 1) = C(List!Opens, j - 1) - C(List!Closes, j - 1)
    BY DEF Depth
  <2> HIDE DEF C, t
  <2>6. CASE List!Type(t) = List!Opens
    <3>1. C(List!Opens, j) = C(List!Opens, j - 1) + 1
          /\ C(List!Closes, j) = C(List!Closes, j - 1) + 0
      BY <2>2, <2>4, <2>6
    <3>2. Depth(n, j) = Depth(n, j - 1) + 1
      BY <2>1, <2>5, <3>1
    <3> QED
      BY <2>6, <3>2 DEF List!After, t
  <2>7. CASE List!Type(t) = List!Closes
    <3>1. C(List!Opens, j) = C(List!Opens, j - 1) + 0
          /\ C(List!Closes, j) = C(List!Closes, j - 1) + 1
      BY <2>2, <2>4, <2>7
    <3>2. Depth(n, j) = Depth(n, j - 1) - 1 /\ Depth(n, j - 1) > 0
      BY <2>1, <2>3, <2>5, <2>7, <3>1
    <3> QED
      BY <2>4, <2>7, <3>2 DEF List!After, t
  <2>8. CASE List!Type(t) # List!Opens /\ List!Type(t) # List!Closes
    <3>1. C(List!Opens, j) = C(List!Opens, j - 1) + 0
          /\ C(List!Closes, j) = C(List!Closes, j - 1) + 0
      BY <2>2, <2>8
    <3>2. Depth(n, j) = Depth(n, j - 1)
      BY <2>1, <2>5, <3>1
    <3> QED
      BY <2>8, <3>2 DEF List!After, t
  <2> QED
    BY <2>6, <2>7, <2>8
<1> QED
  BY <1>1, <1>2

\* ScanIndent counts them one by one (list.asm:57-95).
LEMMA ScanCounts ==
  ASSUME ByteTop \in Nat, Lined, List!Balanced, NEW n \in 1..Len(program)
  PROVE  List!ScanIndent(List!Open(n - 1), program[n].tokens) = List!Open(n)
<1> DEFINE d == List!Open(n - 1)
           ts == program[n].tokens
           m == Len(ts)
           Solves(u) == u = [i \in 0..m |-> IF i = 0 THEN d ELSE List!After(u[i - 1], ts[i])]
           f == [i \in 0..m |-> Depth(n, i)]
           depth == CHOOSE u : Solves(u)
<1>1. m \in Nat /\ DOMAIN ts = 1..m
  BY DEF Lined
<1>2. /\ Depth(n, 0) = d /\ Depth(n, m) = List!Open(n)
      /\ \A j \in 1..m : Depth(n, j) = List!After(Depth(n, j - 1), ts[j])
  BY <1>1, DepthFacts
<1>3. List!ScanIndent(d, ts) = depth[m]
  BY DEF List!ScanIndent
<1> HIDE DEF d, ts, m
<1>4. \A i \in 0..m : f[i] = Depth(n, i)
  OBVIOUS
<1>5. Solves(f)
  <2> DEFINE h == [i \in 0..m |-> IF i = 0 THEN d ELSE List!After(f[i - 1], ts[i])]
  <2>1. ASSUME NEW i \in 0..m PROVE f[i] = h[i]
    <3>1. CASE i = 0
      BY <1>2, <1>4, <3>1
    <3>2. CASE i # 0
      <4>1. i \in 1..m /\ i - 1 \in 0..m
        BY <1>1, <3>2
      <4>2. f[i] = List!After(f[i - 1], ts[i])
        BY <1>2, <1>4, <4>1
      <4> QED
        BY <3>2, <4>2
    <3> QED
      BY <3>1, <3>2
  <2>2. f = h
    BY <2>1
  <2> QED
    BY <2>2
<1>6. Solves(depth)
  <2> HIDE DEF Solves
  <2> QED
    BY <1>5
<1> HIDE DEF depth, f
<1>7. /\ depth[0] = d
      /\ \A i \in 1..m : depth[i] = List!After(depth[i - 1], ts[i])
  <2> DEFINE e(i) == IF i = 0 THEN d ELSE List!After(depth[i - 1], ts[i])
  <2>1. e(0) = d /\ \A i \in 1..m : e(i) = List!After(depth[i - 1], ts[i])
    OBVIOUS
  <2>2. depth = [i \in 0..m |-> e(i)]
    BY <1>6
  <2> HIDE DEF e
  <2>3. \A i \in 0..m : depth[i] = e(i)
    BY <2>2, Zenon
  <2>4. 0 \in 0..m /\ \A i \in 1..m : i \in 0..m
    BY <1>1
  <2> QED
    BY <2>1, <2>3, <2>4
<1>8. depth[m] = Depth(n, m)
  <2> DEFINE W == {i \in 0..m : depth[i] = Depth(n, i)}
  <2>1. 0 \in W
    BY <1>1, <1>2, <1>7
  <2>2. \A i \in 1..m : i - 1 \in W => i \in W
    BY <1>1, <1>2, <1>7
  <2>3. \A i \in 0..m : i \in W
    <3> HIDE DEF W
    <3> QED
      BY <1>1, <2>1, <2>2, UpTo
  <2> QED
    BY <1>1, <2>3
<1> QED
  BY <1>2, <1>3, <1>8 DEF d, ts

\* The structures open behind a line are a number, 0 before the first line.
LEMMA OpenType ==
  ASSUME ByteTop \in Nat, NEW n \in Nat
  PROVE  List!Open(n) \in Int /\ (n = 0 => List!Open(n) = 0)
<1>1. IsFiniteSet(1..n) /\ IsFiniteSet(1..ByteTop)
  BY FS_Interval
<1>2. IsFiniteSet((1..n) \X (1..ByteTop))
  BY <1>1, FS_Product
<1>3. \A k : List!Words(k, n) \in SUBSET ((1..n) \X (1..ByteTop))
  BY DEF List!Words
<1>4. \A k : IsFiniteSet(List!Words(k, n))
  BY <1>2, <1>3, FS_Subset
<1>5. \A k : Cardinality(List!Words(k, n)) \in Nat
  BY <1>4, FS_CardinalityType
<1>6. List!Open(n) = Cardinality(List!Words(List!Opens, n))
                       - Cardinality(List!Words(List!Closes, n))
  BY SameCardinality DEF List!Open
<1>7. n = 0 => \A k : List!Words(k, n) = {}
  BY <1>3
<1>8. n = 0 => \A k : Cardinality(List!Words(k, n)) = 0
  BY <1>7, FS_EmptySet
<1> HIDE DEF List!Words
<1>9. CASE n = 0
  <2>1. Cardinality(List!Words(List!Opens, n)) = 0 /\ Cardinality(List!Words(List!Closes, n)) = 0
    BY <1>8, <1>9
  <2> QED
    BY <1>6, <2>1
<1>10. CASE n # 0
  BY <1>5, <1>6, <1>10
<1> QED
  BY <1>9, <1>10

\* The smaller of two numbers.
LEMMA LesserOf ==
  ASSUME NEW a \in Int, NEW b \in Int
  PROVE  List!Min({a, b}) = IF a < b THEN a ELSE b
BY DEF List!Min

\* What is open depends on the program alone.
LEMMA SameProgram ==
  ASSUME program' = program
  PROVE  /\ \A n : List!Open(n)' = List!Open(n)
         /\ List!Balanced' <=> List!Balanced
<1>1. \A k, n : List!Words(k, n)' = List!Words(k, n)
  BY DEF List!Words
<1>2. \A n : List!Open(n)' = List!Open(n)
  BY <1>1 DEF List!Open, List!Opens, List!Closes
<1>3. \A k, w : List!Before(k, w)' = List!Before(k, w)
  BY <1>1 DEF List!Before
<1>4. List!Balanced' <=> List!Balanced
  BY <1>1, <1>3 DEF List!Balanced, List!Opens, List!Closes
<1> QED
  BY <1>2, <1>4

-----------------------------------------------------------------------------
\* Where a shown line stands.
Placed(n, pad) == pad = 6 + 2 * List!Min({List!Open(n - 1), List!Open(n)})

\* DIndent is what is open behind the lines that have been scanned, DIndent2 what
\* was open before the last of them.
Indents ==
  /\ program \in Programs /\ line \in Nat \ {0}
  /\ label \in {"pad", "line"} => line <= Len(program)
  /\ \E S : shown \in Seq(S)
  /\ List!Balanced =>
       /\ label = "next" => indent = List!Open(line - 1)
       /\ label \in {"pad", "line"} =>
            indent2 = List!Open(line - 1) /\ indent = List!Open(line)
       /\ \A i \in DOMAIN shown : Placed(shown[i].at, shown[i].pad)

\* The programs that LIST is given are lines of tokens.
LEMMA ProgramLined ==
  ASSUME List!ListingAssumption, program \in Programs
  PROVE  ByteTop \in Nat /\ Lined
<1>1. /\ ByteTop \in Nat
      /\ program \in Seq([number : 1..LastNumber, tokens : Seq(List!Tokens)])
      /\ \A i \in DOMAIN program : Len(program[i].tokens) <= ByteTop
  BY DEF List!ListingAssumption
<1>2. Len(program) \in Nat /\ DOMAIN program = 1..Len(program)
  BY <1>1
<1>3. ASSUME NEW i \in 1..Len(program)
      PROVE  /\ Len(program[i].tokens) \in 0..ByteTop
             /\ DOMAIN program[i].tokens = 1..Len(program[i].tokens)
  <2>1. program[i] \in [number : 1..LastNumber, tokens : Seq(List!Tokens)]
    BY <1>1, ElementType
  <2>2. program[i].tokens \in Seq(List!Tokens)
    BY <2>1
  <2>3. Len(program[i].tokens) \in Nat
        /\ DOMAIN program[i].tokens = 1..Len(program[i].tokens)
    BY <2>2
  <2> QED
    BY <1>1, <1>2, <2>3
<1> QED
  BY <1>1, <1>2, <1>3 DEF Lined

\* The scan of the next line moves DIndent to what is open behind it.
LEMMA IndentsScan ==
  ASSUME List!ListingAssumption, Indents, label = "next", line <= Len(program),
         List!Balanced
  PROVE  List!ScanIndent(indent, program[line].tokens) = List!Open(line)
<1>1. ByteTop \in Nat /\ Lined
  BY ProgramLined DEF Indents
<1>2. line \in 1..Len(program) /\ indent = List!Open(line - 1)
  BY <1>1 DEF Indents, Lined
<1> QED
  BY <1>1, <1>2, ScanCounts

\* A sequence stays one when something is appended.
LEMMA SeqWithMore ==
  ASSUME NEW S, NEW s \in Seq(S), NEW e
  PROVE  Append(s, e) \in Seq(S \cup {e})
OBVIOUS

\* Every step of LIST keeps the indents equal to what is open.
LEMMA IndentsNext ==
  ASSUME List!ListingAssumption, Indents, [List!Next]_(List!vars)
  PROVE  Indents'
<1>1. ByteTop \in Nat /\ Lined /\ Len(program) \in Nat
  BY ProgramLined DEF Indents, Lined
<1>2. CASE UNCHANGED List!vars
  <2>1. UNCHANGED <<program, line, label, indent, indent2, shown>>
    BY <1>2 DEF List!vars, List!given
  <2>2. (List!Balanced' <=> List!Balanced) /\ \A n : List!Open(n)' = List!Open(n)
    BY <2>1, SameProgram
  <2> QED
    BY <2>1, <2>2 DEF Indents, Placed
<1>3. ASSUME List!PassOver PROVE Indents'
  <2>1. /\ label = "next" /\ line <= Len(program) /\ line' = line + 1
        /\ label' \in {"next", "exit"} /\ program' = program /\ shown' = shown
        /\ indent' = List!ScanIndent(indent, program[line].tokens)
    BY <1>3 DEF List!PassOver, List!Follow, List!Scanned, List!Here, List!given
  <2>2. (List!Balanced' <=> List!Balanced) /\ \A n : List!Open(n)' = List!Open(n)
    BY <2>1, SameProgram
  <2>3. List!Balanced => indent' = List!Open(line)
    BY <2>1, IndentsScan
  <2>4. line' \in Nat \ {0} /\ line' - 1 = line
    BY <2>1 DEF Indents
  <2> QED
    BY <2>1, <2>2, <2>3, <2>4 DEF Indents, Placed
<1>4. ASSUME List!StartLine PROVE Indents'
  <2>1. /\ label = "next" /\ line <= Len(program) /\ line' = line
        /\ label' = "pad" /\ program' = program /\ shown' = shown /\ indent2' = indent
        /\ indent' = List!ScanIndent(indent, program[line].tokens)
    BY <1>4 DEF List!StartLine, List!Scanned, List!Here, List!given
  <2>2. (List!Balanced' <=> List!Balanced) /\ \A n : List!Open(n)' = List!Open(n)
    BY <2>1, SameProgram
  <2>3. List!Balanced => indent' = List!Open(line)
    BY <2>1, IndentsScan
  <2> QED
    BY <2>1, <2>2, <2>3 DEF Indents, Placed
<1>5. ASSUME List!Pad PROVE Indents'
  <2>1. /\ label = "pad" /\ label' \in {"line", "pad"}
        /\ UNCHANGED <<program, line, indent, indent2, shown>>
    BY <1>5 DEF List!Pad, List!given
  <2>2. (List!Balanced' <=> List!Balanced) /\ \A n : List!Open(n)' = List!Open(n)
    BY <2>1, SameProgram
  <2> QED
    BY <2>1, <2>2 DEF Indents, Placed
<1>6. ASSUME List!ShowLine PROVE Indents'
  <2>1. PICK str : /\ label = "line" /\ line' = line + 1 /\ label' \in {"next", "exit"}
                   /\ shown' = Append(shown, [at |-> line, pad |-> List!Padding,
                                              text |-> str])
                   /\ UNCHANGED <<program, indent, indent2>>
    BY <1>6 DEF List!ShowLine, List!Follow, List!given
  <2>2. (List!Balanced' <=> List!Balanced) /\ \A n : List!Open(n)' = List!Open(n)
    BY <2>1, SameProgram
  <2>3. PICK S : shown \in Seq(S)
    BY DEF Indents
  <2> DEFINE r == [at |-> line, pad |-> List!Padding, text |-> str]
  <2>4. /\ shown' \in Seq(S \cup {r}) /\ DOMAIN shown' = DOMAIN shown \cup {Len(shown) + 1}
        /\ \A i \in DOMAIN shown : shown'[i] = shown[i]
        /\ shown'[Len(shown) + 1] = r
    <3> HIDE DEF r
    <3>1. shown' = Append(shown, r)
      BY <2>1 DEF r
    <3> QED
      BY <2>3, <3>1, SeqWithMore
  <2>5. List!Balanced => Placed(line, List!Padding)
    <3> SUFFICES ASSUME List!Balanced PROVE Placed(line, List!Padding)
      OBVIOUS
    <3>1. /\ indent2 = List!Open(line - 1) /\ indent = List!Open(line)
          /\ line \in Nat /\ line - 1 \in Nat
      BY <2>1 DEF Indents
    <3>2. indent2 \in Int /\ indent \in Int
      BY <1>1, <3>1, OpenType
    <3>3. List!Min({indent2, indent}) = IF indent2 < indent THEN indent2 ELSE indent
      BY <3>2, LesserOf
    <3>4. List!Smaller = List!Min({indent2, indent})
      BY <3>2, <3>3 DEF List!Smaller
    <3>5. List!Smaller \in Int
      BY <3>2 DEF List!Smaller
    <3>6. List!Padding = 6 + 2 * List!Smaller
      BY <3>5 DEF List!Padding
    <3> QED
      BY <3>1, <3>4, <3>6 DEF Placed
  <2>6. line' \in Nat \ {0} /\ line' - 1 = line
    BY <2>1 DEF Indents
  <2>7. r.at = line /\ r.pad = List!Padding
    OBVIOUS
  <2> HIDE DEF r
  <2>8. List!Balanced => \A i \in DOMAIN shown' : Placed(shown'[i].at, shown'[i].pad)
    BY <2>4, <2>5, <2>7 DEF Indents
  <2>9. (\A i \in DOMAIN shown : Placed(shown[i].at, shown[i].pad))'
          <=> \A i \in DOMAIN shown' : Placed(shown'[i].at, shown'[i].pad)
    BY <2>2 DEF Placed
  <2> QED
    BY <2>1, <2>2, <2>4, <2>6, <2>8, <2>9 DEF Indents
<1>7. ASSUME List!Exit PROVE Indents'
  <2>1. /\ label' = "done" /\ UNCHANGED <<program, line, shown>>
    BY <1>7 DEF List!Exit, List!given
  <2>2. (List!Balanced' <=> List!Balanced) /\ \A n : List!Open(n)' = List!Open(n)
    BY <2>1, SameProgram
  <2> QED
    BY <2>1, <2>2 DEF Indents, Placed
<1> QED
  BY <1>2, <1>3, <1>4, <1>5, <1>6, <1>7 DEF List!Next

\* list.asm:57 "scan the whole program to track structure, only output the lines
\* we want": in every program that closes no structure it has not opened, a listed
\* line is as far to the right as structures are open before and behind it, whatever
\* part of the program is listed and whether or not listing is broken off.
THEOREM IndentFollowsStructure ==
  ASSUME List!ListingAssumption
  PROVE  List!Spec => []List!IndentShows
<1>1. List!Init => Indents
  <2> SUFFICES ASSUME List!Init PROVE Indents
    OBVIOUS
  <2>1. /\ program \in Programs /\ line = 1 /\ indent = 0 /\ shown = <<>>
        /\ label = "next"
    BY DEF List!Init
  <2>2. List!Open(0) = 0
    BY OpenType, ProgramLined, <2>1
  <2>3. shown \in Seq({}) /\ DOMAIN shown = {}
    BY <2>1
  <2>4. line - 1 = 0
    BY <2>1
  <2> QED
    BY <2>1, <2>2, <2>3, <2>4 DEF Indents
<1>2. Indents /\ [List!Next]_(List!vars) => Indents'
  BY IndentsNext
<1>3. Indents => List!IndentShows
  BY DEF Indents, Placed, List!IndentShows
<1> QED
  BY <1>1, <1>2, <1>3, PTL DEF List!Spec
=============================================================================
