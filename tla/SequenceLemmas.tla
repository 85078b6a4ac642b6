--------------------------- MODULE SequenceLemmas ---------------------------
(***************************************************************************)
(* Facts about sequences and sets of numbers that the proofs about the     *)
(* BASIC stack use: what a stack operation does to the type of a stack,    *)
(* where the frame below the local variables is, and the values of a       *)
(* function that is defined by recursion over a sequence.                  *)
(***************************************************************************)
EXTENDS Integers, Sequences, SequencesExt, FiniteSetTheorems, TLAPS

LEMMA ElementType ==
  ASSUME NEW S, NEW s \in Seq(S), NEW i \in 1..Len(s)
  PROVE  s[i] \in S
OBVIOUS

LEMMA EmptyType ==
  ASSUME NEW S
  PROVE  <<>> \in Seq(S)
OBVIOUS

LEMMA FunctionIsSeq ==
  ASSUME NEW S, NEW n \in Nat, NEW g \in [1..n -> S]
  PROVE  g \in Seq(S)
OBVIOUS

LEMMA SubSeqType ==
  ASSUME NEW S, NEW s \in Seq(S), NEW n \in 0..Len(s)
  PROVE  SubSeq(s, 1, n) \in Seq(S)
OBVIOUS

LEMMA AppendType ==
  ASSUME NEW S, NEW s \in Seq(S), NEW x \in S
  PROVE  Append(s, x) \in Seq(S)
OBVIOUS

\* Every set of numbers in 1..n that is not empty has a greatest element (one
\* above which the fewest others lie) ...
LEMMA MaxType ==
  ASSUME NEW n \in Nat, NEW I \in SUBSET (1..n), I # {}
  PROVE  Max(I) \in I /\ \A j \in I : Max(I) >= j
<1> DEFINE Above(i) == {k \in I : k > i}
           T == {Above(i) : i \in I}
           R == StrictSubsetOrdering(1..n)
<1>1. IsFiniteSet(1..n)
  BY FS_Interval
<1>2. IsWellFoundedOn(R, SUBSET (1..n))
  BY <1>1, FS_StrictSubsetOrderingWellFounded, FS_FiniteSubsetsOfFinite
<1>3. T \subseteq SUBSET (1..n) /\ T # {}
  OBVIOUS
<1>4. \E x \in T : \A y \in T : ~(<<y, x>> \in R)
  <2> HIDE DEF T, R
  <2> QED
    BY <1>2, <1>3, WFMin
<1>5. PICK i \in I : \A j \in I : ~(<<Above(j), Above(i)>> \in R)
  BY <1>4
<1>6. \A j \in I : i >= j
  <2> SUFFICES ASSUME NEW j \in I, j > i PROVE FALSE
    OBVIOUS
  <2>1. Above(j) \subseteq Above(i) /\ j \in Above(i) /\ j \notin Above(j)
    <3>1. \A k \in I : k \in Int
      OBVIOUS
    <3>2. i \in Int /\ j \in Int /\ ~(j > j)
      BY <3>1
    <3>3. ASSUME NEW k \in I, k > j PROVE k > i
      BY <3>1, <3>2, <3>3
    <3> QED
      BY <3>2, <3>3
  <2>2. <<Above(j), Above(i)>> \in R
    <3> HIDE DEF Above
    <3>1. Above(j) \in SUBSET (1..n) /\ Above(i) \in SUBSET (1..n)
      BY DEF Above
    <3> QED
      BY <2>1, <3>1 DEF StrictSubsetOrdering
  <2> QED
    BY <1>5, <2>2
<1> QED
  BY <1>6 DEF Max

\* ... and a least one: the greatest when counted from above.
LEMMA LeastExists ==
  ASSUME NEW n \in Nat, NEW I \in SUBSET (1..n), I # {}
  PROVE  \E i \in I : \A j \in I : i <= j
<1> DEFINE J == {n + 1 - i : i \in I}
<1>1. J \in SUBSET (1..n) /\ J # {}
  <2>1. \A i \in I : i \in 1..n
    OBVIOUS
  <2>2. \A i \in 1..n : n + 1 - i \in 1..n
    OBVIOUS
  <2> QED
    BY <2>1, <2>2
<1>2. Max(J) \in J /\ \A j \in J : Max(J) >= j
  <2> HIDE DEF J
  <2> QED
    BY <1>1, MaxType
<1>3. PICK i \in I : Max(J) = n + 1 - i
  BY <1>2
<1>4. \A j \in I : n + 1 - i >= n + 1 - j
  BY <1>2, <1>3
<1>5. \A j \in I : j \in Int
  OBVIOUS
<1> QED
  BY <1>3, <1>4, <1>5

\* What holds for 0, and for every number with its predecessor, holds up to n.
LEMMA UpTo ==
  ASSUME NEW n \in Nat, NEW W, 0 \in W, \A i \in 1..n : i - 1 \in W => i \in W
  PROVE  \A i \in 0..n : i \in W
<1> DEFINE Wrong == {i \in 1..n : i \notin W}
<1>1. Wrong = {}
  <2> SUFFICES ASSUME Wrong # {} PROVE FALSE
    OBVIOUS
  <2>1. PICK k \in Wrong : \A j \in Wrong : k <= j
    <3>1. Wrong \in SUBSET (1..n)
      OBVIOUS
    <3> HIDE DEF Wrong
    <3> QED
      BY <3>1, LeastExists
  <2>2. k \in 1..n /\ k - 1 \notin Wrong /\ (k - 1 = 0 \/ k - 1 \in 1..n)
    BY <2>1
  <2> QED
    BY <2>1, <2>2
<1> QED
  BY <1>1

\* A step g[i] applied again and again, from b on, has values.
Steps(g, n, T) == g \in [1..n -> [T -> T]]
Iteration(f, g, n, T, b) ==
  f \in [0..n -> T] /\ f[0] = b /\ \A i \in 1..n : f[i] = g[i][f[i - 1]]

LEMMA Iterates ==
  ASSUME NEW n \in Nat, NEW T, NEW b \in T, NEW g, Steps(g, n, T)
  PROVE  \E f : Iteration(f, g, n, T, b)
<1> USE DEF Steps, Iteration
<1> DEFINE Good(k, f) == /\ f \in [0..k -> T] /\ f[0] = b
                         /\ \A i \in 1..k : f[i] = g[i][f[i - 1]]
           Wrong == {k \in 1..n : ~ \E f : Good(k, f)}
<1>1. \E f : Good(0, f)
  <2>1. Good(0, [i \in 0..0 |-> b])
    OBVIOUS
  <2> QED
    BY <2>1
<1>2. CASE Wrong = {}
  <2>1. \E f : Good(n, f)
    <3>1. CASE n = 0
      BY <1>1, <3>1
    <3>2. CASE n # 0
      BY <1>2, <3>2
    <3> QED
      BY <3>1, <3>2
  <2> QED
    BY <2>1
<1>3. CASE Wrong # {}
  <2>1. PICK k \in Wrong : \A j \in Wrong : k <= j
    <3>1. Wrong \in SUBSET (1..n)
      OBVIOUS
    <3> HIDE DEF Wrong
    <3> QED
      BY <1>3, <3>1, LeastExists
  <2>2. k \in 1..n /\ k - 1 \in 0..n /\ k - 1 \notin Wrong
    BY <2>1
  <2>3. PICK f : Good(k - 1, f)
    <3>1. CASE k - 1 = 0
      <4> HIDE DEF Good
      <4> QED
        BY <1>1, <3>1
    <3>2. CASE k - 1 # 0
      <4>1. k - 1 \in 1..n
        BY <2>2, <3>2
      <4> HIDE DEF Good
      <4> QED
        BY <2>2, <4>1
    <3> QED
      BY <3>1, <3>2
  <2> DEFINE h == [i \in 0..k |-> IF i = k THEN g[k][f[k - 1]] ELSE f[i]]
  <2>4. g[k][f[k - 1]] \in T
    <3>1. f[k - 1] \in T /\ g[k] \in [T -> T]
      BY <2>2, <2>3
    <3> QED
      BY <3>1
  <2>5. Good(k, h)
    <3>1. h \in [0..k -> T]
      <4> SUFFICES ASSUME NEW i \in 0..k PROVE h[i] \in T
        OBVIOUS
      <4>1. CASE i = k
        BY <2>4, <4>1
      <4>2. CASE i # k
        <5>1. i \in 0..(k - 1)
          BY <2>2, <4>2
        <5> QED
          BY <2>3, <4>2, <5>1
      <4> QED
        BY <4>1, <4>2
    <3>2. h[0] = b
      BY <2>2, <2>3
    <3>3. ASSUME NEW i \in 1..k PROVE h[i] = g[i][h[i - 1]]
      <4>1. h[i - 1] = f[i - 1]
        BY <2>2
      <4>2. CASE i = k
        BY <2>2, <4>1, <4>2
      <4>3. CASE i # k
        <5>1. i \in 1..(k - 1)
          BY <2>2, <4>3
        <5>2. h[i] = f[i]
          BY <2>2, <5>1
        <5> QED
          BY <2>3, <4>1, <5>1, <5>2
      <4> QED
        BY <4>2, <4>3
    <3> QED
      BY <3>1, <3>2, <3>3
  <2> QED
    BY <2>1, <2>5
<1> QED
  BY <1>2, <1>3

\* The last frame that is not a local variable; all above it are.
LEMMA LastOtherFacts ==
  ASSUME NEW S, NEW s \in Seq(S), NEW m,
         m = SelectLastInSeq(s, LAMBDA f : f.kind # "local")
  PROVE  /\ m \in 0..Len(s)
         /\ m # 0 => s[m].kind # "local"
         /\ \A i \in (m + 1)..Len(s) : s[i].kind = "local"
<1> DEFINE Others == {i \in 1..Len(s) : s[i].kind # "local"}
<1>1. Len(s) \in Nat
  OBVIOUS
<1>2. m = IF Others # {} THEN Max(Others) ELSE 0
  BY DEF SelectLastInSeq
<1>3. CASE Others = {}
  BY <1>1, <1>2, <1>3
<1>4. CASE Others # {}
  <2>1. m \in Others /\ \A j \in Others : m >= j
    <3>1. Others \in SUBSET (1..Len(s))
      OBVIOUS
    <3> HIDE DEF Others
    <3> QED
      BY <1>1, <1>2, <1>4, <3>1, MaxType
  <2>2. m \in 1..Len(s) /\ s[m].kind # "local"
    BY <2>1
  <2>3. ASSUME NEW i \in (m + 1)..Len(s), s[i].kind # "local" PROVE FALSE
    <3>1. i \in Others
      BY <1>1, <2>2, <2>3
    <3> QED
      BY <1>1, <2>1, <2>2, <3>1
  <2> QED
    BY <1>1, <2>2, <2>3
<1> QED
  BY <1>3, <1>4
=============================================================================
