---------------------------- MODULE StoreProofs ----------------------------
(***************************************************************************)
(* Proofs about calls and about the page they use.                         *)
(*                                                                         *)
(* Calls and local variables: the stack with its copied values is the      *)
(* sequence of scopes that ScopeStore has.  CallsInv says so between two   *)
(* steps, and how far a call in progress has come.                         *)
(*                                                                         *)
(* The data page: expressions stay off the frames of the BASIC stack, and  *)
(* as many parameters as a column of the buffer has words are read back.   *)
(***************************************************************************)
EXTENDS MCStore, SequenceLemmas

-----------------------------------------------------------------------------
(* The stack and its scopes. *)

CallEntry ==
  [kind : {"integer"}, var : CallVariables, val : CallValues]
  \cup {Calls!SavedText, Calls!ProcFrame, Calls!Frame}
Stacks == Seq(CallEntry)
Environments == [CallVariables -> CallValues]
SavedValues == UNION {[D -> CallValues] : D \in SUBSET CallVariables}
ScopeRecord == [kind : {"top", "proc", "other"}, saved : SavedValues]
ScopeStacks == Seq(ScopeRecord) \ {<<>>}

LEMMA SameSeq ==
  ASSUME NEW S, NEW s \in Seq(S), NEW t \in Seq(S), Len(s) = Len(t),
         \A i \in 1..Len(s) : s[i] = t[i]
  PROVE  s = t
OBVIOUS

LEMMA PartFacts ==
  ASSUME NEW S, NEW s \in Seq(S), NEW i \in Nat \ {0}, NEW j \in Int, j <= Len(s)
  PROVE  /\ SubSeq(s, i, j) \in Seq(S)
         /\ Len(SubSeq(s, i, j)) = IF j < i THEN 0 ELSE j - i + 1
         /\ \A k \in 1..Len(SubSeq(s, i, j)) : SubSeq(s, i, j)[k] = s[i + k - 1]
OBVIOUS

\* The first m elements.
LEMMA StartFacts ==
  ASSUME NEW S, NEW s \in Seq(S), NEW m \in 0..Len(s)
  PROVE  /\ SubSeq(s, 1, m) \in Seq(S) /\ Len(SubSeq(s, 1, m)) = m
         /\ \A i \in 1..m : SubSeq(s, 1, m)[i] = s[i]
<1>1. Len(s) \in Nat
  OBVIOUS
<1>2. m \in Int /\ m <= Len(s) /\ m >= 0
  BY <1>1
<1> DEFINE t == SubSeq(s, 1, m)
<1>3. /\ t \in Seq(S)
      /\ Len(t) = IF m < 1 THEN 0 ELSE m - 1 + 1
      /\ \A k \in 1..Len(t) : t[k] = s[1 + k - 1]
  BY <1>2, PartFacts
<1> HIDE DEF t
<1>4. Len(t) = m
  BY <1>2, <1>3
<1>5. \A i \in 1..m : t[i] = s[i]
  BY <1>3, <1>4
<1> QED
  BY <1>3, <1>4, <1>5 DEF t

LEMMA FrontFacts ==
  ASSUME NEW S, NEW s \in Seq(S), s # <<>>
  PROVE  /\ Front(s) \in Seq(S) /\ Len(Front(s)) = Len(s) - 1
         /\ \A i \in 1..(Len(s) - 1) : Front(s)[i] = s[i]
         /\ Last(s) \in S /\ Last(s) = s[Len(s)]
         /\ s = Append(Front(s), Last(s))
<1>1. Len(s) \in Nat \ {0} /\ Len(s) - 1 \in 0..Len(s)
  OBVIOUS
<1>2. Front(s) = SubSeq(s, 1, Len(s) - 1) /\ Last(s) = s[Len(s)]
  BY DEF Front, Last
<1>3. /\ Front(s) \in Seq(S) /\ Len(Front(s)) = Len(s) - 1
      /\ \A i \in 1..(Len(s) - 1) : Front(s)[i] = s[i]
  <2>1. PICK m \in 0..Len(s) : m = Len(s) - 1
    BY <1>1
  <2>2. /\ SubSeq(s, 1, m) \in Seq(S) /\ Len(SubSeq(s, 1, m)) = m
        /\ \A i \in 1..m : SubSeq(s, 1, m)[i] = s[i]
    BY StartFacts
  <2>3. Front(s) = SubSeq(s, 1, m)
    BY <1>2, <2>1
  <2> QED
    BY <2>1, <2>2, <2>3
<1>4. Last(s) \in S
  BY <1>1, <1>2
<1>5. s = Append(Front(s), Last(s))
  <2> DEFINE t == Append(Front(s), Last(s))
  <2>1. t \in Seq(S) /\ Len(t) = Len(s)
    BY <1>1, <1>3, <1>4
  <2>2. \A i \in 1..Len(s) : s[i] = t[i]
    BY <1>1, <1>2, <1>3, <1>4
  <2> HIDE DEF t
  <2>3. s = t
    BY <2>1, <2>2, SameSeq
  <2> QED
    BY <2>3 DEF t
<1> QED
  BY <1>2, <1>3, <1>4, <1>5

LEMMA FrontOfAppend ==
  ASSUME NEW S, NEW s \in Seq(S), NEW x \in S
  PROVE  Front(Append(s, x)) = s /\ Last(Append(s, x)) = x
<1> DEFINE t == Append(s, x)
<1>1. /\ t \in Seq(S) /\ t # <<>> /\ Len(t) = Len(s) + 1 /\ t[Len(t)] = x
      /\ Len(s) \in Nat /\ \A i \in 1..Len(s) : t[i] = s[i]
  BY AppendType
<1> HIDE DEF t
<1>2. /\ Front(t) \in Seq(S) /\ Len(Front(t)) = Len(t) - 1
      /\ \A i \in 1..(Len(t) - 1) : Front(t)[i] = t[i]
      /\ Last(t) = t[Len(t)]
  BY <1>1, FrontFacts
<1> DEFINE r == Front(t)
<1> HIDE DEF r
<1>3. r \in Seq(S) /\ Len(r) = Len(s) /\ \A i \in 1..Len(r) : r[i] = s[i]
  BY <1>1, <1>2 DEF r
<1>4. r = s
  BY <1>3, SameSeq
<1> QED
  BY <1>1, <1>2, <1>4 DEF t, r

LEMMA FrontSame ==
  ASSUME NEW S, NEW s \in Seq(S), NEW t \in Seq(S), s # <<>>, Len(t) = Len(s),
         \A i \in 1..(Len(s) - 1) : t[i] = s[i]
  PROVE  Front(t) = Front(s)
<1>1. t # <<>> /\ Len(s) \in Nat \ {0}
  OBVIOUS
<1>2. /\ Front(s) \in Seq(S) /\ Len(Front(s)) = Len(s) - 1
      /\ \A i \in 1..(Len(s) - 1) : Front(s)[i] = s[i]
  BY FrontFacts
<1>3. /\ Front(t) \in Seq(S) /\ Len(Front(t)) = Len(s) - 1
      /\ \A i \in 1..(Len(s) - 1) : Front(t)[i] = t[i]
  BY <1>1, FrontFacts
<1> DEFINE x == Front(s)
           y == Front(t)
<1> HIDE DEF x, y
<1>4. x \in Seq(S) /\ y \in Seq(S) /\ Len(y) = Len(x) /\ \A i \in 1..Len(y) : y[i] = x[i]
  BY <1>1, <1>2, <1>3 DEF x, y
<1>5. y = x
  BY <1>4, SameSeq
<1> QED
  BY <1>5 DEF x, y

LEMMA EntryKinds ==
  ASSUME NEW f \in CallEntry
  PROVE  /\ f.kind \in {"integer", "text", "proc", "other"}
         /\ f.kind = "integer" => f.var \in CallVariables /\ f.val \in CallValues
         /\ f.kind = "proc" <=> f = Calls!ProcFrame
         /\ f.kind = "other" <=> f = Calls!Frame
         /\ Calls!IsLocal(f) <=> f.kind \in {"integer", "text"}
  BY DEF CallEntry, Calls!SavedText, Calls!ProcFrame, Calls!Frame, Calls!IsLocal

LEMMA NothingSaved == Calls!Nothing \in SavedValues
<1>1. Calls!Nothing \in [{} -> CallValues]
  BY DEF Calls!Nothing
<1> QED
  BY <1>1 DEF SavedValues

LEMMA WithEntryType ==
  ASSUME NEW s \in ScopeStacks, NEW f \in CallEntry
  PROVE  /\ Calls!WithEntry(s, f) \in ScopeStacks
         /\ ~Calls!IsLocal(f) =>
              Calls!WithEntry(s, f) = Append(s, Calls!Scope(f.kind, Calls!Nothing))
         /\ f.kind = "text" => Calls!WithEntry(s, f) = s
         /\ f.kind = "integer" =>
              /\ Len(Calls!WithEntry(s, f)) = Len(s)
              /\ Front(Calls!WithEntry(s, f)) = Front(s)
              /\ Last(Calls!WithEntry(s, f)).kind = Last(s).kind
              /\ Last(Calls!WithEntry(s, f)).saved =
                   [v \in DOMAIN Last(s).saved \cup {f.var} |->
                     IF v \in DOMAIN Last(s).saved THEN Last(s).saved[v] ELSE f.val]
<1> DEFINE w == Calls!WithEntry(s, f)
<1>1. s \in Seq(ScopeRecord) /\ s # <<>> /\ Len(s) \in Nat \ {0}
  <2>1. s \in Seq(ScopeRecord) /\ s # <<>>
    BY DEF ScopeStacks
  <2> QED
    BY <2>1
<1>2. CASE ~Calls!IsLocal(f)
  <2>1. w = Append(s, Calls!Scope(f.kind, Calls!Nothing))
    BY <1>2 DEF Calls!WithEntry, Calls!IsLocal
  <2>2. f.kind \in {"proc", "other"}
    BY <1>2, EntryKinds
  <2>3. Calls!Scope(f.kind, Calls!Nothing) \in ScopeRecord
    BY <2>2, NothingSaved DEF Calls!Scope, ScopeRecord
  <2> QED
    BY <1>1, <2>1, <2>2, <2>3, AppendType DEF ScopeStacks
<1>3. CASE f.kind = "text"
  BY <1>3 DEF Calls!WithEntry, Calls!IsLocal
<1>4. CASE f.kind = "integer"
  <2> DEFINE n == Len(s)
             d == s[n].saved
             g == [v \in DOMAIN d \cup {f.var} |-> IF v \in DOMAIN d THEN d[v] ELSE f.val]
  <2>1. w = [s EXCEPT ![n].saved = g]
    BY <1>4 DEF Calls!WithEntry, Calls!IsLocal
  <2>2. s[n] \in ScopeRecord
    BY <1>1, ElementType
  <2>3. PICK D \in SUBSET CallVariables : d \in [D -> CallValues]
    BY <2>2 DEF ScopeRecord, SavedValues
  <2>4. f.var \in CallVariables /\ f.val \in CallValues
    BY <1>4, EntryKinds
  <2>5. g \in [D \cup {f.var} -> CallValues]
    BY <2>3, <2>4
  <2>6. g \in SavedValues
    <3> HIDE DEF g
    <3> QED
      BY <2>4, <2>5 DEF SavedValues
  <2> HIDE DEF g
  <2>7. w = [s EXCEPT ![n] = [s[n] EXCEPT !.saved = g]]
    BY <2>1
  <2>8. [s[n] EXCEPT !.saved = g] \in ScopeRecord
    BY <2>2, <2>6 DEF ScopeRecord
  <2>9. [s[n] EXCEPT !.saved = g].kind = s[n].kind /\ [s[n] EXCEPT !.saved = g].saved = g
    BY <2>2 DEF ScopeRecord
  <2> DEFINE x == [s[n] EXCEPT !.saved = g]
  <2> HIDE DEF x
  <2>10. w = [s EXCEPT ![n] = x]
    BY <2>7 DEF x
  <2>11. w \in Seq(ScopeRecord) /\ Len(w) = n /\ w[n] = x
    BY <1>1, <2>8, <2>10 DEF x
  <2>12. Front(w) = Front(s)
    <3>1. \A i \in 1..(n - 1) : w[i] = s[i]
      BY <1>1, <2>10
    <3>2. Len(w) = Len(s) /\ \A i \in 1..(Len(s) - 1) : w[i] = s[i]
      BY <2>11, <3>1
    <3>3. w \in Seq(ScopeRecord) /\ s \in Seq(ScopeRecord) /\ s # <<>>
      BY <1>1, <2>11
    <3> HIDE DEF n, w
    <3> QED
      BY <3>2, <3>3, FrontSame
  <2>13. Last(w) = x /\ Last(s) = s[n]
    BY <2>11 DEF Last
  <2> QED
    BY <1>1, <1>4, <2>9, <2>11, <2>12, <2>13 DEF ScopeStacks, x, g, Calls!IsLocal
<1> QED
  BY <1>2, <1>3, <1>4, EntryKinds

\* The scopes of the first i entries, for every i.
LEMMA ScopesFacts ==
  ASSUME NEW st \in Stacks
  PROVE  /\ Calls!Scopes(st) \in [0..Len(st) -> ScopeStacks]
         /\ Calls!Scopes(st)[0] = <<Calls!Scope("top", Calls!Nothing)>>
         /\ \A i \in 1..Len(st) :
              Calls!Scopes(st)[i] = Calls!WithEntry(Calls!Scopes(st)[i - 1], st[i])
<1> DEFINE n == Len(st)
           b == <<Calls!Scope("top", Calls!Nothing)>>
           Solves(f) == f = [i \in 0..n |-> IF i = 0 THEN b
                                            ELSE Calls!WithEntry(f[i - 1], st[i])]
           g == [i \in 1..n |-> [s \in ScopeStacks |-> Calls!WithEntry(s, st[i])]]
<1>1. n \in Nat /\ \A i \in 1..n : st[i] \in CallEntry
  BY ElementType DEF Stacks
<1>2. b \in ScopeStacks
  <2>1. Calls!Scope("top", Calls!Nothing) \in ScopeRecord
    BY NothingSaved DEF Calls!Scope, ScopeRecord
  <2> QED
    BY <2>1 DEF ScopeStacks
<1>3. g \in [1..n -> [ScopeStacks -> ScopeStacks]]
  BY <1>1, WithEntryType
<1>4. PICK f \in [0..n -> ScopeStacks] : f[0] = b /\ \A i \in 1..n : f[i] = g[i][f[i - 1]]
  <2>1. n \in Nat /\ Steps(g, n, ScopeStacks)
    BY <1>1, <1>3 DEF Steps
  <2> HIDE DEF n, b, g
  <2>2. \E f : Iteration(f, g, n, ScopeStacks, b)
    BY <1>2, <2>1, Iterates
  <2> QED
    BY <2>2 DEF Iteration
<1>5. \A i \in 1..n : f[i - 1] \in ScopeStacks /\ i - 1 \in 0..n /\ i \in 0..n
  BY <1>1
<1>6. \A i \in 1..n : f[i] = Calls!WithEntry(f[i - 1], st[i])
  BY <1>4, <1>5
<1>7. Solves(f)
  <2> DEFINE h == [i \in 0..n |-> IF i = 0 THEN b ELSE Calls!WithEntry(f[i - 1], st[i])]
  <2>1. \A i \in 0..n : i # 0 => i \in 1..n
    BY <1>1
  <2>2. \A i \in 0..n : f[i] = h[i]
    BY <1>4, <1>6, <2>1
  <2>3. f = h
    BY <2>2
  <2> QED
    BY <2>3
<1>8. Solves(Calls!Scopes(st))
  <2>1. Calls!Scopes(st) = CHOOSE u : Solves(u)
    BY DEF Calls!Scopes
  <2> HIDE DEF Solves
  <2> QED
    BY <1>7, <2>1
<1> DEFINE u == Calls!Scopes(st)
<1> HIDE DEF u
<1>9. u = [i \in 0..n |-> IF i = 0 THEN b ELSE Calls!WithEntry(u[i - 1], st[i])]
  BY <1>8 DEF u
<1>10. /\ u = [i \in 0..n |-> u[i]] /\ u[0] = b
       /\ \A i \in 1..n : u[i] = Calls!WithEntry(u[i - 1], st[i])
  BY <1>1, <1>9
<1>11. u = f
  <2> DEFINE Differs == {i \in 1..n : u[i] # f[i]}
  <2>1. Differs = {}
    <3> SUFFICES ASSUME Differs # {} PROVE FALSE
      OBVIOUS
    <3>1. PICK i \in Differs : \A j \in Differs : i <= j
      <4>1. Differs \in SUBSET (1..n)
        OBVIOUS
      <4> HIDE DEF Differs
      <4> QED
        BY <1>1, <4>1, LeastExists
    <3>2. i \in 1..n /\ (i - 1 = 0 \/ i - 1 \in 1..n) /\ i - 1 \notin Differs
      BY <1>1, <3>1
    <3>3. u[i - 1] = f[i - 1]
      BY <1>4, <1>10, <3>2
    <3> QED
      BY <1>6, <1>10, <3>1, <3>2, <3>3
  <2>2. \A i \in 0..n : u[i] = f[i]
    <3>1. \A i \in 0..n : i = 0 \/ i \in 1..n
      BY <1>1
    <3> QED
      BY <1>4, <1>10, <2>1, <3>1
  <2> QED
    BY <1>4, <1>10, <2>2
<1> QED
  BY <1>4, <1>10, <1>11 DEF u

\* What is stacked later does not change them.
LEMMA ScopesAgree ==
  ASSUME NEW st \in Stacks, NEW su \in Stacks, NEW n \in 0..Len(st), n <= Len(su),
         \A i \in 1..n : st[i] = su[i]
  PROVE  \A i \in 0..n : Calls!Scopes(st)[i] = Calls!Scopes(su)[i]
<1> DEFINE u == Calls!Scopes(st)
           w == Calls!Scopes(su)
           Differs == {i \in 1..n : u[i] # w[i]}
<1> HIDE DEF u, w
<1>1. n \in Nat /\ Len(st) \in Nat /\ Len(su) \in Nat
  BY DEF Stacks
<1>2. /\ u[0] = w[0]
      /\ \A i \in 1..n : /\ u[i] = Calls!WithEntry(u[i - 1], st[i])
                         /\ w[i] = Calls!WithEntry(w[i - 1], su[i])
  <2>1. \A i \in 1..n : i \in 1..Len(st) /\ i \in 1..Len(su)
    BY <1>1
  <2> QED
    BY <2>1, ScopesFacts DEF u, w
<1>3. Differs = {}
  <2> SUFFICES ASSUME Differs # {} PROVE FALSE
    OBVIOUS
  <2>1. PICK i \in Differs : \A j \in Differs : i <= j
    <3>1. Differs \in SUBSET (1..n)
      OBVIOUS
    <3> HIDE DEF Differs
    <3> QED
      BY <1>1, <3>1, LeastExists
  <2>2. i \in 1..n /\ (i - 1 = 0 \/ i - 1 \in 1..n) /\ i - 1 \notin Differs
    BY <1>1, <2>1
  <2>3. u[i - 1] = w[i - 1]
    BY <1>2, <2>2
  <2> QED
    BY <1>2, <2>1, <2>2, <2>3
<1>4. \A i \in 0..n : i = 0 \/ i \in 1..n
  BY <1>1
<1> QED
  BY <1>2, <1>3, <1>4 DEF u, w

AllScopes(st) == Calls!Scopes(st)[Len(st)]

LEMMA ScopesOfEmpty == AllScopes(<<>>) = <<Calls!Scope("top", Calls!Nothing)>>
<1>1. <<>> \in Stacks /\ Len(<<>>) = 0
  BY EmptyType DEF Stacks
<1> QED
  BY <1>1, ScopesFacts DEF AllScopes

LEMMA ScopesOfStack ==
  ASSUME NEW st \in Stacks
  PROVE  AllScopes(st) \in ScopeStacks
<1>1. Len(st) \in 0..Len(st)
  BY DEF Stacks
<1> QED
  BY <1>1, ScopesFacts DEF AllScopes

LEMMA ScopesAppend ==
  ASSUME NEW st \in Stacks, NEW f \in CallEntry
  PROVE  AllScopes(Append(st, f)) = Calls!WithEntry(AllScopes(st), f)
<1> DEFINE su == Append(st, f)
<1>1. Len(st) \in Nat /\ su \in Stacks /\ Len(su) = Len(st) + 1 /\ su[Len(su)] = f
  BY AppendType DEF Stacks
<1>2. \A i \in 1..Len(st) : st[i] = su[i]
  BY DEF Stacks
<1> HIDE DEF su
<1>3. Len(st) \in 0..Len(st) /\ Len(st) <= Len(su) /\ Len(su) \in 1..Len(su)
  BY <1>1
<1>4. Calls!Scopes(su)[Len(st)] = Calls!Scopes(st)[Len(st)]
  BY <1>1, <1>2, <1>3, ScopesAgree
<1>5. Calls!Scopes(su)[Len(su)] = Calls!WithEntry(Calls!Scopes(su)[Len(su) - 1], f)
  BY <1>1, <1>3, ScopesFacts
<1>6. Len(su) - 1 = Len(st)
  BY <1>1
<1>7. AllScopes(su) = Calls!WithEntry(AllScopes(st), f)
  BY <1>4, <1>5, <1>6 DEF AllScopes
<1> QED
  BY <1>7 DEF su

-----------------------------------------------------------------------------
(* Copying back. *)

LEMMA PutType ==
  ASSUME NEW f \in CallEntry, NEW e \in Environments
  PROVE  /\ Calls!Put(f, e) \in Environments
         /\ f.kind # "integer" => Calls!Put(f, e) = e
         /\ f.kind = "integer" => \A v \in CallVariables :
              Calls!Put(f, e)[v] = IF v = f.var THEN f.val ELSE e[v]
  BY EntryKinds DEF Calls!Put, Environments

\* LocalRestore goes down entry by entry.
LEMMA PutBackFacts ==
  ASSUME NEW st \in Stacks, NEW e \in Environments
  PROVE  /\ Calls!PutBack(e, st) \in [0..Len(st) -> Environments]
         /\ Calls!PutBack(e, st)[Len(st)] = e
         /\ \A i \in 1..Len(st) :
              Calls!PutBack(e, st)[i - 1] = Calls!Put(st[i], Calls!PutBack(e, st)[i])
<1> DEFINE n == Len(st)
           Solves(f) == f = [i \in 0..n |-> IF i = n THEN e
                                            ELSE Calls!Put(st[i + 1], f[i + 1])]
           g == [i \in 1..n |-> [x \in Environments |-> Calls!Put(st[n + 1 - i], x)]]
<1>1. n \in Nat /\ \A i \in 1..n : st[i] \in CallEntry
  BY ElementType DEF Stacks
<1>2. g \in [1..n -> [Environments -> Environments]]
  <2>1. \A i \in 1..n : n + 1 - i \in 1..n
    BY <1>1
  <2>2. \A i \in 1..n : st[n + 1 - i] \in CallEntry
    BY <1>1, <2>1
  <2> QED
    BY <2>2, PutType
<1>3. PICK h \in [0..n -> Environments] : h[0] = e /\ \A i \in 1..n : h[i] = g[i][h[i - 1]]
  <2>1. n \in Nat /\ Steps(g, n, Environments)
    BY <1>1, <1>2 DEF Steps
  <2> HIDE DEF n, g
  <2>2. \E f : Iteration(f, g, n, Environments, e)
    BY <2>1, Iterates
  <2> QED
    BY <2>2 DEF Iteration
<1> DEFINE f == [i \in 0..n |-> h[n - i]]
<1>4. f \in [0..n -> Environments] /\ f[n] = e
  <2>1. \A i \in 0..n : n - i \in 0..n
    BY <1>1
  <2>2. n \in 0..n /\ n - n = 0
    BY <1>1
  <2> QED
    BY <1>3, <2>1, <2>2
<1>5. \A i \in 0..n : i # n => f[i] = Calls!Put(st[i + 1], f[i + 1])
  <2> SUFFICES ASSUME NEW i \in 0..n, i # n PROVE f[i] = Calls!Put(st[i + 1], f[i + 1])
    OBVIOUS
  <2>1. /\ n - i \in 1..n /\ (n - i) - 1 = n - (i + 1) /\ n + 1 - (n - i) = i + 1
        /\ i + 1 \in 0..n /\ n - (i + 1) \in 0..n
    BY <1>1
  <2>2. f[i] = h[n - i] /\ f[i + 1] = h[n - (i + 1)]
    BY <2>1
  <2>3. h[n - i] = g[n - i][h[n - (i + 1)]] /\ h[n - (i + 1)] \in Environments
    BY <1>3, <2>1
  <2>4. g[n - i][h[n - (i + 1)]] = Calls!Put(st[n + 1 - (n - i)], h[n - (i + 1)])
    BY <2>1, <2>3
  <2> QED
    BY <2>1, <2>2, <2>3, <2>4
<1> HIDE DEF f
<1>6. Solves(f)
  <2> DEFINE k == [i \in 0..n |-> IF i = n THEN e ELSE Calls!Put(st[i + 1], f[i + 1])]
  <2>1. \A i \in 0..n : f[i] = k[i]
    BY <1>4, <1>5
  <2>2. f = k
    BY <1>4, <2>1
  <2> QED
    BY <2>2
<1>7. Solves(Calls!PutBack(e, st))
  <2>1. Calls!PutBack(e, st) = CHOOSE u : Solves(u)
    BY DEF Calls!PutBack
  <2> HIDE DEF Solves
  <2> QED
    BY <1>6, <2>1
<1> DEFINE u == Calls!PutBack(e, st)
<1> HIDE DEF u
<1>8. u = [i \in 0..n |-> IF i = n THEN e ELSE Calls!Put(st[i + 1], u[i + 1])]
  BY <1>7 DEF u
<1>9. /\ u = [i \in 0..n |-> u[i]] /\ u[n] = e
      /\ \A i \in 0..n : i # n => u[i] = Calls!Put(st[i + 1], u[i + 1])
  BY <1>1, <1>8
<1>10. u = f
  <2> DEFINE Differs == {i \in 1..n : u[n - i] # f[n - i]}
  <2>1. Differs = {}
    <3> SUFFICES ASSUME Differs # {} PROVE FALSE
      OBVIOUS
    <3>1. PICK i \in Differs : \A j \in Differs : i <= j
      <4>1. Differs \in SUBSET (1..n)
        OBVIOUS
      <4> HIDE DEF Differs
      <4> QED
        BY <1>1, <4>1, LeastExists
    <3>2. /\ i \in 1..n /\ (i - 1 = 0 \/ i - 1 \in 1..n) /\ i - 1 \notin Differs
          /\ n - i \in 0..n /\ n - i # n /\ (n - i) + 1 = n - (i - 1)
      BY <1>1, <3>1
    <3>3. u[(n - i) + 1] = f[(n - i) + 1]
      <4>1. CASE i - 1 = 0
        <5>1. (n - i) + 1 = n
          <6>1. n \in Int /\ i \in Int
            BY <1>1, <3>2
          <6> HIDE DEF n, Differs
          <6> QED
            BY <4>1, <6>1
        <5> QED
          BY <1>4, <1>9, <5>1
      <4>2. CASE i - 1 \in 1..n
        BY <3>2, <4>2
      <4> QED
        BY <3>2, <4>1, <4>2
    <3> QED
      BY <1>5, <1>9, <3>1, <3>2, <3>3
  <2>2. \A i \in 0..n : u[i] = f[i]
    <3> SUFFICES ASSUME NEW i \in 0..n PROVE u[i] = f[i]
      OBVIOUS
    <3>1. i = n \/ (n - i \in 1..n /\ n - (n - i) = i)
      BY <1>1
    <3> QED
      BY <1>4, <1>9, <2>1, <3>1
  <2> QED
    BY <1>4, <1>9, <2>2
<1>11. \A i \in 1..n : i - 1 \in 0..n /\ i - 1 # n /\ (i - 1) + 1 = i
  BY <1>1
<1> QED
  BY <1>4, <1>9, <1>10, <1>11 DEF u

-----------------------------------------------------------------------------
(* The frame below the local variables. *)

LEMMA BaseFacts ==
  ASSUME NEW st \in Stacks
  PROVE  /\ Calls!BaseOf(st) \in 0..Len(st)
         /\ \A i \in (Calls!BaseOf(st) + 1)..Len(st) : Calls!IsLocal(st[i])
         /\ Calls!BaseOf(st) # 0 => ~Calls!IsLocal(st[Calls!BaseOf(st)])
<1> DEFINE Others == {i \in 1..Len(st) : ~Calls!IsLocal(st[i])}
           m == Calls!BaseOf(st)
<1>1. Len(st) \in Nat
  BY DEF Stacks
<1>2. m = IF Others # {} THEN Max(Others) ELSE 0
  BY DEF Calls!BaseOf, Calls!SelectLastInSeq, Calls!Max, Max
<1> HIDE DEF m
<1>3. CASE Others = {}
  BY <1>1, <1>2, <1>3 DEF m
<1>4. CASE Others # {}
  <2>1. m \in Others /\ \A j \in Others : m >= j
    <3>1. Others \in SUBSET (1..Len(st))
      OBVIOUS
    <3> HIDE DEF Others
    <3> QED
      BY <1>1, <1>2, <1>4, <3>1, MaxType
  <2>2. m \in 1..Len(st) /\ ~Calls!IsLocal(st[m])
    BY <2>1
  <2>3. ASSUME NEW i \in (m + 1)..Len(st), ~Calls!IsLocal(st[i]) PROVE FALSE
    <3>1. i \in Others
      BY <1>1, <2>2, <2>3
    <3> QED
      BY <1>1, <2>1, <2>2, <3>1
  <2> QED
    BY <1>1, <2>2, <2>3 DEF m
<1> QED
  BY <1>3, <1>4

\* It is the only such place.
LEMMA BaseUnique ==
  ASSUME NEW st \in Stacks, NEW b \in 0..Len(st),
         \A i \in (b + 1)..Len(st) : Calls!IsLocal(st[i]),
         b # 0 => ~Calls!IsLocal(st[b])
  PROVE  Calls!BaseOf(st) = b
<1> DEFINE m == Calls!BaseOf(st)
<1>1. /\ m \in 0..Len(st) /\ Len(st) \in Nat
      /\ \A i \in (m + 1)..Len(st) : Calls!IsLocal(st[i])
      /\ m # 0 => ~Calls!IsLocal(st[m])
  BY BaseFacts DEF Stacks
<1> HIDE DEF m
<1>2. ~(m < b)
  <2> SUFFICES ASSUME m < b PROVE FALSE
    OBVIOUS
  <2>1. b # 0 /\ b \in (m + 1)..Len(st)
    BY <1>1
  <2> QED
    BY <1>1, <2>1
<1>3. ~(b < m)
  <2> SUFFICES ASSUME b < m PROVE FALSE
    OBVIOUS
  <2>1. m # 0 /\ m \in (b + 1)..Len(st)
    BY <1>1
  <2> QED
    BY <1>1, <2>1
<1> QED
  BY <1>1, <1>2, <1>3 DEF m

LEMMA BaseAppend ==
  ASSUME NEW st \in Stacks, NEW f \in CallEntry
  PROVE  Calls!BaseOf(Append(st, f)) =
           IF Calls!IsLocal(f) THEN Calls!BaseOf(st) ELSE Len(st) + 1
<1> DEFINE su == Append(st, f)
           m == Calls!BaseOf(st)
<1>1. /\ Len(st) \in Nat /\ su \in Stacks /\ Len(su) = Len(st) + 1 /\ su[Len(su)] = f
      /\ \A i \in 1..Len(st) : su[i] = st[i]
  BY AppendType DEF Stacks
<1>2. /\ m \in 0..Len(st)
      /\ \A i \in (m + 1)..Len(st) : Calls!IsLocal(st[i])
      /\ m # 0 => ~Calls!IsLocal(st[m])
  BY BaseFacts
<1> HIDE DEF su, m
<1>3. CASE Calls!IsLocal(f)
  <2>1. \A i \in (m + 1)..Len(su) : i = Len(su) \/ (i \in 1..Len(st) /\ i \in (m + 1)..Len(st))
    BY <1>1, <1>2
  <2>2. \A i \in (m + 1)..Len(su) : Calls!IsLocal(su[i])
    BY <1>1, <1>2, <1>3, <2>1
  <2>3. m \in 0..Len(su) /\ (m # 0 => m \in 1..Len(st))
    BY <1>1, <1>2
  <2>4. Calls!BaseOf(su) = m
    BY <1>1, <1>2, <2>2, <2>3, BaseUnique
  <2> QED
    BY <1>3, <2>4 DEF su, m
<1>4. CASE ~Calls!IsLocal(f)
  <2>1. Len(su) \in 0..Len(su) /\ \A i \in (Len(su) + 1)..Len(su) : FALSE
    BY <1>1
  <2>2. Calls!BaseOf(su) = Len(su)
    BY <1>1, <1>4, <2>1, BaseUnique
  <2> QED
    BY <1>1, <1>4, <2>2 DEF su
<1> QED
  BY <1>3, <1>4

-----------------------------------------------------------------------------
(* The topmost scope is that of the entries above the frame. *)

KindOf(st, b) == IF b = 0 THEN "top" ELSE st[b].kind

\* Above the frame only the last scope changes; the frame opened it.
LEMMA ScopeOfFrame ==
  ASSUME NEW st \in Stacks, NEW i \in Calls!BaseOf(st)..Len(st)
  PROVE  LET b == Calls!BaseOf(st)
             u == Calls!Scopes(st)
         IN  /\ Last(u[i]).kind = KindOf(st, b)
             /\ Front(u[i]) = Front(u[b])
             /\ Last(u[b]).saved = Calls!Nothing
             /\ b # 0 => Front(u[b]) = u[b - 1]
<1> DEFINE b == Calls!BaseOf(st)
           u == Calls!Scopes(st)
           n == Len(st)
<1>1. /\ n \in Nat /\ b \in 0..n /\ i \in b..n
      /\ \A j \in (b + 1)..n : Calls!IsLocal(st[j])
      /\ b # 0 => ~Calls!IsLocal(st[b])
  BY BaseFacts DEF Stacks
<1>2. /\ u \in [0..n -> ScopeStacks]
      /\ u[0] = <<Calls!Scope("top", Calls!Nothing)>>
      /\ \A j \in 1..n : u[j] = Calls!WithEntry(u[j - 1], st[j])
  BY ScopesFacts
<1>3. \A j \in 1..n : st[j] \in CallEntry
  BY ElementType DEF Stacks
<1> HIDE DEF b, u, n
<1>4. /\ Last(u[b]).kind = KindOf(st, b) /\ Last(u[b]).saved = Calls!Nothing
      /\ b # 0 => Front(u[b]) = u[b - 1]
  <2>1. CASE b = 0
    <3>1. Last(u[0]) = Calls!Scope("top", Calls!Nothing)
      BY <1>2 DEF Last
    <3> QED
      BY <2>1, <3>1 DEF KindOf, Calls!Scope
  <2>2. CASE b # 0
    <3>1. b \in 1..n /\ b - 1 \in 0..n
      BY <1>1, <2>2
    <3>2. u[b - 1] \in ScopeStacks /\ st[b] \in CallEntry /\ ~Calls!IsLocal(st[b])
      BY <1>1, <1>2, <1>3, <2>2, <3>1
    <3> DEFINE s == u[b - 1]
               x == Calls!Scope(st[b].kind, Calls!Nothing)
    <3>3. u[b] = Append(s, x)
      <4>1. PICK y \in ScopeStacks : y = u[b - 1]
        BY <3>2
      <4>2. PICK f \in CallEntry : f = st[b]
        BY <3>2
      <4>3. Calls!WithEntry(y, f) = Append(y, Calls!Scope(f.kind, Calls!Nothing))
        BY <3>2, <4>2, WithEntryType
      <4> QED
        BY <1>2, <3>1, <4>1, <4>2, <4>3
    <3>4. x \in ScopeRecord /\ x.kind = st[b].kind /\ x.saved = Calls!Nothing
      <4>1. st[b].kind \in {"proc", "other"}
        BY <3>2, EntryKinds
      <4> QED
        BY <4>1, NothingSaved DEF Calls!Scope, ScopeRecord
    <3>5. Front(Append(s, x)) = s /\ Last(Append(s, x)) = x
      <4>1. s \in Seq(ScopeRecord)
        BY <3>2 DEF ScopeStacks
      <4> HIDE DEF s, x
      <4> QED
        BY <3>4, <4>1, FrontOfAppend
    <3> QED
      BY <2>2, <3>3, <3>4, <3>5 DEF KindOf
  <2> QED
    BY <2>1, <2>2
<1> DEFINE Good(j) == Last(u[j]).kind = KindOf(st, b) /\ Front(u[j]) = Front(u[b])
           Wrong == {j \in 1..n : j >= b /\ ~Good(j)}
<1>5. Wrong = {}
  <2> SUFFICES ASSUME Wrong # {} PROVE FALSE
    OBVIOUS
  <2>1. PICK j \in Wrong : \A k \in Wrong : j <= k
    <3>1. Wrong \in SUBSET (1..n)
      OBVIOUS
    <3> HIDE DEF Wrong
    <3> QED
      BY <1>1, <3>1, LeastExists
  <2>2. j \in 1..n /\ j >= b /\ ~Good(j)
    BY <2>1
  <2>3. j # b
    BY <1>4, <2>2
  <2>4. /\ j \in (b + 1)..n /\ j - 1 >= b /\ j - 1 \in 0..n
        /\ (j - 1 = 0 \/ j - 1 \in 1..n) /\ j - 1 \notin Wrong
    BY <1>1, <2>1, <2>2, <2>3
  <2>5. Good(j - 1)
    <3>1. CASE j - 1 = 0
      <4>1. b = 0
        BY <1>1, <2>4, <3>1
      <4> QED
        BY <1>4, <3>1, <4>1
    <3>2. CASE j - 1 \in 1..n
      <4> HIDE DEF Good
      <4> QED
        BY <2>4, <3>2
    <3> QED
      BY <2>4, <3>1, <3>2
  <2>6. u[j - 1] \in ScopeStacks /\ st[j] \in CallEntry /\ Calls!IsLocal(st[j])
    BY <1>1, <1>2, <1>3, <2>2, <2>4
  <2>7. u[j] = Calls!WithEntry(u[j - 1], st[j])
    BY <1>2, <2>2
  <2>8. Last(u[j]).kind = Last(u[j - 1]).kind /\ Front(u[j]) = Front(u[j - 1])
    <3>1. PICK y \in ScopeStacks : y = u[j - 1]
      BY <2>6
    <3>2. PICK f \in CallEntry : f = st[j]
      BY <2>6
    <3>3. f.kind \in {"integer", "text"}
      BY <2>6, <3>2, EntryKinds
    <3> DEFINE w == Calls!WithEntry(y, f)
    <3> HIDE DEF w
    <3>4. Last(w).kind = Last(y).kind /\ Front(w) = Front(y)
      BY <3>3, WithEntryType DEF w
    <3>5. u[j] = w
      BY <2>7, <3>1, <3>2 DEF w
    <3> QED
      BY <3>1, <3>4, <3>5
  <2> QED
    BY <2>2, <2>5, <2>8
<1>6. Good(i)
  <2>1. i = b \/ (i \in 1..n /\ i >= b)
    BY <1>1
  <2>2. i \in 1..n /\ i >= b => Good(i)
    <3> HIDE DEF Good
    <3> QED
      BY <1>5
  <2> QED
    BY <1>4, <2>1, <2>2
<1> QED
  BY <1>4, <1>6 DEF b, u

\* What copying back does is to give the variables of the topmost scope the
\* values saved there.
SavedOver(e, d) == [v \in CallVariables |-> IF v \in DOMAIN d THEN d[v] ELSE e[v]]

LEMMA RestoredIsSaved ==
  ASSUME NEW st \in Stacks, NEW e \in Environments
  PROVE  Calls!PutBack(e, st)[Calls!BaseOf(st)] = SavedOver(e, Last(AllScopes(st)).saved)
<1> DEFINE b == Calls!BaseOf(st)
           u == Calls!Scopes(st)
           n == Len(st)
           p == Calls!PutBack(e, st)
           d(j) == Last(u[j]).saved
<1>1. /\ n \in Nat /\ b \in 0..n
      /\ \A j \in (b + 1)..n : Calls!IsLocal(st[j])
  BY BaseFacts DEF Stacks
<1>2. /\ u \in [0..n -> ScopeStacks]
      /\ \A j \in 1..n : u[j] = Calls!WithEntry(u[j - 1], st[j])
  BY ScopesFacts
<1>3. \A j \in 1..n : st[j] \in CallEntry
  BY ElementType DEF Stacks
<1>4. /\ p \in [0..n -> Environments] /\ p[n] = e
      /\ \A j \in 1..n : p[j - 1] = Calls!Put(st[j], p[j])
  BY PutBackFacts
<1>5. d(b) = Calls!Nothing
  <2>1. b \in b..n
    BY <1>1
  <2> QED
    BY <2>1, ScopeOfFrame
<1> HIDE DEF b, u, n, p
<1> DEFINE Good(j) == SavedOver(p[j], d(j)) = p[b]
           Wrong == {j \in 1..n : j >= b /\ ~Good(j)}
<1>6. Good(b)
  <2>1. p[b] \in Environments
    BY <1>1, <1>4
  <2>2. DOMAIN d(b) = {}
    BY <1>5 DEF Calls!Nothing
  <2>3. SavedOver(p[b], d(b)) = [v \in CallVariables |-> p[b][v]]
    BY <2>2 DEF SavedOver
  <2> QED
    BY <2>1, <2>3 DEF Environments
<1>7. Wrong = {}
  <2> SUFFICES ASSUME Wrong # {} PROVE FALSE
    OBVIOUS
  <2>1. PICK j \in Wrong : \A k \in Wrong : j <= k
    <3>1. Wrong \in SUBSET (1..n)
      OBVIOUS
    <3> HIDE DEF Wrong
    <3> QED
      BY <1>1, <3>1, LeastExists
  <2>2. j \in 1..n /\ j >= b /\ ~Good(j)
    BY <2>1
  <2>3. j # b
    BY <1>6, <2>2
  <2>4. /\ j \in (b + 1)..n /\ j - 1 >= b /\ j - 1 \in 0..n /\ j \in 0..n
        /\ (j - 1 = b \/ j - 1 \in 1..n) /\ j - 1 \notin Wrong
    BY <1>1, <2>1, <2>2, <2>3
  <2>5. Good(j - 1)
    <3>1. CASE j - 1 = b
      BY <1>6, <3>1
    <3>2. CASE j - 1 \in 1..n
      <4> HIDE DEF Good
      <4> QED
        BY <2>4, <3>2
    <3> QED
      BY <2>4, <3>1, <3>2
  <2>6. /\ u[j - 1] \in ScopeStacks /\ st[j] \in CallEntry /\ Calls!IsLocal(st[j])
        /\ p[j] \in Environments
    BY <1>1, <1>2, <1>3, <1>4, <2>2, <2>4
  <2>7. u[j] = Calls!WithEntry(u[j - 1], st[j]) /\ p[j - 1] = Calls!Put(st[j], p[j])
    BY <1>2, <1>4, <2>2
  <2>8. SavedOver(p[j], d(j)) = SavedOver(p[j - 1], d(j - 1))
    <3>1. CASE st[j].kind = "text"
      <4>1. u[j] = u[j - 1] /\ p[j - 1] = p[j]
        BY <2>6, <2>7, <3>1, WithEntryType, PutType
      <4> QED
        BY <4>1
    <3>2. CASE st[j].kind = "integer"
      <4> DEFINE g == d(j - 1)
                 h == d(j)
                 x == st[j].var
                 c == st[j].val
      <4>1. h = [v \in DOMAIN g \cup {x} |-> IF v \in DOMAIN g THEN g[v] ELSE c]
        <5>1. PICK y \in ScopeStacks : y = u[j - 1]
          BY <2>6
        <5>2. PICK f \in CallEntry : f = st[j]
          BY <2>6
        <5>3. Last(Calls!WithEntry(y, f)).saved =
                [v \in DOMAIN Last(y).saved \cup {f.var} |->
                  IF v \in DOMAIN Last(y).saved THEN Last(y).saved[v] ELSE f.val]
          BY <3>2, <5>2, WithEntryType
        <5> QED
          BY <2>7, <5>1, <5>2, <5>3
      <4>2. \A v \in CallVariables : p[j - 1][v] = IF v = x THEN c ELSE p[j][v]
        BY <2>6, <2>7, <3>2, PutType
      <4> HIDE DEF g, h, x, c
      <4>3. \A v \in CallVariables :
              (IF v \in DOMAIN h THEN h[v] ELSE p[j][v])
                = IF v \in DOMAIN g THEN g[v] ELSE p[j - 1][v]
        BY <4>1, <4>2
      <4>4. SavedOver(p[j], h) = SavedOver(p[j - 1], g)
        BY <4>3 DEF SavedOver
      <4> QED
        BY <4>4 DEF g, h
    <3> QED
      BY <2>6, <3>1, <3>2, EntryKinds
  <2> QED
    BY <2>2, <2>5, <2>8
<1>8. Good(n)
  <2>1. n = b \/ (n \in 1..n /\ n >= b)
    BY <1>1
  <2>2. n \in 1..n /\ n >= b => Good(n)
    <3> HIDE DEF Good
    <3> QED
      BY <1>7
  <2> QED
    BY <1>6, <2>1, <2>2
<1>9. SavedOver(e, d(n)) = p[b]
  BY <1>4, <1>8
<1> QED
  BY <1>9 DEF b, u, n, p, AllScopes

-----------------------------------------------------------------------------
(* Parameters. *)

Bound(fs, n) == {fs[i] : i \in 1..n} \cap CallVariables
Position(fs, n, v) == LET I == {i \in 1..n : fs[i] = v} IN IF I # {} THEN Max(I) ELSE 0
ArgValue(e, a) == IF a \in CallVariables THEN e[a] ELSE Constant[a]

\* The first n parameters have the values of their arguments in e.
BoundTo(fs, args, n, e) ==
  [v \in CallVariables |->
    IF v \in Bound(fs, n) THEN ArgValue(e, args[Position(fs, n, v)]) ELSE e[v]]

LEMMA PositionFacts ==
  ASSUME NEW fs, NEW n \in Nat, NEW v, NEW i \in 1..n, fs[i] = v,
         \A j \in 1..n : j > i => fs[j] # v
  PROVE  Position(fs, n, v) = i
<1> DEFINE I == {j \in 1..n : fs[j] = v}
<1>1. I \in SUBSET (1..n) /\ i \in I
  OBVIOUS
<1>2. Position(fs, n, v) = Max(I)
  BY <1>1 DEF Position
<1>3. Max(I) \in I /\ \A j \in I : Max(I) >= j
  <2> HIDE DEF I
  <2> QED
    BY <1>1, MaxType
<1>4. Max(I) \in 1..n /\ fs[Max(I)] = v /\ Max(I) >= i
  BY <1>1, <1>3
<1> QED
  BY <1>2, <1>4

LEMMA LastPosition ==
  ASSUME NEW fs, NEW n \in Nat, NEW v, \E i \in 1..n : fs[i] = v
  PROVE  /\ Position(fs, n, v) \in 1..n /\ fs[Position(fs, n, v)] = v
         /\ \A j \in 1..n : j > Position(fs, n, v) => fs[j] # v
<1> DEFINE I == {j \in 1..n : fs[j] = v}
<1>1. I \in SUBSET (1..n) /\ I # {}
  OBVIOUS
<1>2. Position(fs, n, v) = Max(I)
  BY <1>1 DEF Position
<1>3. Max(I) \in I /\ \A j \in I : Max(I) >= j
  <2> HIDE DEF I
  <2> QED
    BY <1>1, MaxType
<1> DEFINE m == Max(I)
<1>4. m \in 1..n /\ fs[m] = v /\ \A j \in 1..n : fs[j] = v => m >= j
  BY <1>3
<1> HIDE DEF m
<1>5. \A j \in 1..n : j > m => fs[j] # v
  BY <1>4
<1> QED
  BY <1>2, <1>4, <1>5 DEF m

\* One parameter more.
BindsOneMore(fs, args, n, e) ==
  /\ fs[n + 1] \notin CallVariables =>
       /\ BoundTo(fs, args, n + 1, e) = BoundTo(fs, args, n, e)
       /\ Bound(fs, n + 1) = Bound(fs, n)
  /\ fs[n + 1] \in CallVariables =>
       /\ BoundTo(fs, args, n + 1, e) =
            [BoundTo(fs, args, n, e) EXCEPT ![fs[n + 1]] = ArgValue(e, args[n + 1])]
       /\ Bound(fs, n + 1) = Bound(fs, n) \cup {fs[n + 1]}

LEMMA BindsNext ==
  ASSUME NEW fs, NEW args, NEW n \in Nat, NEW e \in Environments
  PROVE  BindsOneMore(fs, args, n, e)
<1> DEFINE v == fs[n + 1]
           f == BoundTo(fs, args, n, e)
           g == BoundTo(fs, args, n + 1, e)
<1>1. 1..(n + 1) = (1..n) \cup {n + 1}
  OBVIOUS
<1>2. {fs[i] : i \in 1..(n + 1)} = {fs[i] : i \in 1..n} \cup {v}
  BY <1>1
<1>3. /\ v \notin CallVariables => Bound(fs, n + 1) = Bound(fs, n)
      /\ v \in CallVariables => Bound(fs, n + 1) = Bound(fs, n) \cup {v}
  BY <1>2 DEF Bound
<1>4. ASSUME NEW w \in Bound(fs, n), w # v
      PROVE  Position(fs, n + 1, w) = Position(fs, n, w)
  <2> DEFINE m == Position(fs, n, w)
  <2>1. \E i \in 1..n : fs[i] = w
    BY DEF Bound
  <2>2. m \in 1..n /\ fs[m] = w /\ \A j \in 1..n : j > m => fs[j] # w
    BY <2>1, LastPosition
  <2> HIDE DEF m
  <2>3. m \in 1..(n + 1) /\ n + 1 \in Nat /\ \A j \in 1..(n + 1) : j > m => fs[j] # w
    BY <1>1, <1>4, <2>2
  <2>4. Position(fs, n + 1, w) = m
    BY <2>2, <2>3, PositionFacts
  <2> QED
    BY <2>4 DEF m
<1>5. Position(fs, n + 1, v) = n + 1
  <2>1. n + 1 \in 1..(n + 1) /\ n + 1 \in Nat /\ \A j \in 1..(n + 1) : ~(j > n + 1)
    OBVIOUS
  <2> QED
    BY <2>1, PositionFacts
<1>6. ASSUME NEW w \in CallVariables, w # v PROVE g[w] = f[w]
  <2>1. w \in Bound(fs, n + 1) <=> w \in Bound(fs, n)
    BY <1>3, <1>6
  <2>2. CASE w \in Bound(fs, n)
    BY <1>4, <1>6, <2>1, <2>2 DEF BoundTo
  <2>3. CASE w \notin Bound(fs, n)
    BY <2>1, <2>3 DEF BoundTo
  <2> QED
    BY <2>2, <2>3
<1>7. v \in CallVariables => g[v] = ArgValue(e, args[n + 1])
  BY <1>3, <1>5 DEF BoundTo
<1>8. f = [w \in CallVariables |-> f[w]] /\ g = [w \in CallVariables |-> g[w]]
  BY DEF BoundTo
<1> HIDE DEF f, g, v
<1>9. v \notin CallVariables => g = f
  <2> SUFFICES ASSUME v \notin CallVariables PROVE g = f
    OBVIOUS
  <2>1. \A w \in CallVariables : g[w] = f[w]
    BY <1>6
  <2> QED
    BY <1>8, <2>1
<1>10. v \in CallVariables => g = [f EXCEPT ![v] = ArgValue(e, args[n + 1])]
  <2> SUFFICES ASSUME v \in CallVariables PROVE g = [f EXCEPT ![v] = ArgValue(e, args[n + 1])]
    OBVIOUS
  <2> DEFINE h == [f EXCEPT ![v] = ArgValue(e, args[n + 1])]
  <2>1. h = [w \in CallVariables |-> IF w = v THEN ArgValue(e, args[n + 1]) ELSE f[w]]
    BY <1>8
  <2>2. \A w \in CallVariables : g[w] = IF w = v THEN ArgValue(e, args[n + 1]) ELSE f[w]
    BY <1>6, <1>7
  <2> QED
    BY <1>8, <2>1, <2>2
<1> QED
  BY <1>3, <1>9, <1>10 DEF BindsOneMore, f, g, v

\* What ScopeStore says of a call.
LEMMA CallAsSpecified ==
  ASSUME NEW p \in Procedures, NEW args \in Seq(CallVariables \cup DOMAIN Constant \cup {Bad}),
         NEW n \in Nat, NEW e \in Environments,
         NEW s \in ScopeStacks, NEW t \in ScopeStacks, NEW r,
         Bad \in Calls!ToSet(args) => n = 0,
         r = "ok" => /\ n = Len(Formals[p]) /\ n = Len(args)
                     /\ DOMAIN Last(t).saved = Bound(Formals[p], n),
         Front(t) = s, Last(t).kind = "proc",
         Bound(Formals[p], n) \subseteq DOMAIN Last(t).saved,
         \A v \in DOMAIN Last(t).saved : Last(t).saved[v] = e[v]
  PROVE  Calls!Store!Call(p, args, n, e, s, BoundTo(Formals[p], args, n, e), t, r)
<1> DEFINE fs == Formals[p]
           saved == Last(t).saved
<1>1. t = Append(s, Calls!Store!Scope("proc", saved))
  <2>1. t \in Seq(ScopeRecord) /\ t # <<>>
    BY DEF ScopeStacks
  <2>2. t = Append(Front(t), Last(t)) /\ Last(t) \in ScopeRecord
    BY <2>1, FrontFacts
  <2>3. Last(t) = [kind |-> "proc", saved |-> saved]
    BY <2>2 DEF ScopeRecord
  <2> QED
    BY <2>2, <2>3 DEF Calls!Store!Scope
<1>3. Bound(fs, n) = {fs[i] : i \in 1..n} \cap CallVariables
  BY DEF Bound
<1>4. BoundTo(fs, args, n, e) =
        [v \in CallVariables |->
          IF v \notin Bound(fs, n) THEN e[v]
          ELSE IF args[Position(fs, n, v)] \in CallVariables
                 THEN e[args[Position(fs, n, v)]] ELSE Constant[args[Position(fs, n, v)]]]
  BY DEF BoundTo, ArgValue
<1>5. Calls!Store!ToSet(args) = Calls!ToSet(args)
  BY DEF Calls!ToSet, Calls!Store!ToSet
<1>7. Calls!Store!Call(p, args, n, e, s, BoundTo(fs, args, n, e), t, r) <=>
        /\ Bad \in Calls!Store!ToSet(args) => n = 0
        /\ r = "ok" => n = Len(fs) /\ n = Len(args)
                         /\ DOMAIN saved = {fs[i] : i \in 1..n} \cap CallVariables
        /\ t = Append(s, Calls!Store!Scope("proc", saved))
        /\ {fs[i] : i \in 1..n} \cap CallVariables \subseteq DOMAIN saved
        /\ \A v \in DOMAIN saved : saved[v] = e[v]
        /\ BoundTo(fs, args, n, e) = [v \in CallVariables |->
             IF v \notin {fs[i] : i \in 1..n} \cap CallVariables THEN e[v]
             ELSE IF args[Calls!Store!SelectLastInSubSeq(fs, 1, n, LAMBDA x : x = v)] \in CallVariables
                    THEN e[args[Calls!Store!SelectLastInSubSeq(fs, 1, n, LAMBDA x : x = v)]]
                    ELSE Constant[args[Calls!Store!SelectLastInSubSeq(fs, 1, n, LAMBDA x : x = v)]]]
  BY Zenon DEF Calls!Store!Call, Calls!Store!Last, Last, fs, saved
<1>8. BoundTo(fs, args, n, e) = [v \in CallVariables |->
         IF v \notin {fs[i] : i \in 1..n} \cap CallVariables THEN e[v]
         ELSE IF args[Calls!Store!SelectLastInSubSeq(fs, 1, n, LAMBDA x : x = v)] \in CallVariables
                THEN e[args[Calls!Store!SelectLastInSubSeq(fs, 1, n, LAMBDA x : x = v)]]
                ELSE Constant[args[Calls!Store!SelectLastInSubSeq(fs, 1, n, LAMBDA x : x = v)]]]
  BY <1>4 DEF Bound, Calls!Store!SelectLastInSubSeq, Calls!Store!Max, Position, Max
<1>9. /\ Bad \in Calls!Store!ToSet(args) => n = 0
      /\ r = "ok" => n = Len(fs) /\ n = Len(args)
                       /\ DOMAIN saved = {fs[i] : i \in 1..n} \cap CallVariables
      /\ t = Append(s, Calls!Store!Scope("proc", saved))
      /\ {fs[i] : i \in 1..n} \cap CallVariables \subseteq DOMAIN saved
      /\ \A v \in DOMAIN saved : saved[v] = e[v]
  BY <1>1, <1>3, <1>5 DEF fs, saved
<1> HIDE DEF fs, saved
<1>10. Calls!Store!Call(p, args, n, e, s, BoundTo(fs, args, n, e), t, r)
  BY <1>7, <1>8, <1>9, Zenon
<1> QED
  BY <1>10 DEF fs

-----------------------------------------------------------------------------
(* The entries LOCAL and the parameters push. *)

Names3 == CallVariables \cup Texts \cup Tables
TopSaved(st) == Last(AllScopes(st)).saved

\* An entry for a local variable changes nothing but what the topmost scope has
\* saved.
LEMMA LocalEntry ==
  ASSUME NEW st \in Stacks, NEW f \in CallEntry, Calls!IsLocal(f)
  PROVE  LET su == Append(st, f)
         IN  /\ su \in Stacks
             /\ Calls!BaseOf(su) = Calls!BaseOf(st)
             /\ KindOf(su, Calls!BaseOf(st)) = KindOf(st, Calls!BaseOf(st))
             /\ Front(AllScopes(su)) = Front(AllScopes(st))
             /\ Last(AllScopes(su)).kind = Last(AllScopes(st)).kind
             /\ TopSaved(su) =
                  IF f.kind = "text" THEN TopSaved(st)
                  ELSE [w \in DOMAIN TopSaved(st) \cup {f.var} |->
                         IF w \in DOMAIN TopSaved(st) THEN TopSaved(st)[w] ELSE f.val]
<1> DEFINE su == Append(st, f)
           b == Calls!BaseOf(st)
<1>1. /\ su \in Stacks /\ Len(st) \in Nat
      /\ \A i \in 1..Len(st) : su[i] = st[i]
  BY AppendType DEF Stacks
<1>2. Calls!BaseOf(su) = b
  BY BaseAppend
<1>3. b \in 0..Len(st)
  BY BaseFacts
<1>4. KindOf(su, b) = KindOf(st, b)
  <2> HIDE DEF b, su
  <2> QED
    BY <1>1, <1>3 DEF KindOf
<1>5. AllScopes(su) = Calls!WithEntry(AllScopes(st), f)
  BY ScopesAppend
<1>6. PICK s \in ScopeStacks : s = AllScopes(st)
  BY ScopesOfStack
<1>7. f.kind \in {"integer", "text"}
  BY EntryKinds
<1>8. /\ f.kind = "text" => Calls!WithEntry(s, f) = s
      /\ f.kind = "integer" =>
           /\ Front(Calls!WithEntry(s, f)) = Front(s)
           /\ Last(Calls!WithEntry(s, f)).kind = Last(s).kind
           /\ Last(Calls!WithEntry(s, f)).saved =
                [w \in DOMAIN Last(s).saved \cup {f.var} |->
                  IF w \in DOMAIN Last(s).saved THEN Last(s).saved[w] ELSE f.val]
  BY WithEntryType
<1> HIDE DEF su
<1>9. CASE f.kind = "text"
  BY <1>1, <1>2, <1>4, <1>5, <1>6, <1>8, <1>9 DEF su, TopSaved
<1>10. CASE f.kind = "integer"
  BY <1>1, <1>2, <1>4, <1>5, <1>6, <1>8, <1>10 DEF su, TopSaved
<1> QED
  BY <1>7, <1>9, <1>10

\* What the topmost scope has saved, and what opened it.
LEMMA TopFacts ==
  ASSUME NEW st \in Stacks
  PROVE  /\ AllScopes(st) \in ScopeStacks
         /\ TopSaved(st) \in SavedValues
         /\ DOMAIN TopSaved(st) \subseteq CallVariables
         /\ \A v \in DOMAIN TopSaved(st) : TopSaved(st)[v] \in CallValues
         /\ Last(AllScopes(st)) = Calls!Scope(KindOf(st, Calls!BaseOf(st)), TopSaved(st))
<1>1. PICK s \in ScopeStacks : s = AllScopes(st)
  BY ScopesOfStack
<1>2. s \in Seq(ScopeRecord) /\ s # <<>>
  BY DEF ScopeStacks
<1>3. Last(s) \in ScopeRecord
  BY <1>2, FrontFacts
<1>4. Last(s) = [kind |-> Last(s).kind, saved |-> Last(s).saved] /\ Last(s).saved \in SavedValues
  BY <1>3 DEF ScopeRecord
<1>5. Last(s).kind = KindOf(st, Calls!BaseOf(st))
  <2>1. Calls!BaseOf(st) \in 0..Len(st) /\ Len(st) \in Nat
    BY BaseFacts DEF Stacks
  <2>2. Len(st) \in Calls!BaseOf(st)..Len(st)
    BY <2>1
  <2> QED
    BY <1>1, <2>2, ScopeOfFrame DEF AllScopes
<1>6. PICK D \in SUBSET CallVariables : Last(s).saved \in [D -> CallValues]
  BY <1>4 DEF SavedValues
<1> QED
  BY <1>1, <1>4, <1>5, <1>6 DEF TopSaved, Calls!Scope

\* LocalProcessVariable saves the value a variable has, unless the scope has
\* saved it already.
LEMMA PushFacts ==
  ASSUME env \in Environments, stack \in Stacks,
         NEW v \in Names3, NEW su \in Calls!Pushes(v)
  PROVE  /\ su \in Stacks
         /\ Calls!BaseOf(su) = Calls!BaseOf(stack)
         /\ KindOf(su, Calls!BaseOf(stack)) = KindOf(stack, Calls!BaseOf(stack))
         /\ Front(AllScopes(su)) = Front(AllScopes(stack))
         /\ v \in CallVariables =>
              TopSaved(su) = [w \in DOMAIN TopSaved(stack) \cup {v} |->
                IF w \in DOMAIN TopSaved(stack) THEN TopSaved(stack)[w] ELSE env[v]]
         /\ v \notin CallVariables => v \in Texts /\ TopSaved(su) = TopSaved(stack)
<1>1. CASE v \in CallVariables
  <2>1. su = Append(stack, Calls!Saved(v))
    BY <1>1 DEF Calls!Pushes
  <2>2. PICK f \in CallEntry : f = Calls!Saved(v)
    BY <1>1 DEF CallEntry, Calls!Saved, Environments
  <2>3. f.kind = "integer" /\ f.var = v /\ f.val = env[v] /\ Calls!IsLocal(f)
    BY <2>2 DEF Calls!Saved, Calls!IsLocal
  <2>4. /\ Append(stack, f) \in Stacks
        /\ Calls!BaseOf(Append(stack, f)) = Calls!BaseOf(stack)
        /\ KindOf(Append(stack, f), Calls!BaseOf(stack)) = KindOf(stack, Calls!BaseOf(stack))
        /\ Front(AllScopes(Append(stack, f))) = Front(AllScopes(stack))
        /\ TopSaved(Append(stack, f)) =
             IF f.kind = "text" THEN TopSaved(stack)
             ELSE [w \in DOMAIN TopSaved(stack) \cup {f.var} |->
                    IF w \in DOMAIN TopSaved(stack) THEN TopSaved(stack)[w] ELSE f.val]
    BY <2>3, LocalEntry
  <2>5. su = Append(stack, f)
    BY <2>1, <2>2
  <2> HIDE <2>1, <2>2
  <2> QED
    BY <1>1, <2>3, <2>4, <2>5
<1>2. CASE v \notin CallVariables
  <2>1. v \in Texts /\ (su = stack \/ su = Append(stack, Calls!SavedText))
    BY <1>2 DEF Calls!Pushes
  <2>2. PICK f \in CallEntry : f = Calls!SavedText
    BY DEF CallEntry
  <2>3. f.kind = "text" /\ Calls!IsLocal(f)
    BY <2>2 DEF Calls!SavedText, Calls!IsLocal
  <2>4. CASE su = stack
    BY <1>2, <2>1, <2>4
  <2>5. CASE su = Append(stack, f)
    BY <1>2, <2>1, <2>3, <2>5, LocalEntry
  <2> QED
    BY <2>1, <2>2, <2>4, <2>5
<1> QED
  BY <1>1, <1>2

\* What copying back would give does not change when a variable is saved and
\* then assigned.
LEMMA RestoredKept ==
  ASSUME env \in Environments, stack \in Stacks,
         NEW v \in Names3, NEW su \in Calls!Pushes(v), NEW e \in Environments,
         \A w \in CallVariables : w # v => e[w] = env[w]
  PROVE  SavedOver(e, TopSaved(su)) = SavedOver(env, TopSaved(stack))
<1> DEFINE g == TopSaved(stack)
           h == TopSaved(su)
<1>1. /\ v \in CallVariables =>
           h = [w \in DOMAIN g \cup {v} |-> IF w \in DOMAIN g THEN g[w] ELSE env[v]]
      /\ v \notin CallVariables => h = g
  BY PushFacts
<1> HIDE DEF g, h
<1>2. \A w \in CallVariables : (IF w \in DOMAIN h THEN h[w] ELSE e[w])
                                 = IF w \in DOMAIN g THEN g[w] ELSE env[w]
  BY <1>1
<1>3. SavedOver(e, h) = SavedOver(env, g)
  BY <1>2 DEF SavedOver
<1> QED
  BY <1>3 DEF g, h

LEMMA RestoredNow ==
  env \in Environments /\ stack \in Stacks =>
    Calls!Restored = SavedOver(env, TopSaved(stack)) /\ Calls!Restored \in Environments
<1> SUFFICES ASSUME env \in Environments, stack \in Stacks
             PROVE  /\ Calls!Restored = SavedOver(env, TopSaved(stack))
                    /\ Calls!Restored \in Environments
  OBVIOUS
<1>1. PICK e \in Environments, st \in Stacks : e = env /\ st = stack
  OBVIOUS
<1>2. Calls!PutBack(e, st)[Calls!BaseOf(st)] = SavedOver(e, Last(AllScopes(st)).saved)
  BY RestoredIsSaved
<1>3. Calls!PutBack(e, st) \in [0..Len(st) -> Environments] /\ Calls!BaseOf(st) \in 0..Len(st)
  BY PutBackFacts, BaseFacts
<1>4. Calls!PutBack(e, st)[Calls!BaseOf(st)] \in Environments
  BY <1>3
<1> QED
  BY <1>1, <1>2, <1>4 DEF Calls!Restored, Calls!Base, TopSaved

-----------------------------------------------------------------------------
(* The invariant of calls: while parameters are set up the first n of them   *)
(* have their values and their old values are in the topmost scope; names    *)
(* and arguments behind them are still to come.                              *)

CallTyped ==
  /\ env \in Environments /\ stack \in Stacks
  /\ callPc \in {"idle", "bind"}

Binds(p, args, n) ==
  /\ n < Len(args) /\ n < Len(Formals[p]) /\ Bad \notin Calls!ToSet(args)
  /\ formals \in Seq(Names3) /\ Len(formals) = Len(Formals[p]) - n
  /\ \A i \in 1..Len(formals) : formals[i] = Formals[p][n + i]
  /\ buffer \in Seq(CallValues \cup {Text}) /\ Len(buffer) = Len(args) - n
  /\ \A i \in 1..Len(buffer) : buffer[i] = ArgValue(Calls!Restored, args[n + i])
  /\ env = BoundTo(Formals[p], args, n, Calls!Restored)
  /\ DOMAIN TopSaved(stack) = Bound(Formals[p], n)

CallInProgress ==
  callPc = "bind" =>
    /\ Calls!BaseOf(stack) # 0 /\ stack[Calls!BaseOf(stack)] = Calls!ProcFrame
    /\ \E p \in Procedures, args \in Arguments, n \in Nat : Binds(p, args, n)

CallsInv == CallTyped /\ CallInProgress

CallsBar == <<Calls!envBar, Calls!scopesBar, callResult>>
CallStep ==
  \/ Calls!Store!Step(Calls!envBar, Calls!scopesBar, Calls!envBar', Calls!scopesBar', callResult')
  \/ CallsBar' = CallsBar

\* What a program and its lines can be.
LEMMA CallConstants ==
  /\ \A p \in Procedures : Formals[p] \in Seq(Names3) /\ Len(Formals[p]) \in Nat
  /\ \A args \in Arguments : /\ args \in Seq(CallVariables \cup DOMAIN Constant \cup {Bad})
                           /\ Len(args) \in Nat
  /\ \A a \in DOMAIN Constant : Constant[a] \in CallValues \cup {Text}
  /\ CallZero \in CallValues /\ Text \notin CallValues
  /\ CallVariables \cap Texts = {}
<1>1. Calls!LocalsAssumption
  BY MCStoreAssumption
<1>2. \A p \in Procedures : Formals[p] \in Seq(Names3)
  BY <1>1 DEF Calls!LocalsAssumption, Names3
<1>3. \A args \in Arguments : args \in Seq(CallVariables \cup DOMAIN Constant \cup {Bad})
  BY <1>1 DEF Calls!LocalsAssumption
<1> QED
  BY <1>1, <1>2, <1>3 DEF Calls!LocalsAssumption

LEMMA IdleBar ==
  callPc = "idle" => Calls!envBar = env /\ Calls!scopesBar = AllScopes(stack)
BY DEF Calls!envBar, Calls!scopesBar, AllScopes

LEMMA BindBar ==
  callPc = "bind" => Calls!envBar = Calls!Restored /\ Calls!scopesBar = Front(AllScopes(stack))
BY DEF Calls!envBar, Calls!scopesBar, AllScopes, Calls!Front, Front

LEMMA CallsInitially ==
  ASSUME Calls!LocalsAssumption, Calls!Init
  PROVE  CallsInv /\ Calls!Store!Init
<1>1. env \in Environments
  BY DEF Calls!LocalsAssumption, Calls!Init, Calls!Zeros, Environments
<1>2. stack \in Stacks
  BY EmptyType DEF Calls!Init, Stacks
<1>3. Calls!scopesBar = Calls!Store!Empty
  BY IdleBar, ScopesOfEmpty
  DEF Calls!Init, Calls!Store!Empty, Calls!Store!Scope, Calls!Scope, Calls!Store!Nothing, Calls!Nothing
<1> QED
  BY <1>1, <1>2, <1>3, IdleBar
  DEF CallsInv, CallTyped, CallInProgress, Calls!Init, Calls!Store!Init, Calls!Store!Zeros, Calls!Zeros

LEMMA CallsAreTyped ==
  ASSUME CallsInv PROVE Calls!TypeOK
<1>1. env \in [CallVariables -> CallValues]
  BY DEF CallsInv, CallTyped, Environments
<1>2. \A i \in DOMAIN stack : stack[i].kind = "integer" =>
        stack[i].var \in CallVariables /\ stack[i].val \in CallValues
  <2>1. \A i \in 1..Len(stack) : stack[i] \in CallEntry
    BY ElementType DEF CallsInv, CallTyped, Stacks
  <2>2. DOMAIN stack = 1..Len(stack)
    BY DEF CallsInv, CallTyped, Stacks
  <2> QED
    BY <2>1, <2>2, EntryKinds
<1>3. ASSUME callPc = "bind"
      PROVE  buffer # <<>> /\ formals # <<>> /\ Calls!EntryAt(Calls!Base) = Calls!ProcFrame
  <2>1. PICK p \in Procedures, args \in Arguments, n \in Nat : Binds(p, args, n)
    BY <1>3 DEF CallsInv, CallInProgress
  <2>2. Len(buffer) # 0 /\ Len(formals) # 0
    <3>1. /\ n < Len(args) /\ Len(buffer) = Len(args) - n
          /\ n < Len(Formals[p]) /\ Len(formals) = Len(Formals[p]) - n
      BY <2>1 DEF Binds
    <3>2. PICK x \in Nat, y \in Nat : x = Len(args) /\ y = Len(Formals[p])
      BY CallConstants
    <3>3. Len(buffer) = x - n /\ n < x /\ Len(formals) = y - n /\ n < y
      BY <3>1, <3>2
    <3>4. x - n # 0 /\ y - n # 0
      BY <3>3
    <3> QED
      BY <3>3, <3>4, Zenon
  <2> QED
    BY <1>3, <2>2 DEF CallsInv, CallInProgress, Calls!EntryAt, Calls!Base
<1> QED
  BY <1>1, <1>2, <1>3 DEF Calls!TypeOK

\* A statement ends: what is left is an environment and a stack.
LEMMA IdleAfter ==
  ASSUME env' \in Environments, stack' \in Stacks, callPc' = "idle"
  PROVE  CallsInv' /\ Calls!envBar' = env' /\ Calls!scopesBar' = AllScopes(stack')
<1>1. CallsInv'
  BY DEF CallsInv, CallTyped, CallInProgress
<1>2. Calls!envBar' = env' /\ Calls!scopesBar' = AllScopes(stack')
  BY DEF Calls!envBar, Calls!scopesBar, AllScopes
<1> QED
  BY <1>1, <1>2

-----------------------------------------------------------------------------
(* Statements other than calls. *)

LEMMA IdleStep ==
  ASSUME callPc = "idle", env' \in Environments, stack' \in Stacks, callPc' = "idle",
         Calls!Store!Step(env, AllScopes(stack), env', AllScopes(stack'), callResult')
  PROVE  CallsInv' /\ CallStep
<1>1. Calls!envBar = env /\ Calls!scopesBar = AllScopes(stack)
  BY IdleBar
<1>2. CallsInv' /\ Calls!envBar' = env' /\ Calls!scopesBar' = AllScopes(stack')
  BY IdleAfter
<1> QED
  BY <1>1, <1>2, Zenon DEF CallStep

LEMMA LetStep ==
  ASSUME CallsInv, NEW v \in CallVariables, NEW c \in CallValues, Calls!Let(v, c)
  PROVE  CallsInv' /\ CallStep
<1>1. /\ callPc = "idle" /\ callPc' = "idle" /\ callResult' = "ok"
      /\ env' = [env EXCEPT ![v] = c] /\ stack' = stack
  BY DEF Calls!Let, Calls!End
<1>2. env' \in Environments /\ stack' \in Stacks
  BY <1>1 DEF CallsInv, CallTyped, Environments
<1>3. Calls!Store!Assign(env, AllScopes(stack), env', AllScopes(stack'))
  BY <1>1 DEF Calls!Store!Assign
<1>4. Calls!Store!Step(env, AllScopes(stack), env', AllScopes(stack'), callResult')
  BY <1>1, <1>3, Zenon DEF Calls!Store!Step
<1> QED
  BY <1>1, <1>2, <1>4, IdleStep

\* A variable made local is saved once in a scope.
LEMMA LocalStep ==
  ASSUME CallsInv, NEW v \in CallVariables, Calls!Local(v)
  PROVE  CallsInv' /\ CallStep
<1>1. /\ callPc = "idle" /\ callPc' = "idle" /\ callResult' = "ok"
      /\ env' = env /\ stack' \in Calls!Pushes(v)
  BY DEF Calls!Local, Calls!End
<1>2. env \in Environments /\ stack \in Stacks /\ v \in Names3
  BY DEF CallsInv, CallTyped, Names3
<1>3. stack' = Append(stack, Calls!Saved(v))
  BY <1>1 DEF Calls!Pushes
<1>4. PICK f \in CallEntry : f = Calls!Saved(v)
  BY <1>2 DEF CallEntry, Calls!Saved, Environments
<1>5. stack' \in Stacks
  BY <1>2, <1>3, <1>4, AppendType DEF Stacks
<1>6. AllScopes(stack') = Calls!WithEntry(AllScopes(stack), Calls!Saved(v))
  BY <1>2, <1>3, <1>4, ScopesAppend
<1>7. AllScopes(stack') =
        [AllScopes(stack) EXCEPT ![Len(AllScopes(stack))].saved =
          Calls!Store!Override([x \in {v} |-> env[v]], @)]
  <2> DEFINE s == AllScopes(stack)
  <2>1. Calls!WithEntry(s, Calls!Saved(v)) =
          [s EXCEPT ![Len(s)].saved =
            [w \in DOMAIN @ \cup {v} |-> IF w \in DOMAIN @ THEN @[w] ELSE env[v]]]
    BY DEF Calls!WithEntry, Calls!Saved, Calls!IsLocal
  <2>2. \A g : Calls!Store!Override([x \in {v} |-> env[v]], g) =
                 [w \in DOMAIN g \cup {v} |-> IF w \in DOMAIN g THEN g[w] ELSE env[v]]
    BY DEF Calls!Store!Override
  <2> HIDE DEF s
  <2>3. [s EXCEPT ![Len(s)].saved =
            [w \in DOMAIN @ \cup {v} |-> IF w \in DOMAIN @ THEN @[w] ELSE env[v]]]
        = [s EXCEPT ![Len(s)].saved = Calls!Store!Override([x \in {v} |-> env[v]], @)]
    <3>1. Calls!Store!Override([x \in {v} |-> env[v]], s[Len(s)].saved) =
            [w \in DOMAIN s[Len(s)].saved \cup {v} |->
              IF w \in DOMAIN s[Len(s)].saved THEN s[Len(s)].saved[w] ELSE env[v]]
      BY <2>2
    <3> QED
      BY <3>1
  <2>4. Calls!WithEntry(s, Calls!Saved(v))
          = [s EXCEPT ![Len(s)].saved = Calls!Store!Override([x \in {v} |-> env[v]], @)]
    BY <2>1, <2>3
  <2> QED
    BY <1>6, <2>4 DEF s
<1>8. Calls!Store!Local(env, AllScopes(stack), env', AllScopes(stack'))
  BY <1>1, <1>7, Zenon DEF Calls!Store!Local
<1>9. Calls!Store!Step(env, AllScopes(stack), env', AllScopes(stack'), callResult')
  BY <1>1, <1>8, Zenon DEF Calls!Store!Step
<1> QED
  BY <1>1, <1>2, <1>5, <1>9, IdleStep

LEMMA LocalFailsStep ==
  ASSUME CallsInv, Calls!LocalFails
  PROVE  CallsInv' /\ CallStep
<1>1. /\ callPc = "idle" /\ callPc' = "idle" /\ callResult' = "error"
      /\ env' = env /\ stack' = stack
  BY DEF Calls!LocalFails, Calls!End
<1>2. env' \in Environments /\ stack' \in Stacks
  BY <1>1 DEF CallsInv, CallTyped
<1>3. Calls!Store!Step(env, AllScopes(stack), env', AllScopes(stack'), callResult')
  BY <1>1, Zenon DEF Calls!Store!Step
<1> QED
  BY <1>1, <1>2, <1>3, IdleStep

\* A frame opens a scope with nothing in it.
LEMMA FrameOpens ==
  ASSUME NEW st \in Stacks
  PROVE  /\ Append(st, Calls!Frame) \in Stacks
         /\ AllScopes(Append(st, Calls!Frame)) =
              Append(AllScopes(st), Calls!Store!Scope("other", Calls!Store!Nothing))
<1>1. PICK f \in CallEntry : f = Calls!Frame
  BY DEF CallEntry
<1>2. ~Calls!IsLocal(f) /\ f.kind = "other"
  BY <1>1 DEF Calls!Frame, Calls!IsLocal
<1>3. Append(st, f) \in Stacks /\ AllScopes(Append(st, f)) = Calls!WithEntry(AllScopes(st), f)
  BY AppendType, ScopesAppend DEF Stacks
<1>4. PICK s \in ScopeStacks : s = AllScopes(st)
  BY ScopesOfStack
<1>5. Calls!WithEntry(s, f) = Append(s, Calls!Scope(f.kind, Calls!Nothing))
  BY <1>2, WithEntryType
<1> QED
  BY <1>1, <1>2, <1>3, <1>4, <1>5
  DEF Calls!Scope, Calls!Store!Scope, Calls!Nothing, Calls!Store!Nothing

LEMMA OpenStep ==
  ASSUME CallsInv, Calls!Open
  PROVE  CallsInv' /\ CallStep
<1>1. /\ callPc = "idle" /\ callPc' = "idle" /\ callResult' = "ok"
      /\ env' = env /\ stack' = Append(stack, Calls!Frame)
  BY DEF Calls!Open, Calls!End
<1>2. env' \in Environments /\ stack \in Stacks
  BY <1>1 DEF CallsInv, CallTyped
<1>3. /\ stack' \in Stacks
      /\ AllScopes(stack') =
           Append(AllScopes(stack), Calls!Store!Scope("other", Calls!Store!Nothing))
  BY <1>1, <1>2, FrameOpens
<1>4. Calls!Store!Step(env, AllScopes(stack), env', AllScopes(stack'), callResult')
  BY <1>1, <1>3, Zenon DEF Calls!Store!Step, Calls!Store!Open
<1> QED
  BY <1>1, <1>2, <1>3, <1>4, IdleStep

LEMMA CloseStep ==
  ASSUME CallsInv, Calls!Close
  PROVE  CallsInv' /\ CallStep
<1>1. env \in Environments /\ stack \in Stacks
  BY DEF CallsInv, CallTyped
<1>2. callPc = "idle" /\ env' = env
  BY DEF Calls!Close
<1>3. CASE Calls!EntryAt(Len(stack)) = Calls!Frame /\ stack' = Calls!Front(stack) /\ Calls!End("ok")
  <2>1. Len(stack) # 0
    BY <1>3 DEF Calls!EntryAt, Calls!Bottom, Calls!Frame
  <2>2. stack # <<>> /\ stack \in Seq(CallEntry)
    BY <1>1, <2>1 DEF Stacks
  <2>3. /\ Front(stack) \in Stacks /\ Last(stack) = stack[Len(stack)]
        /\ stack = Append(Front(stack), Last(stack))
    BY <2>2, FrontFacts DEF Stacks
  <2>4. stack' \in Stacks /\ stack = Append(stack', Calls!Frame)
    BY <1>3, <2>1, <2>3 DEF Calls!EntryAt, Calls!Front, Front
  <2>5. callPc' = "idle" /\ callResult' = "ok"
    BY <1>3 DEF Calls!End
  <2>6. PICK st \in Stacks : st = stack'
    BY <2>4
  <2>7. AllScopes(Append(st, Calls!Frame)) =
          Append(AllScopes(st), Calls!Store!Scope("other", Calls!Store!Nothing))
    BY FrameOpens
  <2>8. AllScopes(stack) =
          Append(AllScopes(stack'), Calls!Store!Scope("other", Calls!Store!Nothing))
    BY <2>4, <2>6, <2>7
  <2>9. Calls!Store!Step(env, AllScopes(stack), env', AllScopes(stack'), callResult')
    BY <1>2, <2>5, <2>8, Zenon DEF Calls!Store!Step, Calls!Store!Close
  <2> QED
    BY <1>1, <1>2, <2>4, <2>5, <2>9, IdleStep
<1>4. CASE stack' = stack /\ Calls!End("error")
  <2>1. callPc' = "idle" /\ callResult' = "error"
    BY <1>4 DEF Calls!End
  <2>2. Calls!Store!Step(env, AllScopes(stack), env', AllScopes(stack'), callResult')
    BY <1>2, <1>4, <2>1, Zenon DEF Calls!Store!Step
  <2> QED
    BY <1>1, <1>2, <1>4, <2>1, <2>2, IdleStep
<1> QED
  BY <1>3, <1>4 DEF Calls!Close

LEMMA ClearStep ==
  ASSUME CallsInv, Calls!Clear
  PROVE  CallsInv' /\ CallStep
<1>1. /\ callPc = "idle" /\ callPc' = "idle" /\ callResult' = "ok"
      /\ env' = Calls!Cleared(env) /\ stack' = <<>>
  BY DEF Calls!Clear, Calls!End
<1>2. env' \in Environments /\ stack' \in Stacks
  BY <1>1, EmptyType, CallConstants
  DEF CallsInv, CallTyped, Calls!Cleared, Environments, Stacks
<1>3. env' = Calls!Store!Cleared(env)
  BY <1>1 DEF Calls!Cleared, Calls!Store!Cleared
<1>4. AllScopes(stack') = Calls!Store!Empty
  BY <1>1, ScopesOfEmpty
  DEF Calls!Store!Empty, Calls!Store!Scope, Calls!Scope, Calls!Store!Nothing, Calls!Nothing
<1>5. Calls!Store!Step(env, AllScopes(stack), env', AllScopes(stack'), callResult')
  BY <1>1, <1>3, <1>4, Zenon DEF Calls!Store!Step
<1> QED
  BY <1>1, <1>2, <1>5, IdleStep

-----------------------------------------------------------------------------
(* ENDPROC *)

\* The scopes below the topmost frame, and up to it.
LEMMA BelowFrame ==
  ASSUME NEW st \in Stacks
  PROVE  LET b == Calls!BaseOf(st)
         IN  /\ SubSeq(st, 1, b) \in Stacks
             /\ AllScopes(SubSeq(st, 1, b)) =
                  Append(Front(AllScopes(st)), Calls!Scope(KindOf(st, b), Calls!Nothing))
             /\ b # 0 => /\ SubSeq(st, 1, b - 1) \in Stacks
                         /\ AllScopes(SubSeq(st, 1, b - 1)) = Front(AllScopes(st))
<1> DEFINE b == Calls!BaseOf(st)
           u == Calls!Scopes(st)
<1>1. b \in 0..Len(st) /\ Len(st) \in Nat /\ st \in Seq(CallEntry)
  BY BaseFacts DEF Stacks
<1>2. \A m \in 0..Len(st) : SubSeq(st, 1, m) \in Stacks /\ AllScopes(SubSeq(st, 1, m)) = u[m]
  <2> TAKE m \in 0..Len(st)
  <2> DEFINE t == SubSeq(st, 1, m)
  <2>1. t \in Stacks /\ Len(t) = m /\ \A i \in 1..m : st[i] = t[i]
    BY <1>1, StartFacts DEF Stacks
  <2> HIDE DEF t
  <2>2. \A i \in 0..m : Calls!Scopes(st)[i] = Calls!Scopes(t)[i]
    BY <1>1, <2>1, ScopesAgree
  <2>3. m \in 0..m
    BY <1>1
  <2>4. AllScopes(t) = u[m]
    BY <2>1, <2>2, <2>3 DEF AllScopes
  <2> QED
    BY <2>1, <2>4 DEF t
<1>3. b \in b..Len(st) /\ Len(st) \in b..Len(st)
  BY <1>1
<1>4. /\ Last(u[b]).kind = KindOf(st, b)
      /\ Front(AllScopes(st)) = Front(u[b])
      /\ Last(u[b]).saved = Calls!Nothing
      /\ b # 0 => Front(u[b]) = u[b - 1]
  BY <1>3, ScopeOfFrame DEF AllScopes
<1>5. u[b] = Append(Front(u[b]), Calls!Scope(KindOf(st, b), Calls!Nothing))
  <2>1. PICK s \in ScopeStacks : s = u[b]
    BY <1>1, ScopesFacts
  <2>2. s \in Seq(ScopeRecord) /\ s # <<>>
    BY DEF ScopeStacks
  <2>3. s = Append(Front(s), Last(s)) /\ Last(s) \in ScopeRecord
    BY <2>2, FrontFacts
  <2>4. Last(s) = [kind |-> Last(s).kind, saved |-> Last(s).saved]
    BY <2>3 DEF ScopeRecord
  <2>5. Last(s) = Calls!Scope(KindOf(st, b), Calls!Nothing)
    BY <1>4, <2>1, <2>4 DEF Calls!Scope
  <2> QED
    BY <2>1, <2>3, <2>5
<1>6. b # 0 => b - 1 \in 0..Len(st)
  BY <1>1
<1> HIDE DEF u, b
<1>7. /\ SubSeq(st, 1, b) \in Stacks
      /\ AllScopes(SubSeq(st, 1, b)) =
           Append(Front(AllScopes(st)), Calls!Scope(KindOf(st, b), Calls!Nothing))
  BY <1>1, <1>2, <1>4, <1>5
<1>8. b # 0 => /\ SubSeq(st, 1, b - 1) \in Stacks
               /\ AllScopes(SubSeq(st, 1, b - 1)) = Front(AllScopes(st))
  BY <1>2, <1>4, <1>6
<1> QED
  BY <1>7, <1>8 DEF b

LEMMA EndProcStep ==
  ASSUME CallsInv, Calls!EndProc
  PROVE  CallsInv' /\ CallStep
<1> DEFINE b == Calls!BaseOf(stack)
           s == AllScopes(stack)
<1>1. env \in Environments /\ stack \in Stacks
  BY DEF CallsInv, CallTyped
<1>2. callPc = "idle" /\ env' = SavedOver(env, TopSaved(stack)) /\ env' \in Environments
  BY <1>1, RestoredNow DEF Calls!EndProc
<1>3. env' = Calls!Store!Override(env, Calls!Store!Last(s).saved)
  <2> DEFINE d == TopSaved(stack)
  <2>1. DOMAIN d \subseteq CallVariables /\ DOMAIN env = CallVariables
    BY <1>1, TopFacts DEF Environments
  <2>2. Calls!Store!Last(s).saved = d
    BY DEF Calls!Store!Last, Last, TopSaved
  <2> HIDE DEF d
  <2>3. Calls!Store!Override(env, d) = SavedOver(env, d)
    <3>1. CallVariables \cup DOMAIN d = CallVariables
      BY <2>1
    <3> QED
      BY <2>1, <3>1 DEF Calls!Store!Override, SavedOver
  <2> QED
    BY <1>2, <2>2, <2>3 DEF d
<1>4. Calls!Store!Last(s).kind = KindOf(stack, b)
  <2>1. Last(s).kind = KindOf(stack, b)
    BY <1>1, TopFacts DEF Calls!Scope
  <2> QED
    BY <2>1 DEF Calls!Store!Last, Last
<1>5. Calls!Store!Front(s) = Front(s)
  BY DEF Calls!Store!Front, Front
<1>6. b \in 0..Len(stack) /\ Len(stack) \in Nat
  BY <1>1, BaseFacts DEF Stacks
<1>7. b # 0 => stack[b] \in CallEntry
  BY <1>1, <1>6, ElementType DEF Stacks
<1>8. /\ SubSeq(stack, 1, b) \in Stacks
      /\ AllScopes(SubSeq(stack, 1, b)) =
           Append(Front(s), Calls!Scope(KindOf(stack, b), Calls!Nothing))
      /\ b # 0 => /\ SubSeq(stack, 1, b - 1) \in Stacks
                  /\ AllScopes(SubSeq(stack, 1, b - 1)) = Front(s)
  BY <1>1, BelowFrame
<1> HIDE DEF b, s
<1>9. CASE /\ Calls!EntryAt(b) = Calls!ProcFrame
           /\ stack' = SubSeq(stack, 1, b - 1) /\ Calls!End("ok")
  <2>1. b # 0 /\ KindOf(stack, b) = "proc"
    BY <1>9 DEF Calls!EntryAt, Calls!Bottom, Calls!ProcFrame, KindOf
  <2>2. stack' \in Stacks /\ AllScopes(stack') = Calls!Store!Front(s)
    BY <1>5, <1>8, <1>9, <2>1
  <2>3. callPc' = "idle" /\ callResult' = "ok"
    BY <1>9 DEF Calls!End
  <2>4. Calls!Store!EndProc(env, s, env', AllScopes(stack'), callResult')
    BY <1>3, <1>4, <2>1, <2>2, <2>3, Zenon DEF Calls!Store!EndProc
  <2>5. Calls!Store!Step(env, AllScopes(stack), env', AllScopes(stack'), callResult')
    BY <2>4, Zenon DEF Calls!Store!Step, s
  <2> QED
    BY <1>1, <1>2, <2>2, <2>3, <2>5, IdleStep
<1>10. CASE /\ Calls!EntryAt(b) # Calls!ProcFrame
            /\ stack' = SubSeq(stack, 1, b) /\ Calls!End("error")
  <2>1. KindOf(stack, b) # "proc"
    <3>1. CASE b = 0
      BY <3>1 DEF KindOf
    <3>2. CASE b # 0
      BY <1>7, <1>10, <3>2, EntryKinds DEF KindOf, Calls!EntryAt
    <3> QED
      BY <3>1, <3>2
  <2>2. /\ stack' \in Stacks
        /\ AllScopes(stack') = Append(Calls!Store!Front(s),
             Calls!Store!Scope(Calls!Store!Last(s).kind, Calls!Store!Nothing))
    BY <1>4, <1>5, <1>8, <1>10
    DEF Calls!Scope, Calls!Store!Scope, Calls!Nothing, Calls!Store!Nothing
  <2>3. callPc' = "idle" /\ callResult' = "error"
    BY <1>10 DEF Calls!End
  <2>4. Calls!Store!EndProc(env, s, env', AllScopes(stack'), callResult')
    BY <1>3, <1>4, <2>1, <2>2, <2>3, Zenon DEF Calls!Store!EndProc
  <2>5. Calls!Store!Step(env, AllScopes(stack), env', AllScopes(stack'), callResult')
    BY <2>4, Zenon DEF Calls!Store!Step, s
  <2> QED
    BY <1>1, <1>2, <2>2, <2>3, <2>5, IdleStep
<1> QED
  BY <1>9, <1>10 DEF Calls!EndProc, Calls!Base, b

-----------------------------------------------------------------------------
(* PROC *)

\* A stack on which the frame of a call lies, with some of its parameters saved.
LEMMA CallHappens ==
  ASSUME NEW p \in Procedures, NEW args \in Arguments, NEW n \in Nat,
         n <= Len(args), n <= Len(Formals[p]),
         NEW e \in Environments, NEW su \in Stacks, NEW s \in ScopeStacks,
         Front(AllScopes(su)) = s, KindOf(su, Calls!BaseOf(su)) = "proc",
         Bad \in Calls!ToSet(args) => n = 0,
         NEW r \in {"ok", "error"},
         r = "ok" => /\ n = Len(Formals[p]) /\ n = Len(args)
                     /\ DOMAIN TopSaved(su) = Bound(Formals[p], n),
         Bound(Formals[p], n) \subseteq DOMAIN TopSaved(su),
         \A v \in DOMAIN TopSaved(su) : TopSaved(su)[v] = e[v]
  PROVE  Calls!Store!Step(e, s, BoundTo(Formals[p], args, n, e), AllScopes(su), r)
<1>1. PICK t \in ScopeStacks : t = AllScopes(su)
  BY ScopesOfStack
<1>2. Last(t).kind = "proc" /\ Last(t).saved = TopSaved(su)
  BY <1>1, TopFacts DEF Calls!Scope
<1>3. args \in Seq(CallVariables \cup DOMAIN Constant \cup {Bad}) /\ Len(args) \in Nat
  BY CallConstants
<1>4. /\ r = "ok" => /\ n = Len(Formals[p]) /\ n = Len(args)
                     /\ DOMAIN Last(t).saved = Bound(Formals[p], n)
      /\ Bound(Formals[p], n) \subseteq DOMAIN Last(t).saved
      /\ \A v \in DOMAIN Last(t).saved : Last(t).saved[v] = e[v]
  BY <1>2
<1>5. Calls!Store!Call(p, args, n, e, s, BoundTo(Formals[p], args, n, e), t, r)
  BY <1>1, <1>2, <1>3, <1>4, CallAsSpecified
<1>6. Len(t) = Len(s) + 1
  <2>1. t \in Seq(ScopeRecord) /\ t # <<>>
    BY DEF ScopeStacks
  <2>2. Len(Front(t)) = Len(t) - 1
    BY <2>1, FrontFacts
  <2> QED
    BY <1>1, <2>1, <2>2
<1>7. Calls!Store!Last(t).kind = "proc"
  BY <1>2 DEF Last, Calls!Store!Last
<1>8. n \in 0..Len(args)
  <2>1. Len(args) \in Nat
    BY CallConstants
  <2> HIDE <1>3
  <2> QED
    BY <2>1
<1> HIDE DEF BoundTo
<1>9. \E q \in Procedures, bs \in Arguments : \E m \in 0..Len(bs) :
        m <= Len(Formals[q]) /\ Calls!Store!Call(q, bs, m, e, s, BoundTo(Formals[p], args, n, e), t, r)
  BY <1>5, <1>8, Zenon
<1>10. Calls!Store!Step(e, s, BoundTo(Formals[p], args, n, e), t, r)
  BY <1>6, <1>7, <1>9, Zenon DEF Calls!Store!Step
<1> QED
  BY <1>1, <1>10

\* The frame of a call opens a scope; nothing is bound yet.
LEMMA ProcFrameOpens ==
  ASSUME NEW st \in Stacks
  PROVE  LET su == Append(st, Calls!ProcFrame)
         IN  /\ su \in Stacks /\ Front(AllScopes(su)) = AllScopes(st)
             /\ Calls!BaseOf(su) # 0 /\ su[Calls!BaseOf(su)] = Calls!ProcFrame
             /\ KindOf(su, Calls!BaseOf(su)) = "proc"
             /\ TopSaved(su) = Calls!Nothing
<1> DEFINE su == Append(st, Calls!ProcFrame)
<1>1. PICK f \in CallEntry : f = Calls!ProcFrame
  BY DEF CallEntry
<1>2. ~Calls!IsLocal(f) /\ f.kind = "proc"
  BY <1>1 DEF Calls!ProcFrame, Calls!IsLocal
<1>3. /\ Append(st, f) \in Stacks /\ Append(st, f)[Len(st) + 1] = f /\ Len(st) \in Nat
      /\ AllScopes(Append(st, f)) = Calls!WithEntry(AllScopes(st), f)
      /\ Calls!BaseOf(Append(st, f)) = Len(st) + 1
  BY <1>2, AppendType, ScopesAppend, BaseAppend DEF Stacks
<1>4. PICK s \in ScopeStacks : s = AllScopes(st)
  BY ScopesOfStack
<1>5. Calls!WithEntry(s, f) = Append(s, Calls!Scope(f.kind, Calls!Nothing))
  BY <1>2, WithEntryType
<1>6. PICK x \in ScopeRecord : x = Calls!Scope("proc", Calls!Nothing)
  BY NothingSaved DEF ScopeRecord, Calls!Scope
<1>7. Front(Append(s, x)) = s /\ Last(Append(s, x)) = x
  BY FrontOfAppend DEF ScopeStacks
<1>8. AllScopes(su) = Append(s, x)
  BY <1>1, <1>2, <1>3, <1>4, <1>5, <1>6
<1>9. TopSaved(su) = Calls!Nothing
  BY <1>6, <1>7, <1>8 DEF TopSaved, Calls!Scope
<1>10. /\ su \in Stacks /\ Calls!BaseOf(su) = Len(st) + 1 /\ su[Len(st) + 1] = Calls!ProcFrame
       /\ Len(st) + 1 # 0
  BY <1>1, <1>3
<1> HIDE DEF su
<1>11. KindOf(su, Calls!BaseOf(su)) = "proc"
  BY <1>1, <1>2, <1>10 DEF KindOf
<1> QED
  BY <1>4, <1>7, <1>8, <1>9, <1>10, <1>11 DEF su

LEMMA NothingBound ==
  ASSUME NEW fs, NEW args, NEW e \in Environments
  PROVE  BoundTo(fs, args, 0, e) = e /\ Bound(fs, 0) = {}
         /\ SavedOver(e, Calls!Nothing) = e /\ DOMAIN Calls!Nothing = {}
<1>1. Bound(fs, 0) = {} /\ DOMAIN Calls!Nothing = {}
  BY DEF Bound, Calls!Nothing
<1>2. e = [v \in CallVariables |-> e[v]]
  BY DEF Environments
<1> QED
  BY <1>1, <1>2 DEF BoundTo, SavedOver

LEMMA EmptyLists ==
  /\ \A p \in Procedures : /\ Len(Formals[p]) \in Nat
                           /\ (Len(Formals[p]) = 0) = (Formals[p] = <<>>)
  /\ \A args \in Arguments : Len(args) \in Nat /\ (Len(args) = 0) = (args = <<>>)
<1>1. \A S : \A s \in Seq(S) : Len(s) \in Nat /\ (Len(s) = 0) = (s = <<>>)
  OBVIOUS
<1> QED
  BY <1>1, CallConstants, Zenon

LEMMA RestoredAfter ==
  ASSUME env' \in Environments, stack' \in Stacks
  PROVE  Calls!Restored' = SavedOver(env', TopSaved(stack'))
<1>1. (env \in Environments /\ stack \in Stacks => Calls!Restored = SavedOver(env, TopSaved(stack)))'
  BY RestoredNow, PTL
<1> QED
  BY <1>1

LEMMA BindAfter ==
  ASSUME callPc' = "bind"
  PROVE  Calls!envBar' = Calls!Restored' /\ Calls!scopesBar' = Front(AllScopes(stack'))
BY DEF Calls!envBar, Calls!scopesBar, AllScopes, Calls!Front, Front

\* A call with nothing to bind, or one of whose arguments is an error, leaves
\* its frame; otherwise the arguments have been evaluated and nothing is bound.
LEMMA ProcStep ==
  ASSUME CallsInv, NEW p \in Procedures, NEW args \in Arguments, Calls!Proc(p, args)
  PROVE  CallsInv' /\ CallStep
<1> DEFINE fs == Formals[p]
           su == Append(stack, Calls!ProcFrame)
<1>1. env \in Environments /\ stack \in Stacks
  BY DEF CallsInv, CallTyped
<1>2. /\ callPc = "idle" /\ (args = <<>>) = (fs = <<>>) /\ stack' = su /\ env' = env
  BY DEF Calls!Proc
<1>3. /\ su \in Stacks /\ Front(AllScopes(su)) = AllScopes(stack)
      /\ Calls!BaseOf(su) # 0 /\ su[Calls!BaseOf(su)] = Calls!ProcFrame
      /\ KindOf(su, Calls!BaseOf(su)) = "proc"
      /\ TopSaved(su) = Calls!Nothing
  BY <1>1, ProcFrameOpens
<1>4. /\ BoundTo(fs, args, 0, env) = env /\ Bound(fs, 0) = {}
      /\ SavedOver(env, Calls!Nothing) = env /\ DOMAIN Calls!Nothing = {}
  BY <1>1, NothingBound
<1>5. /\ args \in Seq(CallVariables \cup DOMAIN Constant \cup {Bad}) /\ Len(args) \in Nat
      /\ fs \in Seq(Names3) /\ Len(fs) \in Nat
  BY CallConstants
<1> HIDE DEF su
<1>6. ASSUME NEW r \in {"ok", "error"}, r = "ok" => args = <<>>, Calls!End(r)
      PROVE  CallsInv' /\ CallStep
  <2>1. callPc' = "idle" /\ callResult' = r
    BY <1>6 DEF Calls!End
  <2>2. AllScopes(stack) \in ScopeStacks
    BY <1>1, ScopesOfStack
  <2>3. 0 <= Len(args) /\ 0 <= Len(fs) /\ (r = "ok" => 0 = Len(fs) /\ 0 = Len(args))
    BY <1>2, <1>6, EmptyLists
  <2>4. /\ r = "ok" => /\ 0 = Len(fs) /\ 0 = Len(args)
                       /\ DOMAIN TopSaved(su) = Bound(fs, 0)
        /\ Bound(fs, 0) \subseteq DOMAIN TopSaved(su)
        /\ \A v \in DOMAIN TopSaved(su) : TopSaved(su)[v] = env[v]
    BY <1>3, <1>4, <2>3
  <2>5. Calls!Store!Step(env, AllScopes(stack), BoundTo(fs, args, 0, env), AllScopes(su), r)
    <3>1. PICK s \in ScopeStacks : s = AllScopes(stack)
      BY <2>2
    <3>2. PICK e \in Environments : e = env
      BY <1>1
    <3>3. 0 \in Nat
      OBVIOUS
    <3> HIDE DEF Calls!Store!Step
    <3>4. Calls!Store!Step(e, s, BoundTo(fs, args, 0, e), AllScopes(su), r)
      BY <1>3, <1>6, <2>3, <2>4, <3>1, <3>2, <3>3, CallHappens
    <3> QED
      BY <3>1, <3>2, <3>4
  <2>6. Calls!Store!Step(env, AllScopes(stack), env', AllScopes(stack'), callResult')
    BY <1>2, <1>4, <2>1, <2>5
  <2> QED
    BY <1>1, <1>2, <1>3, <2>1, <2>6, IdleStep
<1>7. ASSUME args # <<>>, Bad \notin Calls!ToSet(args),
             buffer' = [i \in 1..Len(args) |-> Calls!Value(args[i])],
             formals' = fs, callPc' = "bind", callResult' = callResult
      PROVE  CallsInv' /\ CallStep
  <2>1. Calls!Restored' = env
    <3>1. env' \in Environments /\ stack' \in Stacks
      BY <1>1, <1>2, <1>3
    <3>2. Calls!Restored' = SavedOver(env', TopSaved(stack'))
      BY <3>1, RestoredAfter
    <3> QED
      BY <1>2, <1>3, <1>4, <3>2
  <2>2. Len(fs) > 0 /\ Len(args) > 0
    BY <1>2, <1>7, EmptyLists
  <2>3. \A i \in 1..Len(args) : Calls!Value(args[i]) = ArgValue(env, args[i])
    BY DEF Calls!Value, ArgValue
  <2>4. \A i \in 1..Len(args) : Calls!Value(args[i]) \in CallValues \cup {Text}
    <3> TAKE i \in 1..Len(args)
    <3>1. args[i] \in CallVariables \cup DOMAIN Constant /\ args[i] # Bad
      <4>1. args[i] \in CallVariables \cup DOMAIN Constant \cup {Bad}
        BY <1>5, ElementType
      <4>2. args[i] \in Calls!ToSet(args)
        BY <1>5 DEF Calls!ToSet
      <4> QED
        BY <1>7, <4>1, <4>2
    <3>2. CASE args[i] \in CallVariables
      BY <1>1, <3>2 DEF Calls!Value, Environments
    <3>3. CASE args[i] \notin CallVariables
      BY <3>1, <3>3, CallConstants DEF Calls!Value
    <3> QED
      BY <3>2, <3>3
  <2>5. buffer' \in Seq(CallValues \cup {Text}) /\ Len(buffer') = Len(args)
    BY <1>5, <1>7, <2>4
  <2>6. Binds(p, args, 0)'
    <3>1. 0 < Len(args) /\ 0 < Len(fs) /\ Len(args) - 0 = Len(args) /\ Len(fs) - 0 = Len(fs)
      BY <1>5, <2>2
    <3>2. \A i \in 1..Len(fs) : formals'[i] = fs[0 + i]
      BY <1>5, <1>7
    <3>3. \A i \in 1..Len(args) : buffer'[i] = ArgValue(env, args[0 + i])
      BY <1>5, <1>7, <2>3
    <3>4. env' = BoundTo(fs, args, 0, env) /\ DOMAIN TopSaved(stack') = Bound(fs, 0)
      BY <1>2, <1>3, <1>4
    <3>5. /\ 0 < Len(args) /\ 0 < Len(fs) /\ Bad \notin Calls!ToSet(args)
          /\ formals' \in Seq(Names3) /\ Len(formals') = Len(fs) - 0
          /\ \A i \in 1..Len(formals') : formals'[i] = fs[0 + i]
          /\ buffer' \in Seq(CallValues \cup {Text}) /\ Len(buffer') = Len(args) - 0
          /\ \A i \in 1..Len(buffer') : buffer'[i] = ArgValue(Calls!Restored', args[0 + i])
          /\ env' = BoundTo(fs, args, 0, Calls!Restored')
          /\ DOMAIN TopSaved(stack') = Bound(fs, 0)
      BY <1>5, <1>7, <2>1, <2>5, <3>1, <3>2, <3>3, <3>4
    <3> QED
      BY <3>5, Zenon DEF Binds
  <2>7. CallsInv'
    BY <1>1, <1>2, <1>3, <1>7, <2>6 DEF CallsInv, CallTyped, CallInProgress
  <2>8. Calls!envBar = env /\ Calls!scopesBar = AllScopes(stack)
    BY <1>2, IdleBar
  <2>9. Calls!envBar' = Calls!Restored' /\ Calls!scopesBar' = Front(AllScopes(stack'))
    BY <1>7, BindAfter
  <2>10. CallsBar' = CallsBar
    BY <1>2, <1>3, <1>7, <2>1, <2>8, <2>9 DEF CallsBar
  <2> QED
    BY <2>7, <2>10 DEF CallStep
<1>8. \/ args = <<>> /\ Calls!End("ok")
      \/ Bad \in Calls!ToSet(args) /\ Calls!End("error")
      \/ /\ args # <<>> /\ Bad \notin Calls!ToSet(args)
         /\ buffer' = [i \in 1..Len(args) |-> Calls!Value(args[i])]
         /\ formals' = fs /\ callPc' = "bind" /\ callResult' = callResult
  BY DEF Calls!Proc
<1> QED
  BY <1>6, <1>7, <1>8

-----------------------------------------------------------------------------
(* Parameters being set up. *)

\* While n parameters are bound: what the specification knows of it.
LEMMA BindingFacts ==
  ASSUME CallsInv, callPc = "bind",
         NEW p \in Procedures, NEW args \in Arguments, NEW n \in Nat, Binds(p, args, n)
  PROVE  /\ Calls!Restored \in Environments
         /\ Calls!Restored = SavedOver(env, TopSaved(stack))
         /\ KindOf(stack, Calls!BaseOf(stack)) = "proc"
         /\ Front(AllScopes(stack)) \in ScopeStacks
         /\ \A v \in DOMAIN TopSaved(stack) : TopSaved(stack)[v] = Calls!Restored[v]
         /\ \A v \in CallVariables : v \notin DOMAIN TopSaved(stack) => env[v] = Calls!Restored[v]
         /\ DOMAIN TopSaved(stack) \subseteq CallVariables
<1>1. env \in Environments /\ stack \in Stacks
  BY DEF CallsInv, CallTyped
<1>2. Calls!Restored = SavedOver(env, TopSaved(stack)) /\ Calls!Restored \in Environments
  BY <1>1, RestoredNow
<1>3. Calls!BaseOf(stack) # 0 /\ stack[Calls!BaseOf(stack)] = Calls!ProcFrame
  BY DEF CallsInv, CallInProgress
<1>4. KindOf(stack, Calls!BaseOf(stack)) = "proc"
  BY <1>3 DEF KindOf, Calls!ProcFrame
<1>5. Front(AllScopes(stack)) \in ScopeStacks
  <2>1. PICK st \in Stacks : st = stack
    BY <1>1
  <2> DEFINE b == Calls!BaseOf(st)
  <2>2. /\ b # 0 => /\ SubSeq(st, 1, b - 1) \in Stacks
                    /\ AllScopes(SubSeq(st, 1, b - 1)) = Front(AllScopes(st))
    BY BelowFrame
  <2>3. b # 0
    BY <1>3, <2>1
  <2> HIDE DEF b
  <2> QED
    BY <2>1, <2>2, <2>3, ScopesOfStack
<1>6. DOMAIN TopSaved(stack) \subseteq CallVariables
  BY <1>1, TopFacts
<1> DEFINE d == TopSaved(stack)
<1> HIDE DEF d
<1>7. /\ \A v \in DOMAIN d : d[v] = Calls!Restored[v]
      /\ \A v \in CallVariables : v \notin DOMAIN d => env[v] = Calls!Restored[v]
  BY <1>2, <1>6 DEF SavedOver, d
<1> QED
  BY <1>2, <1>4, <1>5, <1>6, <1>7 DEF d

\* A parameter pushed: the variables saved still have the values of the call,
\* and only the parameter's own is new.
LEMMA PushedFacts ==
  ASSUME CallsInv, callPc = "bind",
         NEW p \in Procedures, NEW args \in Arguments, NEW n \in Nat, Binds(p, args, n),
         NEW v \in Names3, NEW su \in Calls!Pushes(v)
  PROVE  /\ su \in Stacks
         /\ Calls!BaseOf(su) = Calls!BaseOf(stack)
         /\ Calls!BaseOf(su) # 0 /\ su[Calls!BaseOf(su)] = Calls!ProcFrame
         /\ KindOf(su, Calls!BaseOf(su)) = "proc"
         /\ Front(AllScopes(su)) = Front(AllScopes(stack))
         /\ \A w \in DOMAIN TopSaved(su) : TopSaved(su)[w] = Calls!Restored[w]
         /\ v \in CallVariables => DOMAIN TopSaved(su) = Bound(Formals[p], n) \cup {v}
         /\ v \notin CallVariables => v \in Texts /\ DOMAIN TopSaved(su) = Bound(Formals[p], n)
<1>1. env \in Environments /\ stack \in Stacks
  BY DEF CallsInv, CallTyped
<1>2. /\ Calls!BaseOf(stack) # 0 /\ stack[Calls!BaseOf(stack)] = Calls!ProcFrame
  BY DEF CallsInv, CallInProgress
<1> DEFINE g == TopSaved(stack)
           h == TopSaved(su)
<1>3. /\ \A w \in DOMAIN g : g[w] = Calls!Restored[w]
      /\ \A w \in CallVariables : w \notin DOMAIN g => env[w] = Calls!Restored[w]
      /\ KindOf(stack, Calls!BaseOf(stack)) = "proc"
      /\ DOMAIN g \subseteq CallVariables
  BY BindingFacts
<1>4. /\ su \in Stacks
      /\ Calls!BaseOf(su) = Calls!BaseOf(stack)
      /\ KindOf(su, Calls!BaseOf(stack)) = KindOf(stack, Calls!BaseOf(stack))
      /\ Front(AllScopes(su)) = Front(AllScopes(stack))
      /\ v \in CallVariables =>
           h = [w \in DOMAIN g \cup {v} |-> IF w \in DOMAIN g THEN g[w] ELSE env[v]]
      /\ v \notin CallVariables => v \in Texts /\ h = g
  BY <1>1, PushFacts
<1>5. DOMAIN g = Bound(Formals[p], n)
  BY DEF Binds
<1>6. su[Calls!BaseOf(su)] = Calls!ProcFrame
  <2>1. Calls!BaseOf(su) \in 1..Len(su)
    <3>1. Calls!BaseOf(su) \in 0..Len(su) /\ Len(su) \in Nat
      BY <1>4, BaseFacts DEF Stacks
    <3> QED
      BY <1>2, <1>4, <3>1
  <2>2. su[Calls!BaseOf(su)] \in CallEntry
    BY <1>4, <2>1, ElementType DEF Stacks
  <2>3. su[Calls!BaseOf(su)].kind = "proc"
    BY <1>2, <1>3, <1>4 DEF KindOf
  <2> QED
    BY <2>2, <2>3, EntryKinds
<1> HIDE DEF g, h
<1>7. \A w \in DOMAIN h : h[w] = Calls!Restored[w]
  <2>1. CASE v \in CallVariables
    BY <1>3, <1>4, <2>1
  <2>2. CASE v \notin CallVariables
    BY <1>3, <1>4, <2>2
  <2> QED
    BY <2>1, <2>2
<1>8. /\ v \in CallVariables => DOMAIN h = Bound(Formals[p], n) \cup {v}
      /\ v \notin CallVariables => DOMAIN h = Bound(Formals[p], n)
  BY <1>4, <1>5
<1> QED
  BY <1>2, <1>3, <1>4, <1>6, <1>7, <1>8 DEF g, h

\* The next name and the next value.
LEMMA NextBound ==
  ASSUME NEW p \in Procedures, NEW args \in Arguments, NEW n \in Nat, Binds(p, args, n)
  PROVE  /\ n + 1 \in Nat /\ n + 1 <= Len(args) /\ n + 1 <= Len(Formals[p])
         /\ n <= Len(args) /\ n <= Len(Formals[p])
         /\ Head(formals) = Formals[p][n + 1] /\ Head(formals) \in Names3
         /\ Head(buffer) = ArgValue(Calls!Restored, args[n + 1])
         /\ Head(buffer) \in CallValues \cup {Text}
         /\ (Len(buffer) = 1) = (n + 1 = Len(args))
         /\ (Len(formals) = 1) = (n + 1 = Len(Formals[p]))
<1>1. PICK a \in Nat, f \in Nat : a = Len(args) /\ f = Len(Formals[p])
  BY EmptyLists
<1>2. /\ n < a /\ n < f
      /\ formals \in Seq(Names3) /\ Len(formals) = f - n
      /\ \A i \in 1..Len(formals) : formals[i] = Formals[p][n + i]
      /\ buffer \in Seq(CallValues \cup {Text}) /\ Len(buffer) = a - n
      /\ \A i \in 1..Len(buffer) : buffer[i] = ArgValue(Calls!Restored, args[n + i])
  BY <1>1 DEF Binds
<1>3. 1 \in 1..(f - n) /\ 1 \in 1..(a - n)
  BY <1>2
<1>4. /\ Head(formals) = formals[1] /\ formals[1] \in Names3
      /\ Head(buffer) = buffer[1] /\ buffer[1] \in CallValues \cup {Text}
  <2>1. formals[1] \in Names3 /\ buffer[1] \in CallValues \cup {Text}
    BY <1>2, <1>3, ElementType
  <2> QED
    BY <1>2, <2>1
<1>5. formals[1] = Formals[p][n + 1] /\ buffer[1] = ArgValue(Calls!Restored, args[n + 1])
  BY <1>2, <1>3
<1>6. /\ n + 1 \in Nat /\ n + 1 <= a /\ n + 1 <= f /\ n <= a /\ n <= f
      /\ (a - n = 1) = (n + 1 = a) /\ (f - n = 1) = (n + 1 = f)
  BY <1>2
<1> HIDE DEF Binds
<1> QED
  BY <1>1, <1>2, <1>4, <1>5, <1>6

\* The call is over, after m parameters: here it happens, in the specification.
LEMMA BindEnds ==
  ASSUME CallsInv, callPc = "bind",
         NEW p \in Procedures, NEW args \in Arguments, NEW n \in Nat, Binds(p, args, n),
         NEW m \in Nat, m <= Len(args), m <= Len(Formals[p]),
         env' \in Environments, env' = BoundTo(Formals[p], args, m, Calls!Restored),
         stack' \in Stacks, KindOf(stack', Calls!BaseOf(stack')) = "proc",
         Front(AllScopes(stack')) = Front(AllScopes(stack)),
         \A w \in DOMAIN TopSaved(stack') : TopSaved(stack')[w] = Calls!Restored[w],
         Bound(Formals[p], m) \subseteq DOMAIN TopSaved(stack'),
         NEW r \in {"ok", "error"}, Calls!End(r),
         r = "ok" => /\ m = Len(Formals[p]) /\ m = Len(args)
                     /\ DOMAIN TopSaved(stack') = Bound(Formals[p], m)
  PROVE  CallsInv' /\ CallStep
<1>1. callPc' = "idle" /\ callResult' = r
  BY DEF Calls!End
<1>2. CallsInv' /\ Calls!envBar' = env' /\ Calls!scopesBar' = AllScopes(stack')
  BY <1>1, IdleAfter
<1>3. Calls!envBar = Calls!Restored /\ Calls!scopesBar = Front(AllScopes(stack))
  BY BindBar
<1>4. PICK e \in Environments, s \in ScopeStacks, su \in Stacks :
        e = Calls!Restored /\ s = Front(AllScopes(stack)) /\ su = stack'
  BY BindingFacts
<1>5. Bad \notin Calls!ToSet(args)
  BY DEF Binds
<1>6. /\ Front(AllScopes(su)) = s /\ KindOf(su, Calls!BaseOf(su)) = "proc"
      /\ r = "ok" => /\ m = Len(Formals[p]) /\ m = Len(args)
                     /\ DOMAIN TopSaved(su) = Bound(Formals[p], m)
      /\ Bound(Formals[p], m) \subseteq DOMAIN TopSaved(su)
      /\ \A v \in DOMAIN TopSaved(su) : TopSaved(su)[v] = e[v]
  BY <1>4
<1>7. Calls!Store!Step(e, s, BoundTo(Formals[p], args, m, e), AllScopes(su), r)
  BY <1>5, <1>6, CallHappens
<1>8. Calls!Store!Step(Calls!envBar, Calls!scopesBar, Calls!envBar', Calls!scopesBar', callResult')
  BY <1>1, <1>2, <1>3, <1>4, <1>7
<1> QED
  BY <1>2, <1>8 DEF CallStep

\* The next parameter is to be set up: nothing has happened yet.
LEMMA BindGoesOn ==
  ASSUME CallsInv, callPc = "bind",
         NEW p \in Procedures, NEW args \in Arguments, NEW n \in Nat, Binds(p, args, n),
         n + 1 # Len(args), n + 1 # Len(Formals[p]),
         env' \in Environments, env' = BoundTo(Formals[p], args, n + 1, Calls!Restored),
         stack' \in Stacks, Calls!BaseOf(stack') # 0,
         stack'[Calls!BaseOf(stack')] = Calls!ProcFrame,
         Front(AllScopes(stack')) = Front(AllScopes(stack)),
         DOMAIN TopSaved(stack') = Bound(Formals[p], n + 1),
         Calls!Restored' = Calls!Restored,
         buffer' = Tail(buffer), formals' = Tail(formals),
         callPc' = "bind", callResult' = callResult
  PROVE  CallsInv' /\ CallStep
<1> DEFINE fs == Formals[p]
           e == Calls!Restored
<1>1. PICK a \in Nat, f \in Nat : a = Len(args) /\ f = Len(fs)
  BY EmptyLists
<1>2. /\ n < a /\ n < f /\ Bad \notin Calls!ToSet(args)
      /\ formals \in Seq(Names3) /\ Len(formals) = f - n
      /\ \A i \in 1..Len(formals) : formals[i] = fs[n + i]
      /\ buffer \in Seq(CallValues \cup {Text}) /\ Len(buffer) = a - n
      /\ \A i \in 1..Len(buffer) : buffer[i] = ArgValue(e, args[n + i])
  BY <1>1 DEF Binds
<1> HIDE DEF fs, e
<1>3. /\ formals' \in Seq(Names3) /\ Len(formals') = f - (n + 1)
      /\ \A i \in 1..Len(formals') : formals'[i] = fs[(n + 1) + i]
  <2>1. /\ Tail(formals) \in Seq(Names3) /\ Len(Tail(formals)) = (f - n) - 1
        /\ \A i \in 1..((f - n) - 1) : Tail(formals)[i] = formals[i + 1]
    BY <1>2
  <2>2. (f - n) - 1 = f - (n + 1)
    BY <1>2
  <2>3. \A i \in 1..(f - (n + 1)) : i + 1 \in 1..(f - n) /\ n + (i + 1) = (n + 1) + i
    BY <1>2
  <2> QED
    BY <1>2, <2>1, <2>2, <2>3
<1>4. /\ buffer' \in Seq(CallValues \cup {Text}) /\ Len(buffer') = a - (n + 1)
      /\ \A i \in 1..Len(buffer') : buffer'[i] = ArgValue(e, args[(n + 1) + i])
  <2>1. /\ Tail(buffer) \in Seq(CallValues \cup {Text}) /\ Len(Tail(buffer)) = (a - n) - 1
        /\ \A i \in 1..((a - n) - 1) : Tail(buffer)[i] = buffer[i + 1]
    BY <1>2
  <2>2. (a - n) - 1 = a - (n + 1)
    BY <1>2
  <2>3. \A i \in 1..(a - (n + 1)) : i + 1 \in 1..(a - n) /\ n + (i + 1) = (n + 1) + i
    BY <1>2
  <2> QED
    BY <1>2, <2>1, <2>2, <2>3
<1>5. n + 1 < a /\ n + 1 < f /\ n + 1 \in Nat
  BY <1>1, <1>2 DEF fs
<1>6. Binds(p, args, n + 1)'
  <2>1. /\ n + 1 < Len(args) /\ n + 1 < Len(Formals[p]) /\ Bad \notin Calls!ToSet(args)
        /\ formals' \in Seq(Names3) /\ Len(formals') = Len(Formals[p]) - (n + 1)
        /\ \A i \in 1..Len(formals') : formals'[i] = Formals[p][(n + 1) + i]
        /\ buffer' \in Seq(CallValues \cup {Text}) /\ Len(buffer') = Len(args) - (n + 1)
        /\ \A i \in 1..Len(buffer') : buffer'[i] = ArgValue(Calls!Restored', args[(n + 1) + i])
        /\ env' = BoundTo(Formals[p], args, n + 1, Calls!Restored')
        /\ DOMAIN TopSaved(stack') = Bound(Formals[p], n + 1)
    BY <1>1, <1>2, <1>3, <1>4, <1>5 DEF fs, e
  <2> QED
    BY <2>1, Zenon DEF Binds
<1>7. CallsInv'
  BY <1>5, <1>6 DEF CallsInv, CallTyped, CallInProgress
<1>8. Calls!envBar = Calls!Restored /\ Calls!scopesBar = Front(AllScopes(stack))
  BY BindBar
<1>9. Calls!envBar' = Calls!Restored' /\ Calls!scopesBar' = Front(AllScopes(stack'))
  BY BindAfter
<1>10. CallsBar' = CallsBar
  BY <1>8, <1>9 DEF CallsBar
<1> QED
  BY <1>7, <1>10 DEF CallStep

LEMMA BindStep ==
  ASSUME CallsInv, Calls!BindParameter
  PROVE  CallsInv' /\ CallStep
<1>1. callPc = "bind"
  BY DEF Calls!BindParameter
<1>2. PICK p \in Procedures, args \in Arguments, n \in Nat : Binds(p, args, n)
  BY <1>1 DEF CallsInv, CallInProgress
<1> DEFINE fs == Formals[p]
           e == Calls!Restored
           v == Head(formals)
           x == Head(buffer)
<1>3. env \in Environments /\ stack \in Stacks
  BY DEF CallsInv, CallTyped
<1>4. /\ n + 1 \in Nat /\ n + 1 <= Len(args) /\ n + 1 <= Len(fs)
      /\ n <= Len(args) /\ n <= Len(fs)
      /\ v = fs[n + 1] /\ v \in Names3
      /\ x = ArgValue(e, args[n + 1])
      /\ x \in CallValues \cup {Text}
      /\ (Len(buffer) = 1) = (n + 1 = Len(args))
      /\ (Len(formals) = 1) = (n + 1 = Len(fs))
  BY <1>2, NextBound
<1>5. /\ e \in Environments
      /\ KindOf(stack, Calls!BaseOf(stack)) = "proc"
      /\ \A w \in DOMAIN TopSaved(stack) : TopSaved(stack)[w] = e[w]
  BY <1>1, <1>2, BindingFacts
<1>6. env = BoundTo(fs, args, n, e) /\ DOMAIN TopSaved(stack) = Bound(fs, n)
  BY <1>2 DEF Binds
<1>7. CASE UNCHANGED <<env, stack>> /\ Calls!End("error")
  <2>1. env' = env /\ stack' = stack
    BY <1>7
  <2>2. /\ stack' \in Stacks /\ KindOf(stack', Calls!BaseOf(stack')) = "proc"
        /\ Front(AllScopes(stack')) = Front(AllScopes(stack))
        /\ \A w \in DOMAIN TopSaved(stack') : TopSaved(stack')[w] = e[w]
        /\ Bound(fs, n) \subseteq DOMAIN TopSaved(stack')
        /\ env' \in Environments /\ env' = BoundTo(fs, args, n, e)
    BY <1>3, <1>5, <1>6, <2>1
  <2> HIDE DEF v, x
  <2> QED
    BY <1>1, <1>2, <1>4, <1>7, <2>2, BindEnds
<1>8. ASSUME stack' \in Calls!Pushes(v)
      PROVE  /\ stack' \in Stacks
             /\ Calls!BaseOf(stack') # 0 /\ stack'[Calls!BaseOf(stack')] = Calls!ProcFrame
             /\ KindOf(stack', Calls!BaseOf(stack')) = "proc"
             /\ Front(AllScopes(stack')) = Front(AllScopes(stack))
             /\ \A w \in DOMAIN TopSaved(stack') : TopSaved(stack')[w] = e[w]
             /\ v \in CallVariables => DOMAIN TopSaved(stack') = Bound(fs, n) \cup {v}
             /\ v \notin CallVariables => v \in Texts /\ DOMAIN TopSaved(stack') = Bound(fs, n)
  <2> HIDE DEF v
  <2>1. PICK u \in Names3 : u = v
    BY <1>4
  <2>2. PICK su \in Calls!Pushes(u) : su = stack'
    BY <1>8, <2>1
  <2>3. /\ su \in Stacks
        /\ Calls!BaseOf(su) # 0 /\ su[Calls!BaseOf(su)] = Calls!ProcFrame
        /\ KindOf(su, Calls!BaseOf(su)) = "proc"
        /\ Front(AllScopes(su)) = Front(AllScopes(stack))
        /\ \A w \in DOMAIN TopSaved(su) : TopSaved(su)[w] = e[w]
        /\ u \in CallVariables => DOMAIN TopSaved(su) = Bound(fs, n) \cup {u}
        /\ u \notin CallVariables => u \in Texts /\ DOMAIN TopSaved(su) = Bound(fs, n)
    BY <1>1, <1>2, PushedFacts
  <2> QED
    BY <2>1, <2>2, <2>3
<1> HIDE DEF v, x, fs
<1>9. CASE /\ stack' \in Calls!Pushes(v) /\ env' = env /\ Calls!End("error")
  <2>1. /\ Bound(fs, n) \subseteq DOMAIN TopSaved(stack')
        /\ env' \in Environments /\ env' = BoundTo(fs, args, n, e)
    BY <1>3, <1>6, <1>8, <1>9
  <2> QED
    BY <1>1, <1>2, <1>4, <1>8, <1>9, <2>1, BindEnds DEF fs
<1>10. CASE /\ stack' \in Calls!Pushes(v) /\ (x = Text) = (v \in Texts)
            /\ env' = IF v \in CallVariables THEN [env EXCEPT ![v] = x] ELSE env
            /\ Calls!NextParameter
  <2>1. /\ env' \in Environments
        /\ \A w \in CallVariables : w # v => env'[w] = env[w]
    <3>1. CASE v \in CallVariables
      <4>1. v \notin Texts
        BY <3>1, CallConstants
      <4>2. x \in CallValues
        BY <1>4, <1>10, <4>1
      <4> QED
        BY <1>3, <1>10, <3>1, <4>2 DEF Environments
    <3>2. CASE v \notin CallVariables
      BY <1>3, <1>10, <3>2
    <3> QED
      BY <3>1, <3>2
  <2>2. env' = BoundTo(fs, args, n + 1, e) /\ DOMAIN TopSaved(stack') = Bound(fs, n + 1)
    <3>1. /\ v \notin CallVariables =>
               /\ BoundTo(fs, args, n + 1, e) = BoundTo(fs, args, n, e)
               /\ Bound(fs, n + 1) = Bound(fs, n)
          /\ v \in CallVariables =>
               /\ BoundTo(fs, args, n + 1, e) =
                    [BoundTo(fs, args, n, e) EXCEPT ![v] = ArgValue(e, args[n + 1])]
               /\ Bound(fs, n + 1) = Bound(fs, n) \cup {v}
      <4>1. PICK f \in Environments : f = e
        BY <1>5
      <4>2. BindsOneMore(fs, args, n, f)
        BY BindsNext
      <4> QED
        BY <1>4, <4>1, <4>2 DEF BindsOneMore
    <3>2. CASE v \in CallVariables
      BY <1>4, <1>6, <1>8, <1>10, <3>1, <3>2
    <3>3. CASE v \notin CallVariables
      BY <1>6, <1>8, <1>10, <3>1, <3>3
    <3> QED
      BY <3>2, <3>3
  <2>3. ASSUME NEW r \in {"ok", "error"}, Calls!End(r),
               r = "ok" => n + 1 = Len(fs) /\ n + 1 = Len(args)
        PROVE  CallsInv' /\ CallStep
    <3>1. /\ Bound(fs, n + 1) \subseteq DOMAIN TopSaved(stack')
          /\ r = "ok" => /\ n + 1 = Len(fs) /\ n + 1 = Len(args)
                         /\ DOMAIN TopSaved(stack') = Bound(fs, n + 1)
      BY <2>2, <2>3
    <3>2. PICK m \in Nat : m = n + 1
      BY <1>4
    <3>3. /\ m <= Len(args) /\ m <= Len(fs) /\ env' = BoundTo(fs, args, m, e)
          /\ Bound(fs, m) \subseteq DOMAIN TopSaved(stack')
          /\ r = "ok" => /\ m = Len(fs) /\ m = Len(args)
                         /\ DOMAIN TopSaved(stack') = Bound(fs, m)
      BY <1>4, <2>2, <3>1, <3>2
    <3> QED
      BY <1>1, <1>2, <1>8, <1>10, <2>1, <2>3, <3>3, BindEnds DEF fs
  <2>4. CASE Len(buffer) = 1
    <3>1. Calls!End(IF Len(formals) = 1 THEN "ok" ELSE "error")
      BY <1>10, <2>4 DEF Calls!NextParameter
    <3>2. CASE Len(formals) = 1
      <4>1. Calls!End("ok")
        BY <3>1, <3>2
      <4> QED
        BY <1>4, <2>3, <2>4, <3>2, <4>1
    <3>3. CASE Len(formals) # 1
      <4>1. Calls!End("error")
        BY <3>1, <3>3
      <4> QED
        BY <2>3, <4>1
    <3> QED
      BY <3>2, <3>3
  <2>5. CASE Len(buffer) # 1 /\ Len(formals) = 1
    <3>1. Calls!End("error")
      BY <1>10, <2>5 DEF Calls!NextParameter
    <3> QED
      BY <2>3, <3>1
  <2>6. CASE Len(buffer) # 1 /\ Len(formals) # 1
    <3>1. /\ buffer' = Tail(buffer) /\ formals' = Tail(formals)
          /\ callPc' = callPc /\ callResult' = callResult
      BY <1>10, <2>6 DEF Calls!NextParameter
    <3>2. Calls!Restored' = e
      <4>1. Calls!Restored' = SavedOver(env', TopSaved(stack'))
        BY <1>8, <1>10, <2>1, RestoredAfter
      <4>2. PICK f \in Environments, su \in Calls!Pushes(v) : f = env' /\ su = stack'
        BY <1>10, <2>1
      <4>3. SavedOver(f, TopSaved(su)) = SavedOver(env, TopSaved(stack))
        BY <1>3, <1>4, <2>1, <4>2, RestoredKept
      <4>4. e = SavedOver(env, TopSaved(stack))
        BY <1>3, RestoredNow
      <4> QED
        BY <4>1, <4>2, <4>3, <4>4
    <3>3. n + 1 # Len(args) /\ n + 1 # Len(fs)
      BY <1>4, <2>6
    <3>4. callPc' = "bind"
      BY <1>1, <3>1
    <3> QED
      BY <1>1, <1>2, <1>8, <1>10, <2>1, <2>2, <3>1, <3>2, <3>3, <3>4, BindGoesOn DEF fs
  <2> QED
    BY <2>4, <2>5, <2>6
<1> QED
  BY <1>7, <1>9, <1>10 DEF Calls!BindParameter, v, x

-----------------------------------------------------------------------------
(* Every step. *)

LEMMA CallsNext ==
  ASSUME CallsInv, Calls!Next
  PROVE  CallsInv' /\ CallStep
<1>1. ASSUME NEW v \in CallVariables, NEW c \in CallValues, Calls!Let(v, c)
      PROVE  CallsInv' /\ CallStep
  BY <1>1, LetStep
<1>2. ASSUME NEW v \in CallVariables, Calls!Local(v)
      PROVE  CallsInv' /\ CallStep
  BY <1>2, LocalStep
<1>3. ASSUME NEW p \in Procedures, NEW args \in Arguments, Calls!Proc(p, args)
      PROVE  CallsInv' /\ CallStep
  BY <1>3, ProcStep
<1>4. CASE Calls!LocalFails
  BY <1>4, LocalFailsStep
<1>5. CASE Calls!Open
  BY <1>5, OpenStep
<1>6. CASE Calls!Close
  BY <1>6, CloseStep
<1>7. CASE Calls!Clear
  BY <1>7, ClearStep
<1>8. CASE Calls!BindParameter
  BY <1>8, BindStep
<1>9. CASE Calls!EndProc
  BY <1>9, EndProcStep
<1> QED
  BY <1>1, <1>2, <1>3, <1>4, <1>5, <1>6, <1>7, <1>8, <1>9, Zenon DEF Calls!Next

LEMMA CallsStand ==
  ASSUME CallsInv, UNCHANGED callVars
  PROVE  CallsInv'
BY DEF CallsInv, CallTyped, CallInProgress, Binds, Calls!Restored, Calls!Base, callVars

LEMMA CallStepIsNext ==
  ASSUME CallStep
  PROVE  [Calls!Store!Next]_(Calls!Store!vars)
<1>1. CASE CallsBar' = CallsBar
  BY <1>1 DEF CallsBar, Calls!Store!vars
<1>2. CASE Calls!Store!Step(Calls!envBar, Calls!scopesBar, Calls!envBar', Calls!scopesBar', callResult')
  <2>1. \E e \in {Calls!envBar}, s \in {Calls!scopesBar},
           f \in {Calls!envBar'}, t \in {Calls!scopesBar'} :
          Calls!Store!Step(e, s, f, t, callResult')
    BY <1>2, Zenon
  <2> QED
    BY <2>1, Zenon DEF Calls!Store!Next
<1> QED
  BY <1>1, <1>2 DEF CallStep

LEMMA MCStepCalls ==
  ASSUME CallsInv, [MCNext]_<<part, vars, callVars, pageVars>>
  PROVE  /\ CallsInv'
         /\ [part = "calls" => [Calls!Store!Next]_(Calls!Store!vars)]_callVars
<1>1. CASE part = "calls" /\ Calls!Next
  BY <1>1, CallsNext, CallStepIsNext
<1>2. CASE UNCHANGED callVars
  BY <1>2, CallsStand
<1>3. (part = "calls" /\ Calls!Next) \/ UNCHANGED callVars
  BY DEF MCNext
<1> QED
  BY <1>1, <1>2, <1>3

LEMMA CallsInvariant == MCSpec => []CallsInv
<1>1. MCInit => CallsInv
  BY MCStoreAssumption, CallsInitially DEF MCInit
<1>2. CallsInv /\ [MCNext]_<<part, vars, callVars, pageVars>> => CallsInv'
  BY MCStepCalls
<1> QED
  BY <1>1, <1>2, PTL DEF MCSpec

\* Arguments arrive as they were at the call, whichever parameters share names
\* with them, and ENDPROC gives back what was there, after recursion, a name
\* made local twice, and calls that failed half way, for any variables,
\* procedures and depth of calls.  (procedure.asm _FPROGetValues,
\* _FPROSetupLoop; local.asm LocalRestore.)
THEOREM ScopesAreImplemented == MCSpec => ImplementsScopes
<1>1. MCInit => Calls!Store!Init
  BY MCStoreAssumption, CallsInitially DEF MCInit
<1>2. CallsInv /\ [MCNext]_<<part, vars, callVars, pageVars>> =>
        [part = "calls" => [Calls!Store!Next]_(Calls!Store!vars)]_callVars
  BY MCStepCalls
<1> QED
  BY <1>1, <1>2, CallsInvariant, PTL DEF MCSpec, ImplementsScopes

-----------------------------------------------------------------------------
(* The data page: expressions never reach the frames below them, wherever  *)
(* the stacks lie and however much is pushed.                              *)

LEMMA PageAssumed ==
  /\ PrmBuffer \in Nat /\ PrmColumn \in Nat \ {0} /\ BasStack \in Nat
  /\ CpuStack \in Nat /\ FrameSizes \subseteq Nat \ {0, 1} /\ Nestings \subseteq Nat
  /\ MaxParameters \in Nat /\ MaxFrames \in Nat /\ MaxLevels \in Nat
  /\ NoBase \notin Nat
  BY MCStoreAssumption DEF Page!DataPageAssumption

LEMMA PageMoves ==
  [MCNext]_<<part, vars, callVars, pageVars>> => [Page!Next]_(Page!vars)
  BY DEF MCNext, pageVars, Page!vars

(* The first level lies above the frames, and above the frame NEXT reads     *)
(* although DStack is already below it.                                      *)
BaseAbove ==
  /\ dstack \in Int /\ held \in {0, Page!ForBytes}
  /\ BasStack \in Int /\ frames \in Seq(Nat)
  /\ base # NoBase => base \in Int /\ base > dstack + held + 1

LEMMA BaseAboveInit == Page!Init => BaseAbove
  BY PageAssumed DEF Page!Init, BaseAbove, Page!ForBytes

LEMMA BaseAboveStep == BaseAbove /\ [Page!Next]_(Page!vars) => BaseAbove'
<1> SUFFICES ASSUME BaseAbove, [Page!Next]_(Page!vars) PROVE BaseAbove'
  OBVIOUS
<1> USE PageAssumed DEF BaseAbove, Page!ForBytes
<1>1. CASE Page!Push
  <2>1. PICK n \in FrameSizes : frames' = Append(frames, n) /\ dstack' = dstack + n
    BY <1>1 DEF Page!Push
  <2>2. n \in Nat
    BY <2>1
  <2> QED
    BY <1>1, <2>1, <2>2 DEF Page!Push, Page!Idle, Page!expression
<1>2. CASE Page!Pop
  <2>1. frames # <<>> /\ Page!TopBytes \in Nat /\ dstack' = dstack - Page!TopBytes
    BY <1>2 DEF Page!Pop, Page!TopBytes
  <2> QED
    BY <1>2, <2>1 DEF Page!Pop, Page!Idle, Page!expression
<1>3. CASE Page!NextBegins
  BY <1>3 DEF Page!NextBegins, Page!Idle, Page!expression
<1>4. CASE Page!NextEnds
  <2>1. base' = NoBase /\ held' = 0
    BY <1>4 DEF Page!NextEnds, Page!expression
  <2>2. frames' \in Seq(Nat) /\ dstack' \in Int
    <3>1. CASE dstack' = dstack + Page!ForBytes /\ frames' = Append(frames, Page!ForBytes)
      BY <3>1
    <3>2. CASE UNCHANGED <<dstack, frames>>
      BY <3>2
    <3> QED
      BY <1>4, <3>1, <3>2 DEF Page!NextEnds
  <2> QED
    BY <2>1, <2>2
<1>5. CASE Page!Clear
  BY <1>5 DEF Page!Clear, Page!Idle, Page!expression
<1>6. CASE Page!Error
  BY <1>6 DEF Page!Error
<1>7. CASE Page!Evaluate
  BY <1>7 DEF Page!Evaluate, Page!Idle, Page!stack, Page!Gap, Page!SubscriptGap, Page!LevelBytes, Page!Word
<1>8. CASE Page!Nest
  BY <1>8 DEF Page!Nest, Page!stack
<1>9. CASE Page!LevelEnds
  BY <1>9 DEF Page!LevelEnds, Page!stack
<1>10. CASE Page!EvaluationEnds
  BY <1>10 DEF Page!EvaluationEnds, Page!stack
<1>11. CASE Page!ProcBegins
  BY <1>11 DEF Page!ProcBegins, Page!Idle, Page!expression, Page!ProcBytes
<1>12. CASE Page!ProcValuesEnd
  BY <1>12 DEF Page!ProcValuesEnd, Page!stack, Page!expression
<1>13. CASE Page!ProcLocalsEnd
  BY <1>13 DEF Page!ProcLocalsEnd, Page!stack, Page!expression
<1>14. CASE UNCHANGED Page!vars
  BY <1>14 DEF Page!vars
<1> QED
  BY <1>1, <1>2, <1>3, <1>4, <1>5, <1>6, <1>7, <1>8, <1>9, <1>10, <1>11, <1>12,
     <1>13, <1>14 DEF Page!Next

LEMMA BaseAboveKeeps == BaseAbove => Page!FramesKept
  BY PageAssumed DEF BaseAbove, Page!FramesKept, Page!FrameArea, Page!LevelArea,
     Page!LevelBytes, Page!ForBytes

(* What is on the BASIC stack, and the frame that NEXT has taken off and will *)
(* read, is not overwritten by the evaluation of an expression, for every     *)
(* place of the stacks, every frame size and every depth (expression.asm:24). *)
THEOREM EvaluationSparesFrames == MCSpec => []FramesKept
<1>1. MCInit => BaseAbove
  BY BaseAboveInit DEF MCInit
<1>2. BaseAbove => FramesKept
  BY BaseAboveKeeps DEF FramesKept
<1> QED
  BY <1>1, <1>2, PageMoves, BaseAboveStep, PTL DEF MCSpec

-----------------------------------------------------------------------------
(* The parameter buffer holds as many parameters as a column has words.      *)

ColumnsHold == Page!Word * MaxParameters <= PrmColumn

SlotHolds(i) ==
  \A k \in 0..2 : /\ Page!Column(k, i) \in DOMAIN columns
                 /\ columns[Page!Column(k, i)] = Page!Slot(i)[Page!Column(k, i)]
EndHolds == /\ Page!Column(2, arguments) \in DOMAIN columns
            /\ columns[Page!Column(2, arguments)] = <<"end", arguments>>

Collected ==
  /\ arguments \in Nat /\ arguments <= MaxParameters
  /\ base # NoBase /\ phase = "values" => arguments < MaxParameters
  /\ phase = "locals" => base = NoBase
  /\ phase # "none" => \A i \in 0..(arguments - 1) : SlotHolds(i)
  /\ phase = "locals" => EndHolds

LEMMA ColumnIs ==
  ASSUME NEW i \in Nat, NEW k \in 0..2
  PROVE  Page!Column(k, i) = PrmBuffer + 2 * i +
           (IF k = 0 THEN 0 ELSE IF k = 1 THEN PrmColumn ELSE 2 * PrmColumn)
  BY PageAssumed DEF Page!Column, Page!Word

LEMMA SlotsApart ==
  ASSUME ColumnsHold, NEW k \in 0..2, NEW l \in 0..2,
         NEW i \in 0..(MaxParameters - 1), NEW j \in 0..(MaxParameters - 1), i # j
  PROVE  Page!Column(k, i) # Page!Column(l, j)
<1>1. PrmBuffer \in Nat /\ PrmColumn \in Nat /\ MaxParameters \in Nat
  BY PageAssumed
<1>2. 2 * i + 2 <= PrmColumn /\ 2 * j + 2 <= PrmColumn
  BY <1>1 DEF ColumnsHold, Page!Word
<1> QED
  BY <1>1, <1>2, ColumnIs

LEMMA EndApart ==
  ASSUME ColumnsHold, NEW k \in 0..2, NEW j \in 0..MaxParameters, NEW i \in 0..(j - 1)
  PROVE  Page!Column(k, i) # Page!Column(2, j)
<1>1. PrmBuffer \in Nat /\ PrmColumn \in Nat /\ MaxParameters \in Nat
  BY PageAssumed
<1>2. 2 * i + 2 <= PrmColumn
  BY <1>1 DEF ColumnsHold, Page!Word
<1> QED
  BY <1>1, <1>2, ColumnIs

LEMMA OverNew ==
  ASSUME NEW f, NEW g, NEW a, a \in DOMAIN g
  PROVE  a \in DOMAIN Page!Over(f, g) /\ Page!Over(f, g)[a] = g[a]
  BY DEF Page!Over

LEMMA OverOld ==
  ASSUME NEW f, NEW g, NEW a, a \in DOMAIN f, a \notin DOMAIN g
  PROVE  a \in DOMAIN Page!Over(f, g) /\ Page!Over(f, g)[a] = f[a]
  BY DEF Page!Over

LEMMA SlotDomain ==
  ASSUME NEW i
  PROVE  DOMAIN Page!Slot(i) = {Page!Column(k, i) : k \in 0..2}
  BY DEF Page!Slot

LEMMA CollectedInit == Page!Init => Collected
  BY PageAssumed DEF Page!Init, Collected

LEMMA CollectedStep ==
  ASSUME ColumnsHold
  PROVE  Collected /\ [Page!Next]_(Page!vars) => Collected'
<1> SUFFICES ASSUME Collected, [Page!Next]_(Page!vars) PROVE Collected'
  OBVIOUS
<1> USE PageAssumed DEF Collected
<1>1. CASE UNCHANGED Page!proc /\ (base' = NoBase \/ base' = base)
  BY <1>1 DEF Page!proc, SlotHolds, EndHolds
<1>2. CASE Page!Push \/ Page!Pop \/ Page!NextBegins \/ Page!NextEnds \/ Page!Clear \/ Page!Nest \/ Page!LevelEnds
  BY <1>1, <1>2 DEF Page!Push, Page!Pop, Page!NextBegins, Page!NextEnds, Page!Clear, Page!Nest, Page!LevelEnds,
     Page!expression
<1>3. CASE Page!Error
  BY <1>3 DEF Page!Error
<1>4. CASE Page!Evaluate
  BY <1>4 DEF Page!Evaluate, Page!proc, SlotHolds, EndHolds
<1>5. CASE Page!EvaluationEnds
  <2>1. CASE phase # "values"
    BY <1>1, <1>5, <2>1 DEF Page!EvaluationEnds, Page!proc
  <2>2. CASE phase = "values"
    <3>1. /\ arguments' = arguments + 1 /\ phase' = phase /\ base' = NoBase
          /\ columns' = Page!Over(columns, Page!Slot(arguments))
          /\ arguments < MaxParameters
      BY <1>5, <2>2 DEF Page!EvaluationEnds
    <3>2. ASSUME NEW i \in 0..(arguments' - 1) PROVE SlotHolds(i)'
      <4> SUFFICES ASSUME NEW k \in 0..2
                   PROVE  /\ Page!Column(k, i) \in DOMAIN columns'
                          /\ columns'[Page!Column(k, i)] = Page!Slot(i)[Page!Column(k, i)]
        BY DEF SlotHolds
      <4>1. CASE i = arguments
        <5>1. Page!Column(k, i) \in DOMAIN Page!Slot(arguments)
          BY <4>1, SlotDomain
        <5>2. /\ Page!Column(k, i) \in DOMAIN Page!Over(columns, Page!Slot(arguments))
              /\ Page!Over(columns, Page!Slot(arguments))[Page!Column(k, i)]
                   = Page!Slot(arguments)[Page!Column(k, i)]
          BY <5>1, OverNew, SMT
        <5> QED
          BY <3>1, <4>1, <5>2, Zenon
      <4>2. CASE i # arguments
        <5>1. i \in 0..(arguments - 1) /\ SlotHolds(i)
          BY <2>2, <3>1, <4>2
        <5>2. ASSUME NEW l \in 0..2 PROVE Page!Column(k, i) # Page!Column(l, arguments)
          <6>1. /\ i \in 0..(MaxParameters - 1) /\ i # arguments
                /\ arguments \in 0..(MaxParameters - 1)
            BY <3>1, <5>1
          <6>2. \A a, b \in 0..(MaxParameters - 1) :
                   a # b => Page!Column(k, a) # Page!Column(l, b)
            BY SlotsApart, Zenon
          <6> QED
            BY <6>1, <6>2, Zenon
        <5>3. Page!Column(k, i) \notin DOMAIN Page!Slot(arguments)
          <6>1. DOMAIN Page!Slot(arguments) = {Page!Column(l, arguments) : l \in 0..2}
            BY SlotDomain, Zenon
          <6> QED
            BY <5>2, <6>1, Zenon
        <5>4. /\ Page!Column(k, i) \in DOMAIN columns
              /\ columns[Page!Column(k, i)] = Page!Slot(i)[Page!Column(k, i)]
          BY <5>1 DEF SlotHolds
        <5>5. /\ Page!Column(k, i) \in DOMAIN Page!Over(columns, Page!Slot(arguments))
              /\ Page!Over(columns, Page!Slot(arguments))[Page!Column(k, i)] = columns[Page!Column(k, i)]
          BY <5>3, <5>4, OverOld, Zenon
        <5> QED
          BY <3>1, <5>4, <5>5, Zenon
      <4> QED
        BY <4>1, <4>2
    <3> QED
      BY <2>2, <3>1, <3>2
  <2> QED
    BY <2>1, <2>2
<1>6. CASE Page!ProcBegins
  BY <1>6 DEF Page!ProcBegins, Page!Idle, Page!expression
<1>7. CASE Page!ProcValuesEnd
  <2>1. /\ phase' = "locals" /\ phase = "values" /\ base' = NoBase
        /\ arguments' = arguments
        /\ columns' = Page!Over(columns, Page!EndMark(arguments))
    BY <1>7 DEF Page!ProcValuesEnd, Page!stack, Page!expression
  <2>2. DOMAIN Page!EndMark(arguments) = {Page!Column(2, arguments)}
        /\ Page!EndMark(arguments)[Page!Column(2, arguments)] = <<"end", arguments>>
    BY DEF Page!EndMark
  <2>3. ASSUME NEW i \in 0..(arguments - 1) PROVE SlotHolds(i)'
    <3> SUFFICES ASSUME NEW k \in 0..2
                 PROVE  /\ Page!Column(k, i) \in DOMAIN columns'
                        /\ columns'[Page!Column(k, i)] = Page!Slot(i)[Page!Column(k, i)]
      BY DEF SlotHolds
    <3>1. /\ Page!Column(k, i) \in DOMAIN columns
          /\ columns[Page!Column(k, i)] = Page!Slot(i)[Page!Column(k, i)]
      BY <2>1 DEF SlotHolds
    <3>2. Page!Column(k, i) # Page!Column(2, arguments)
      <4>1. arguments \in 0..MaxParameters
        OBVIOUS
      <4> QED
        BY <4>1, EndApart
    <3>3. /\ Page!Column(k, i) \in DOMAIN Page!Over(columns, Page!EndMark(arguments))
          /\ Page!Over(columns, Page!EndMark(arguments))[Page!Column(k, i)] = columns[Page!Column(k, i)]
      BY <2>2, <3>1, <3>2, OverOld, Zenon
    <3> QED
      BY <2>1, <3>1, <3>3, Zenon
  <2>4. EndHolds'
    <3>1. /\ Page!Column(2, arguments) \in DOMAIN Page!Over(columns, Page!EndMark(arguments))
          /\ Page!Over(columns, Page!EndMark(arguments))[Page!Column(2, arguments)]
               = <<"end", arguments>>
      BY <2>2, OverNew, SMT
    <3> QED
      BY <2>1, <3>1 DEF EndHolds
  <2> QED
    BY <2>1, <2>3, <2>4
<1>8. CASE Page!ProcLocalsEnd
  BY <1>8 DEF Page!ProcLocalsEnd, Page!expression
<1>9. CASE UNCHANGED Page!vars
  BY <1>1, <1>9 DEF Page!vars, Page!proc
<1> QED
  BY <1>2, <1>3, <1>4, <1>5, <1>6, <1>7, <1>8, <1>9 DEF Page!Next

LEMMA CollectedArrives == Collected => Page!ParametersArrive
<1> SUFFICES ASSUME Collected, phase = "locals" PROVE Page!ParametersArrive!2
  BY DEF Page!ParametersArrive
<1>1. ASSUME NEW i \in 0..(arguments - 1), NEW a \in DOMAIN Page!Slot(i)
      PROVE  columns[a] = Page!Slot(i)[a]
  <2>1. PICK k \in 0..2 : a = Page!Column(k, i)
    BY SlotDomain
  <2> QED
    BY <2>1 DEF Collected, SlotHolds
<1> QED
  BY <1>1 DEF Collected, EndHolds

(* With no more parameters than a column of PRMBuffer has words - eight - each *)
(* parameter of a PROC is read back as the caller's expression left it, and    *)
(* the mark behind the last one is found (procedure.asm:108-178).              *)
THEOREM EightParametersArrive ==
  ASSUME ColumnsHold
  PROVE  MCSpec => []ParametersArrive
<1>1. Collected /\ [Page!Next]_(Page!vars) => Collected'
  BY CollectedStep
<1>2. MCInit => Collected
  BY CollectedInit DEF MCInit
<1>3. Collected => ParametersArrive
  BY CollectedArrives DEF ParametersArrive
<1> QED
  BY <1>1, <1>2, <1>3, PageMoves, PTL DEF MCSpec

-----------------------------------------------------------------------------
(* The memory of variables and arrays: its addresses. *)

LEMMA MemoryConstants ==
  /\ Top \in Nat /\ Top % 4 = 0 /\ Top > 2 /\ Low \in Address /\ High \in Address /\ Low < High
  /\ Arrays \subseteq Names
  /\ \A n \in Names :
       /\ HeadAt[n] \in Address /\ 6 <= HeadAt[n] /\ HeadAt[n] < Low
       /\ NameAt[n] \in Address /\ 6 <= NameAt[n]
       /\ Tokens[n] \in Seq(Nat \ {0}) /\ Len(Tokens[n]) \in Nat
       /\ \A i \in 1..Len(Tokens[n]) : Tokens[n][i] \in Nat \ {0}
       /\ NameAt[n] + 2 * Len(Tokens[n]) <= Low
<1>1. \A n \in Names : Tokens[n] \in Seq(Nat \ {0})
  BY VariablesAssumption
<1>2. \A n \in Names : /\ Len(Tokens[n]) \in Nat
                       /\ \A i \in 1..Len(Tokens[n]) : Tokens[n][i] \in Nat \ {0}
  BY <1>1, ElementType
<1>3. /\ Top \in Nat /\ Top % 4 = 0 /\ Low \in Address /\ High \in Address /\ Low < High
      /\ Arrays \subseteq Names
      /\ \A n \in Names : HeadAt[n] \in Address /\ NameAt[n] \in Address
  BY VariablesAssumption, LayoutAssumption
<1>4. Top > 2
  BY <1>3 DEF Address, Word
<1>5. \A n \in Names : /\ 6 <= HeadAt[n] /\ HeadAt[n] < Low /\ 6 <= NameAt[n]
                       /\ NameAt[n] + 2 * Len(Tokens[n]) <= Low
  BY LayoutAssumption
<1> QED
  BY <1>1, <1>2, <1>3, <1>4, <1>5

LEMMA AddressFacts ==
  /\ \A a \in Address : a \in Nat /\ a < Top /\ a % 2 = 0
  /\ \A a \in Address, k \in Int : 0 <= a + 2 * k /\ a + 2 * k < Top => a + 2 * k \in Address
  /\ 0 \in Address
BY MemoryConstants DEF Address, Word

\* The registers wrap round at Top.
LEMMA WrapFacts ==
  /\ \A a \in Int : Wrap(a) \in Word
  /\ \A a \in Word : Wrap(a) = a
  /\ \A a \in Int : Top <= a /\ a < 2 * Top => Wrap(a) = a - Top
  /\ \A a \in Int : a < 0 => a + Top <= Wrap(a)
<1>1. \A a \in Int : Wrap(a) \in Word
  BY MemoryConstants DEF Wrap, Word
<1>2. ASSUME NEW a \in Int PROVE \E z \in Int : a = Top * z + Wrap(a)
  <2>1. a = Top * (a \div Top) + (a % Top) /\ a \div Top \in Int
    BY MemoryConstants
  <2> QED
    BY <2>1 DEF Wrap
<1>3. \A z \in Int : /\ z >= 2 => Top * z >= 2 * Top
                     /\ z <= -1 => Top * z <= -Top
                     /\ z = 0 => Top * z = 0
                     /\ z = 1 => Top * z = Top
                     /\ Top * z \in Int
  <2> SUFFICES ASSUME NEW z \in Int
               PROVE  /\ z >= 2 => Top * z >= 2 * Top
                      /\ z <= -1 => Top * z <= -Top
                      /\ z = 0 => Top * z = 0
                      /\ z = 1 => Top * z = Top
                      /\ Top * z \in Int
    OBVIOUS
  <2>1. Top * z = Top * (z - 2) + 2 * Top /\ Top * (z - 2) \in Int
    BY MemoryConstants
  <2>2. Top * z = -(Top * (-z - 1)) - Top /\ Top * (-z - 1) \in Int
    BY MemoryConstants
  <2>3. z >= 2 => Top * (z - 2) >= 0
    BY MemoryConstants
  <2>4. z <= -1 => Top * (-z - 1) >= 0
    BY MemoryConstants
  <2> QED
    BY MemoryConstants, <2>1, <2>2, <2>3, <2>4
<1>4. \A a \in Word : Wrap(a) = a
  <2> SUFFICES ASSUME NEW a \in Word PROVE Wrap(a) = a
    OBVIOUS
  <2>1. a \in Int
    BY DEF Word
  <2>2. PICK z \in Int : a = Top * z + Wrap(a)
    BY <1>2, <2>1
  <2>3. PICK p \in Int : /\ p = Top * z /\ (z >= 2 => p >= 2 * Top)
                         /\ (z <= -1 => p <= -Top) /\ (z = 0 => p = 0) /\ (z = 1 => p = Top)
    BY <1>3
  <2>4. Wrap(a) \in Word /\ a = p + Wrap(a)
    BY <1>1, <2>1, <2>2, <2>3
  <2> HIDE DEF Word
  <2>5. Wrap(a) \in Nat /\ Wrap(a) < Top /\ a \in Nat /\ a < Top
    BY <2>4, MemoryConstants DEF Word
  <2> QED
    BY <2>3, <2>4, <2>5, MemoryConstants
<1>5. ASSUME NEW a \in Int, Top <= a, a < 2 * Top PROVE Wrap(a) = a - Top
  <2>1. PICK z \in Int : a = Top * z + Wrap(a)
    BY <1>2
  <2>3. PICK p \in Int : /\ p = Top * z /\ (z >= 2 => p >= 2 * Top)
                         /\ (z <= -1 => p <= -Top) /\ (z = 0 => p = 0) /\ (z = 1 => p = Top)
    BY <1>3
  <2>4. Wrap(a) \in Nat /\ Wrap(a) < Top /\ a = p + Wrap(a)
    BY <1>1, <2>1, <2>3, MemoryConstants DEF Word
  <2> QED
    BY <1>5, <2>3, <2>4, MemoryConstants
<1>6. ASSUME NEW a \in Int, a < 0 PROVE a + Top <= Wrap(a)
  <2>1. PICK z \in Int : a = Top * z + Wrap(a)
    BY <1>2
  <2>2. PICK p \in Int : /\ p = Top * z /\ (z >= 2 => p >= 2 * Top)
                         /\ (z <= -1 => p <= -Top) /\ (z = 0 => p = 0) /\ (z = 1 => p = Top)
    BY <1>3
  <2>3. Wrap(a) \in Nat /\ a = p + Wrap(a)
    BY <1>1, <2>1, <2>2, MemoryConstants DEF Word
  <2> QED
    BY <1>6, <2>2, <2>3, MemoryConstants
<1> QED
  BY <1>1, <1>4, <1>5, <1>6

LEMMA MemoryNumbers ==
  /\ Top \in Nat /\ Low \in Nat /\ Low < Top
  /\ \A n \in Names : HeadAt[n] \in Nat /\ 6 <= HeadAt[n] /\ HeadAt[n] < Low /\ 6 < Low
BY MemoryConstants, AddressFacts

LEMMA NameLengths == \A n \in Names : Len(Tokens[n]) \in Nat
BY MemoryConstants

-----------------------------------------------------------------------------
(* What lies in the memory m up to lo.  The record of n is at rec[n], with its *)
(* typed name it ends at to[n]; the block of the array n is at blk[n] and ends *)
(* at upto[n]; 0 stands for none.                                              *)

SpansApart(lo, rec, to, blk, upto) ==
  /\ rec \in [Names -> Address] /\ to \in [Names -> Int]
  /\ blk \in [Names -> Address] /\ upto \in [Names -> Int]
  /\ lo \in Address /\ Low <= lo
  /\ \A n \in Names : rec[n] # 0 => Low <= rec[n] /\ rec[n] + 8 <= to[n] /\ to[n] <= lo
  /\ \A n \in Names : blk[n] # 0 =>
       /\ rec[n] # 0 /\ n \in Arrays
       /\ Low <= blk[n] /\ blk[n] + 6 <= upto[n] /\ upto[n] <= lo
  /\ \A n, k \in Names : n # k /\ rec[n] # 0 /\ rec[k] # 0 =>
       to[n] <= rec[k] \/ to[k] <= rec[n]
  /\ \A n, k \in Names : n # k /\ blk[n] # 0 /\ blk[k] # 0 =>
       upto[n] <= blk[k] \/ upto[k] <= blk[n]
  /\ \A n, k \in Names : rec[n] # 0 /\ blk[k] # 0 =>
       to[n] <= blk[k] \/ upto[k] <= rec[n]

\* The word at a is the highest record of the chain h below b.
Leads(m, rec, h, a, b) ==
  \/ m[a] = 0 /\ \A k \in Names : HeadAt[k] = h /\ rec[k] # 0 => b <= rec[k]
  \/ \E k \in Names :
       /\ HeadAt[k] = h /\ rec[k] # 0 /\ rec[k] < b /\ m[a] = rec[k]
       /\ \A j \in Names : HeadAt[j] = h /\ rec[j] # 0 => rec[j] <= rec[k] \/ b <= rec[j]

Chained(m, rec) ==
  \A n \in Names : /\ Leads(m, rec, HeadAt[n], HeadAt[n], Top)
                   /\ rec[n] # 0 => Leads(m, rec, HeadAt[n], rec[n], rec[n])

\* A record has the address of the name in the program or of its copy.
Labelled(m, rec, to) ==
  \A n \in Names :
    /\ \A i \in 1..Len(Tokens[n]) : m[NameAt[n] + 2 * (i - 1)] = Tokens[n][i]
    /\ rec[n] # 0 =>
         \/ m[rec[n] + 2] = NameAt[n]
         \/ /\ m[rec[n] + 2] = rec[n] + 8 /\ to[n] = rec[n] + 8 + 2 * Len(Tokens[n])
            /\ \A i \in 1..Len(Tokens[n]) : m[rec[n] + 8 + 2 * (i - 1)] = Tokens[n][i]

Blocked(m, rec, blk, upto) ==
  \A n \in Arrays : /\ rec[n] # 0 => m[rec[n] + 4] = blk[n]
                    /\ blk[n] # 0 => upto[n] = blk[n] + 4 * m[blk[n]] + 6

Placed(m, lo, rec, to, blk, upto) ==
  /\ m \in [Address -> Nat] /\ m[0] = 0
  /\ SpansApart(lo, rec, to, blk, upto)
  /\ Chained(m, rec) /\ Labelled(m, rec, to) /\ Blocked(m, rec, blk, upto)

-----------------------------------------------------------------------------
(* Finding a variable. *)

LEMMA TurnsExist ==
  ASSUME NEW m, NEW n
  PROVE  \A t \in 0..Top, a \in Address :
           RecordFrom(m, n)[t][a] =
             IF t = 0 \/ m[a] = 0 THEN 0
             ELSE IF Named(m, m[a], n) THEN m[a]
             ELSE RecordFrom(m, n)[t - 1][m[a]]
<1> DEFINE Turn(t, a, y) == IF t = 0 \/ m[a] = 0 THEN 0
                            ELSE IF Named(m, m[a], n) THEN m[a] ELSE y
           Solves(k, f) == f = [t \in 0..k |-> [a \in Address |-> Turn(t, a, f[t - 1][m[a]])]]
           Wrong == {k \in 1..Top : ~ \E f : Solves(k, f)}
<1>1. \E f : Solves(0, f)
  <2> DEFINE f == [t \in 0..0 |-> [a \in Address |-> 0]]
  <2>1. \A t \in 0..0 : [a \in Address |-> Turn(t, a, f[t - 1][m[a]])] = [a \in Address |-> 0]
    OBVIOUS
  <2>2. Solves(0, f)
    BY <2>1
  <2> QED
    BY <2>2
<1>2. \E f : Solves(Top, f)
  <2> SUFFICES ASSUME ~ \E f : Solves(Top, f) PROVE FALSE
    OBVIOUS
  <2>1. PICK k \in Wrong : \A j \in Wrong : k <= j
    <3>1. Top \in Wrong
      BY MemoryConstants
    <3>2. Wrong \in SUBSET (1..Top) /\ Wrong # {}
      BY <3>1
    <3> HIDE DEF Wrong
    <3> QED
      BY <3>2, LeastExists, MemoryConstants
  <2>2. k \in 1..Top /\ ~ \E f : Solves(k, f)
    BY <2>1
  <2>3. PICK f : Solves(k - 1, f)
    <3>1. CASE k = 1
      BY <1>1, <3>1
    <3>2. CASE k # 1
      <4>1. k - 1 \in 1..Top /\ k - 1 \notin Wrong
        <5> HIDE DEF Wrong, Solves
        <5> QED
          BY <2>1, <2>2, <3>2, MemoryConstants
      <4> HIDE DEF Solves
      <4> QED
        BY <4>1
    <3> QED
      BY <3>1, <3>2
  <2> HIDE DEF Wrong
  <2> DEFINE last == [a \in Address |-> Turn(k, a, f[k - 1][m[a]])]
             h == [t \in 0..k |-> IF t = k THEN last ELSE f[t]]
  <2>4. ASSUME NEW t \in 0..k
        PROVE  h[t] = [a \in Address |-> Turn(t, a, h[t - 1][m[a]])]
    <3>1. CASE t = k
      <4>1. h[t - 1] = f[k - 1] /\ h[t] = last
        BY <2>2, <3>1, MemoryConstants
      <4> HIDE DEF h
      <4> QED
        BY <3>1, <4>1
    <3>2. CASE t # k
      <4>1. t \in 0..(k - 1) /\ h[t] = f[t]
        BY <2>2, <3>2, MemoryConstants
      <4>2. f[t] = [a \in Address |-> Turn(t, a, f[t - 1][m[a]])]
        BY <2>3, <4>1
      <4>3. t # 0 => h[t - 1] = f[t - 1]
        BY <2>2, <3>2, MemoryConstants
      <4>4. \A a \in Address : Turn(t, a, h[t - 1][m[a]]) = Turn(t, a, f[t - 1][m[a]])
        <5> HIDE DEF h
        <5> QED
          BY <4>3
      <4> HIDE DEF h, Turn
      <4> QED
        BY <4>1, <4>2, <4>4
    <3> QED
      BY <3>1, <3>2
  <2>5. h = [t \in 0..k |-> h[t]]
    OBVIOUS
  <2>6. Solves(k, h)
    <3> HIDE DEF h, Turn
    <3> QED
      BY <2>4, <2>5
  <2> QED
    BY <2>2, <2>6
<1>3. Solves(Top, RecordFrom(m, n))
  <2>1. RecordFrom(m, n) = CHOOSE f : Solves(Top, f)
    BY DEF RecordFrom
  <2> HIDE DEF Solves
  <2> QED
    BY <1>2, <2>1
<1>4. ASSUME NEW f, Solves(Top, f), NEW t \in 0..Top, NEW a \in Address
      PROVE  f[t][a] = Turn(t, a, f[t - 1][m[a]])
  <2>1. f[t] = [b \in Address |-> Turn(t, b, f[t - 1][m[b]])]
    BY <1>4
  <2> HIDE DEF Turn, Solves
  <2> QED
    BY <2>1
<1>5. \A t \in 0..Top, a \in Address :
        RecordFrom(m, n)[t][a] = Turn(t, a, RecordFrom(m, n)[t - 1][m[a]])
  <2> HIDE DEF Turn, Solves
  <2> QED
    BY <1>3, <1>4
<1> QED
  BY <1>5

\* The words of a name tell it from every other.
LEMMA NamedFacts ==
  ASSUME NEW m, NEW lo, NEW rec, NEW to, NEW blk, NEW upto, Placed(m, lo, rec, to, blk, upto),
         NEW k \in Names, rec[k] # 0, NEW n \in Names
  PROVE  Named(m, rec[k], n) <=> k = n
<1>1. PICK a \in Nat : /\ m[rec[k] + 2] = a /\ a + 2 * Len(Tokens[k]) < Top
                       /\ \A i \in 1..Len(Tokens[k]) : m[a + 2 * (i - 1)] = Tokens[k][i]
  <2>1. rec[k] \in Address /\ rec[k] + 8 <= to[k] /\ to[k] <= lo /\ lo \in Address
        /\ to[k] \in Int
    BY DEF Placed, SpansApart
  <2>2. CASE m[rec[k] + 2] = NameAt[k]
    <3>1. \A i \in 1..Len(Tokens[k]) : m[NameAt[k] + 2 * (i - 1)] = Tokens[k][i]
      BY DEF Placed, Labelled
    <3>2. NameAt[k] \in Nat /\ NameAt[k] + 2 * Len(Tokens[k]) < Top
      BY MemoryConstants, AddressFacts
    <3> QED
      BY <2>2, <3>1, <3>2
  <2>3. CASE /\ m[rec[k] + 2] = rec[k] + 8 /\ to[k] = rec[k] + 8 + 2 * Len(Tokens[k])
             /\ \A i \in 1..Len(Tokens[k]) : m[rec[k] + 8 + 2 * (i - 1)] = Tokens[k][i]
    <3>1. rec[k] + 8 \in Nat /\ (rec[k] + 8) + 2 * Len(Tokens[k]) < Top
      <4>1. PICK l \in Nat : l = Len(Tokens[k])
        BY MemoryConstants
      <4>2. rec[k] \in Nat /\ lo \in Nat /\ lo < Top /\ to[k] = rec[k] + 8 + 2 * l
        BY <2>1, <2>3, <4>1, AddressFacts
      <4>3. Top \in Nat
        BY MemoryConstants
      <4>4. rec[k] + 8 + 2 * l < Top
        BY <2>1, <4>1, <4>2, <4>3
      <4> QED
        BY <4>1, <4>2, <4>4
    <3>2. PICK b \in Nat : b = rec[k] + 8
      BY <3>1
    <3>3. /\ m[rec[k] + 2] = b /\ b + 2 * Len(Tokens[k]) < Top
          /\ \A i \in 1..Len(Tokens[k]) : m[b + 2 * (i - 1)] = Tokens[k][i]
      BY <2>3, <3>1, <3>2
    <3> QED
      BY <3>3
  <2> QED
    BY <2>2, <2>3 DEF Placed, Labelled
<1>2. \A i \in 1..Len(Tokens[k]) : Wrap(a + 2 * (i - 1)) = a + 2 * (i - 1)
  <2> SUFFICES ASSUME NEW i \in 1..Len(Tokens[k]) PROVE Wrap(a + 2 * (i - 1)) = a + 2 * (i - 1)
    OBVIOUS
  <2>1. a + 2 * (i - 1) \in Word
    BY <1>1, MemoryConstants DEF Word
  <2> QED
    BY <2>1, WrapFacts
<1>3. k = n => Named(m, rec[k], n)
  BY <1>1, <1>2 DEF Named
<1>4. ASSUME k # n, Named(m, rec[k], n) PROVE FALSE
  <2>1. PICK i \in 1..Len(Tokens[n]) : i <= Len(Tokens[k]) /\ Tokens[n][i] # Tokens[k][i]
    BY <1>4, LayoutAssumption
  <2>2. i \in 1..Len(Tokens[k])
    BY <2>1, MemoryConstants
  <2>3. m[Wrap(a + 2 * (i - 1))] = Tokens[n][i]
    BY <1>1, <1>4 DEF Named
  <2> QED
    BY <1>1, <1>2, <2>1, <2>2, <2>3
<1> QED
  BY <1>3, <1>4

\* What the search finds is what lies there.
LEMMA Found ==
  ASSUME NEW m, NEW lo, NEW rec, NEW to, NEW blk, NEW upto, Placed(m, lo, rec, to, blk, upto),
         NEW n \in Names
  PROVE  FindIn(m, n) = rec[n]
<1> DEFINE R == RecordFrom(m, n)
           Is(b) == IF rec[n] # 0 /\ rec[n] < b THEN rec[n] ELSE 0
           Claim(t) == \A a \in Address, b \in 0..t : Leads(m, rec, HeadAt[n], a, b) => R[t][a] = Is(b)
           Wrong == {t \in 1..Top : ~ Claim(t)}
<1>1. Top \in Nat /\ \A k \in Names : rec[k] \in Address /\ rec[k] \in Nat /\ rec[k] < Top
  BY MemoryConstants, AddressFacts DEF Placed, SpansApart
<1>2. \A t \in 0..Top, a \in Address :
        R[t][a] = IF t = 0 \/ m[a] = 0 THEN 0
                  ELSE IF Named(m, m[a], n) THEN m[a] ELSE R[t - 1][m[a]]
  BY TurnsExist
<1> HIDE DEF R
<1>3. Claim(0)
  <2> SUFFICES ASSUME NEW a \in Address PROVE R[0][a] = Is(0)
    OBVIOUS
  <2>1. R[0][a] = 0
    BY <1>1, <1>2
  <2> QED
    BY <1>1, <2>1
<1>4. ASSUME NEW t \in 1..Top, Claim(t - 1) PROVE Claim(t)
  <2> SUFFICES ASSUME NEW a \in Address, NEW b \in 0..t, Leads(m, rec, HeadAt[n], a, b)
               PROVE  R[t][a] = Is(b)
    OBVIOUS
  <2>1. R[t][a] = IF m[a] = 0 THEN 0
                  ELSE IF Named(m, m[a], n) THEN m[a] ELSE R[t - 1][m[a]]
    <3>1. t \in 0..Top /\ t # 0
      BY <1>1
    <3> QED
      BY <1>2, <3>1
  <2>2. CASE m[a] = 0 /\ \A k \in Names : HeadAt[k] = HeadAt[n] /\ rec[k] # 0 => b <= rec[k]
    <3>1. rec[n] # 0 => ~(rec[n] < b)
      BY <1>1, <2>2
    <3> QED
      BY <2>1, <2>2, <3>1
  <2>3. ASSUME NEW k \in Names, HeadAt[k] = HeadAt[n], rec[k] # 0, rec[k] < b, m[a] = rec[k],
               \A j \in Names : HeadAt[j] = HeadAt[n] /\ rec[j] # 0 => rec[j] <= rec[k] \/ b <= rec[j]
        PROVE  R[t][a] = Is(b)
    <3>1. Named(m, rec[k], n) <=> k = n
      BY <2>3, NamedFacts
    <3>2. CASE k = n
      BY <2>1, <2>3, <3>1, <3>2
    <3>3. CASE k # n
      <4>1. R[t][a] = R[t - 1][rec[k]]
        BY <2>1, <2>3, <3>1, <3>3
      <4>2. Leads(m, rec, HeadAt[n], rec[k], rec[k])
        BY <2>3 DEF Placed, Chained
      <4>3. rec[k] \in 0..(t - 1) /\ rec[k] \in Address
        BY <1>1, <2>3
      <4>4. R[t - 1][rec[k]] = Is(rec[k])
        BY <1>4, <4>2, <4>3
      <4>5. rec[n] # 0 => rec[n] < rec[k] \/ b <= rec[n]
        <5>1. rec[n] # 0 => rec[n] # rec[k]
          <6>1. rec[n] # 0 => /\ to[n] \in Int /\ to[k] \in Int
                              /\ rec[n] + 8 <= to[n] /\ rec[k] + 8 <= to[k]
                              /\ to[n] <= rec[k] \/ to[k] <= rec[n]
            BY <2>3, <3>3 DEF Placed, SpansApart
          <6> QED
            BY <1>1, <6>1
        <5>2. rec[n] # 0 => rec[n] <= rec[k] \/ b <= rec[n]
          BY <2>3
        <5> QED
          BY <1>1, <5>1, <5>2
      <4>6. Is(rec[k]) = Is(b)
        BY <1>1, <2>3, <4>5
      <4> QED
        BY <4>1, <4>4, <4>6
    <3> QED
      BY <3>2, <3>3
  <2> QED
    BY <2>2, <2>3 DEF Leads
<1>5. Claim(Top)
  <2> SUFFICES ASSUME ~ Claim(Top) PROVE FALSE
    OBVIOUS
  <2> HIDE DEF Claim
  <2>1. Top \in 1..Top
    BY MemoryConstants
  <2>2. Wrong \in SUBSET (1..Top) /\ Wrong # {}
    BY <2>1
  <2>3. PICK t \in Wrong : \A j \in Wrong : t <= j
    <3> HIDE DEF Wrong
    <3> QED
      BY <1>1, <2>2, LeastExists
  <2>4. t \in 1..Top /\ ~ Claim(t)
    OBVIOUS
  <2>5. CASE t = 1
    BY <1>3, <1>4, <2>4, <2>5
  <2>6. CASE t # 1
    <3>1. t - 1 \in 1..Top /\ t - 1 \notin Wrong
      <4> HIDE DEF Wrong
      <4> QED
        BY <1>1, <2>3, <2>4, <2>6
    <3>2. Claim(t - 1)
      BY <3>1
    <3> QED
      BY <1>4, <2>4, <3>2
  <2> QED
    BY <2>5, <2>6
<1>6. R[Top][HeadAt[n]] = Is(Top)
  <2>1. Leads(m, rec, HeadAt[n], HeadAt[n], Top) /\ HeadAt[n] \in Address
    BY MemoryConstants DEF Placed, Chained
  <2>2. Top \in 0..Top
    BY <1>1
  <2> QED
    BY <1>5, <2>1, <2>2
<1>7. FindIn(m, n) = R[Top][HeadAt[n]]
  BY DEF FindIn, R
<1> QED
  BY <1>1, <1>6, <1>7

-----------------------------------------------------------------------------
(* What lies in the memory is tiled. *)

\* The areas of n: its record, its name in the program or behind the record,
\* its block.
IsRecord(p, rec, n) == p.from = rec[n] /\ p.to = rec[n] + 8 /\ p = RecordArea(n)
IsLabel(p, n) ==
  p.from = NameAt[n] /\ p.to = NameAt[n] + 2 * Len(Tokens[n]) /\ p = NameArea(n)
IsCopy(p, rec, to, n) == p.from = rec[n] + 8 /\ p.to = to[n] /\ p = NameArea(n)
IsBlock(p, blk, upto, n) ==
  blk[n] # 0 /\ p.from = blk[n] /\ p.to = upto[n] /\ p = BlockArea(n)

LEMMA AreaKinds ==
  ASSUME NEW rec, NEW to, NEW blk, NEW upto, Placed(mem, low, rec, to, blk, upto),
         NEW n \in Live, NEW p \in AreasOf(n)
  PROVE  /\ n \in Names /\ rec[n] # 0
         /\ IsRecord(p, rec, n) \/ IsLabel(p, n) \/ IsCopy(p, rec, to, n) \/ IsBlock(p, blk, upto, n)
<1>1. n \in Names /\ Find(n) = rec[n] /\ rec[n] # 0
  BY Found DEF Live, Find
<1>2. CASE p = RecordArea(n)
  BY <1>1, <1>2 DEF RecordArea, Area, IsRecord
<1>3. CASE p = NameArea(n)
  <2>1. p.from = mem[rec[n] + 2] /\ p.to = mem[rec[n] + 2] + 2 * Len(Tokens[n])
    BY <1>1, <1>3 DEF NameArea, Area
  <2>2. \/ mem[rec[n] + 2] = NameAt[n]
        \/ mem[rec[n] + 2] = rec[n] + 8 /\ to[n] = rec[n] + 8 + 2 * Len(Tokens[n])
    BY <1>1 DEF Placed, Labelled
  <2>3. CASE mem[rec[n] + 2] = NameAt[n]
    BY <1>1, <1>3, <2>1, <2>3 DEF IsLabel
  <2>4. CASE mem[rec[n] + 2] = rec[n] + 8 /\ to[n] = rec[n] + 8 + 2 * Len(Tokens[n])
    BY <1>1, <1>3, <2>1, <2>4 DEF IsCopy
  <2> QED
    BY <2>2, <2>3, <2>4
<1>4. CASE HasBlock(n) /\ p = BlockArea(n)
  <2>1. n \in Arrays /\ Block(n) # 0 /\ Block(n) = blk[n]
    BY <1>1, <1>4 DEF HasBlock, Block, Placed, Blocked
  <2>2. upto[n] = blk[n] + 4 * mem[blk[n]] + 6
    BY <2>1 DEF Placed, Blocked
  <2>3. blk[n] \in Address /\ mem \in [Address -> Nat]
    BY <1>1 DEF Placed, SpansApart
  <2>4. p.from = blk[n] /\ p.to = blk[n] + (4 * mem[blk[n]] + 6)
    BY <1>4, <2>1 DEF BlockArea, Area, HighSubscript
  <2>5. PICK h \in Nat : h = mem[blk[n]]
    BY <2>3
  <2>6. blk[n] + (4 * h + 6) = blk[n] + 4 * h + 6
    BY <2>3, AddressFacts
  <2>7. p.to = upto[n]
    BY <2>2, <2>4, <2>5, <2>6, Zenon
  <2>8. blk[n] # 0 /\ p.from = blk[n] /\ p = BlockArea(n)
    BY <1>4, <2>1, <2>4, Zenon
  <2> QED
    BY <1>1, <2>7, <2>8 DEF IsBlock
<1> QED
  BY <1>1, <1>2, <1>3, <1>4 DEF AreasOf

LEMMA PlacedIsTiled ==
  ASSUME NEW rec, NEW to, NEW blk, NEW upto, Placed(mem, low, rec, to, blk, upto)
  PROVE  StoreTiled
<1>1. /\ Low \in Nat /\ low \in Nat /\ Low <= low
      /\ \A n \in Names : rec[n] \in Nat /\ to[n] \in Int /\ blk[n] \in Nat /\ upto[n] \in Int
  BY MemoryConstants, AddressFacts DEF Placed, SpansApart
<1>2. \A n \in Names : rec[n] # 0 => Low <= rec[n] /\ rec[n] + 8 <= to[n] /\ to[n] <= low
  BY DEF Placed, SpansApart
<1>3. \A n \in Names : blk[n] # 0 => Low <= blk[n] /\ blk[n] + 6 <= upto[n] /\ upto[n] <= low
  BY DEF Placed, SpansApart
<1>4. \A n \in Names : /\ NameAt[n] \in Nat /\ Len(Tokens[n]) \in Nat
                       /\ NameAt[n] + 2 * Len(Tokens[n]) <= Low
  BY MemoryConstants, AddressFacts
<1>5. ASSUME NEW n \in Live, NEW p \in AreasOf(n)
      PROVE  p.to <= low /\ (p # NameArea(n) => p.from >= Low)
  <2>1. n \in Names /\ rec[n] # 0
    BY <1>5, AreaKinds
  <2>2. CASE IsRecord(p, rec, n)
    BY <1>1, <1>2, <2>1, <2>2 DEF IsRecord
  <2>3. CASE IsLabel(p, n)
    BY <1>1, <1>4, <2>1, <2>3 DEF IsLabel
  <2>4. CASE IsCopy(p, rec, to, n)
    BY <1>1, <1>2, <2>1, <2>4 DEF IsCopy
  <2>5. CASE IsBlock(p, blk, upto, n)
    BY <1>1, <1>3, <2>1, <2>5 DEF IsBlock
  <2> QED
    BY <1>5, <2>2, <2>3, <2>4, <2>5, AreaKinds
<1>6. ASSUME NEW n \in Live, NEW k \in Live, NEW p \in AreasOf(n), NEW q \in AreasOf(k)
      PROVE  (p = q /\ k = n) \/ Apart(p, q)
  <2>1. n \in Names /\ rec[n] # 0 /\ k \in Names /\ rec[k] # 0
    BY <1>6, AreaKinds
  <2> DEFINE Inner(r, j) == \/ IsRecord(r, rec, j) \/ IsCopy(r, rec, to, j)
                            \/ IsBlock(r, blk, upto, j)
  <2>2. \A r, j : j \in Names /\ rec[j] # 0 /\ Inner(r, j) => r.from >= Low /\ r.from \in Int
    BY <1>1, <1>2, <1>3 DEF IsRecord, IsCopy, IsBlock
  <2>3. \A r, j : j \in Names /\ IsLabel(r, j) => r.to <= Low /\ r.to \in Int
    BY <1>1, <1>4 DEF IsLabel
  <2>4. CASE IsLabel(p, n) /\ IsLabel(q, k)
    <3>1. n # k => \/ NameAt[n] + 2 * Len(Tokens[n]) <= NameAt[k]
                   \/ NameAt[k] + 2 * Len(Tokens[k]) <= NameAt[n]
      BY <2>1, LayoutAssumption
    <3> QED
      BY <2>4, <3>1 DEF IsLabel, Apart
  <2>5. CASE IsLabel(p, n) /\ Inner(q, k)
    <3>1. p.to <= Low /\ p.to \in Int /\ q.from >= Low /\ q.from \in Int
      BY <2>1, <2>2, <2>3, <2>5
    <3> QED
      BY <1>1, <3>1 DEF Apart
  <2>6. CASE Inner(p, n) /\ IsLabel(q, k)
    <3>1. q.to <= Low /\ q.to \in Int /\ p.from >= Low /\ p.from \in Int
      BY <2>1, <2>2, <2>3, <2>6
    <3> QED
      BY <1>1, <3>1 DEF Apart
  <2>7. CASE Inner(p, n) /\ Inner(q, k)
    <3>1. n # k => to[n] <= rec[k] \/ to[k] <= rec[n]
      BY <2>1 DEF Placed, SpansApart
    <3>2. blk[n] # 0 /\ blk[k] # 0 /\ n # k => upto[n] <= blk[k] \/ upto[k] <= blk[n]
      BY <2>1 DEF Placed, SpansApart
    <3>3. /\ blk[k] # 0 => to[n] <= blk[k] \/ upto[k] <= rec[n]
          /\ blk[n] # 0 => to[k] <= blk[n] \/ upto[n] <= rec[k]
      BY <2>1 DEF Placed, SpansApart
    <3>4. CASE IsBlock(p, blk, upto, n) /\ IsBlock(q, blk, upto, k)
      BY <1>1, <1>3, <2>1, <3>2, <3>4 DEF IsBlock, Apart
    <3>5. CASE IsBlock(p, blk, upto, n) /\ ~IsBlock(q, blk, upto, k)
      BY <1>1, <1>2, <1>3, <2>1, <2>7, <3>3, <3>5 DEF IsBlock, IsRecord, IsCopy, Apart
    <3>6. CASE ~IsBlock(p, blk, upto, n) /\ IsBlock(q, blk, upto, k)
      BY <1>1, <1>2, <1>3, <2>1, <2>7, <3>3, <3>6 DEF IsBlock, IsRecord, IsCopy, Apart
    <3>7. CASE ~IsBlock(p, blk, upto, n) /\ ~IsBlock(q, blk, upto, k)
      BY <1>1, <1>2, <2>1, <2>7, <3>1, <3>7 DEF IsRecord, IsCopy, Apart
    <3> QED
      BY <3>4, <3>5, <3>6, <3>7
  <2>8. IsLabel(p, n) \/ Inner(p, n)
    BY <1>6, AreaKinds
  <2>9. IsLabel(q, k) \/ Inner(q, k)
    BY <1>6, AreaKinds
  <2> QED
    BY <2>4, <2>5, <2>6, <2>7, <2>8, <2>9
<1>7. \A n \in Live : NameArea(n) \in AreasOf(n)
  BY DEF AreasOf
<1> QED
  BY <1>5, <1>6 DEF StoreTiled

-----------------------------------------------------------------------------
(* Words of names and records. *)

LEMMA NameWordAddress ==
  \A k \in Names : \A i \in 1..Len(Tokens[k]) :
    /\ NameAt[k] + 2 * (i - 1) \in Address /\ NameAt[k] + 2 * (i - 1) \in Nat
    /\ NameAt[k] + 2 * (i - 1) < Low /\ NameAt[k] + 2 * (i - 1) >= 6
<1> SUFFICES ASSUME NEW k \in Names, NEW i \in 1..Len(Tokens[k])
             PROVE  /\ NameAt[k] + 2 * (i - 1) \in Address /\ NameAt[k] + 2 * (i - 1) \in Nat
                    /\ NameAt[k] + 2 * (i - 1) < Low /\ NameAt[k] + 2 * (i - 1) >= 6
  OBVIOUS
<1>1. NameAt[k] \in Address /\ NameAt[k] \in Nat /\ 6 <= NameAt[k]
  BY MemoryConstants, AddressFacts
<1>2. PICK l \in Nat : l = Len(Tokens[k])
  BY MemoryConstants
<1>3. NameAt[k] + 2 * l <= Low /\ i \in 1..l /\ Low \in Nat /\ Low < Top
  BY <1>2, MemoryConstants, AddressFacts
<1>4. NameAt[k] + 2 * (i - 1) < Low
  BY <1>1, <1>2, <1>3
<1>5. i - 1 \in Int /\ 0 <= NameAt[k] + 2 * (i - 1) /\ NameAt[k] + 2 * (i - 1) < Top
  <2>1. Top \in Nat
    BY MemoryConstants
  <2> QED
    BY <1>1, <1>2, <1>3, <1>4, <2>1
<1>6. NameAt[k] + 2 * (i - 1) \in Address
  BY <1>1, <1>5, AddressFacts
<1> QED
  BY <1>1, <1>3, <1>4, <1>6, AddressFacts

\* The words of a record are addresses behind the hash heads.
LEMMA RecordAddress ==
  ASSUME NEW lo, NEW rec, NEW to, NEW blk, NEW upto, SpansApart(lo, rec, to, blk, upto),
         NEW k \in Names, rec[k] # 0, NEW n \in Names
  PROVE  /\ rec[k] \in Nat
         /\ rec[k] \in Address /\ rec[k] < lo /\ rec[k] # HeadAt[n]
         /\ rec[k] + 2 \in Address /\ rec[k] + 2 < lo /\ rec[k] + 2 # HeadAt[n]
         /\ rec[k] + 4 \in Address /\ rec[k] + 4 < lo /\ rec[k] + 4 # HeadAt[n]
         /\ rec[k] + 6 \in Address /\ rec[k] + 6 < lo
<1>1. /\ rec[k] \in Address /\ lo \in Address /\ to[k] \in Int
      /\ Low <= rec[k] /\ rec[k] + 8 <= to[k] /\ to[k] <= lo
  BY DEF SpansApart
<1>2. rec[k] \in Nat /\ lo \in Nat /\ lo < Top /\ Top \in Nat /\ Low \in Nat
  BY <1>1, MemoryConstants, AddressFacts
<1>3. HeadAt[n] \in Nat /\ HeadAt[n] < Low
  BY MemoryConstants, AddressFacts
<1>4. rec[k] + 8 <= lo
  BY <1>1, <1>2
<1>5. rec[k] + 2 * 1 \in Address /\ rec[k] + 2 * 2 \in Address /\ rec[k] + 2 * 3 \in Address
  <2>1. \A d \in Int : 0 <= d /\ d <= 3 => 0 <= rec[k] + 2 * d /\ rec[k] + 2 * d < Top
    BY <1>2, <1>4
  <2>2. \A d \in Int : 0 <= d /\ d <= 3 => rec[k] + 2 * d \in Address
    BY <1>1, <2>1, AddressFacts
  <2> QED
    BY <2>2
<1>6. rec[k] + 2 * 1 = rec[k] + 2 /\ rec[k] + 2 * 2 = rec[k] + 4 /\ rec[k] + 2 * 3 = rec[k] + 6
  BY <1>2
<1>7. rec[k] + 2 \in Address /\ rec[k] + 4 \in Address /\ rec[k] + 6 \in Address
  BY <1>5, <1>6
<1> QED
  BY <1>1, <1>2, <1>3, <1>4, <1>7

LEMMA CopyAddress ==
  ASSUME NEW lo, NEW rec, NEW to, NEW blk, NEW upto, SpansApart(lo, rec, to, blk, upto),
         NEW k \in Names, rec[k] # 0, to[k] = rec[k] + 8 + 2 * Len(Tokens[k]),
         NEW i \in 1..Len(Tokens[k]), NEW n \in Names
  PROVE  /\ rec[k] + 8 + 2 * (i - 1) \in Address /\ rec[k] + 8 + 2 * (i - 1) \in Nat
         /\ rec[k] + 8 + 2 * (i - 1) < lo /\ rec[k] + 8 + 2 * (i - 1) # HeadAt[n]
         /\ rec[k] + 8 <= rec[k] + 8 + 2 * (i - 1) /\ rec[k] + 8 + 2 * (i - 1) + 2 <= to[k]
<1>1. /\ rec[k] \in Address /\ lo \in Address /\ to[k] \in Int
      /\ Low <= rec[k] /\ rec[k] + 8 <= to[k] /\ to[k] <= lo
  BY DEF SpansApart
<1>2. rec[k] \in Nat /\ lo \in Nat /\ lo < Top /\ Top \in Nat /\ Low \in Nat
  BY <1>1, MemoryConstants, AddressFacts
<1>3. HeadAt[n] \in Nat /\ HeadAt[n] < Low
  BY MemoryConstants, AddressFacts
<1>4. PICK l \in Nat : l = Len(Tokens[k])
  BY MemoryConstants
<1>5. i \in 1..l /\ to[k] = rec[k] + 8 + 2 * l
  BY <1>4
<1>6. PICK d \in Nat : d = i - 1 /\ d + 1 <= l
  BY <1>4, <1>5
<1>7. rec[k] + 8 + 2 * d + 2 <= to[k] /\ rec[k] + 8 + 2 * d < lo
  <2>1. 2 * d + 2 <= 2 * l
    BY <1>4, <1>6
  <2>2. rec[k] + 8 + 2 * d + 2 <= to[k]
    BY <1>2, <1>4, <1>5, <1>6, <2>1
  <2>3. to[k] \in Nat
    BY <1>1, <1>2
  <2> QED
    BY <1>1, <1>2, <1>6, <2>2, <2>3
<1>8. rec[k] + 8 + 2 * d = rec[k] + 2 * (d + 4) /\ d + 4 \in Int
  BY <1>2, <1>6
<1>9. rec[k] + 2 * (d + 4) \in Address
  <2>1. 0 <= rec[k] + 2 * (d + 4) /\ rec[k] + 2 * (d + 4) < Top
    BY <1>2, <1>6, <1>7, <1>8
  <2> QED
    BY <1>1, <1>8, <2>1, AddressFacts
<1>10. rec[k] + 8 + 2 * d # HeadAt[n] /\ rec[k] + 8 <= rec[k] + 8 + 2 * d
  BY <1>1, <1>2, <1>3, <1>6
<1> QED
  BY <1>2, <1>6, <1>7, <1>8, <1>9, <1>10

-----------------------------------------------------------------------------
(* Writing to the memory. *)

\* What a step may leave as it is.
LEMMA LeadsAlike ==
  ASSUME NEW m, NEW m2, NEW rec, NEW h, NEW a, NEW b, m2[a] = m[a], Leads(m, rec, h, a, b)
  PROVE  Leads(m2, rec, h, a, b)
BY DEF Leads

\* The words that chains and names are found by are the same.
SameChains(m, m2, rec, to) ==
  /\ m2[0] = m[0]
  /\ \A n \in Names : m2[HeadAt[n]] = m[HeadAt[n]]
  /\ \A n \in Names : \A i \in 1..Len(Tokens[n]) :
       m2[NameAt[n] + 2 * (i - 1)] = m[NameAt[n] + 2 * (i - 1)]
  /\ \A n \in Names : rec[n] # 0 =>
       /\ m2[rec[n]] = m[rec[n]] /\ m2[rec[n] + 2] = m[rec[n] + 2]
       /\ to[n] = rec[n] + 8 + 2 * Len(Tokens[n]) =>
            \A i \in 1..Len(Tokens[n]) :
              m2[rec[n] + 8 + 2 * (i - 1)] = m[rec[n] + 8 + 2 * (i - 1)]

LEMMA ChainsStay ==
  ASSUME NEW m, NEW m2, NEW rec, NEW to, Chained(m, rec), Labelled(m, rec, to),
         SameChains(m, m2, rec, to)
  PROVE  Chained(m2, rec) /\ Labelled(m2, rec, to)
<1>1. Chained(m2, rec)
  <2> SUFFICES ASSUME NEW n \in Names
               PROVE  /\ Leads(m2, rec, HeadAt[n], HeadAt[n], Top)
                      /\ rec[n] # 0 => Leads(m2, rec, HeadAt[n], rec[n], rec[n])
    BY DEF Chained
  <2>1. /\ Leads(m, rec, HeadAt[n], HeadAt[n], Top)
        /\ rec[n] # 0 => Leads(m, rec, HeadAt[n], rec[n], rec[n])
    BY DEF Chained
  <2>2. m2[HeadAt[n]] = m[HeadAt[n]] /\ (rec[n] # 0 => m2[rec[n]] = m[rec[n]])
    BY DEF SameChains
  <2> QED
    BY <2>1, <2>2, LeadsAlike
<1>2. Labelled(m2, rec, to)
  <2> SUFFICES ASSUME NEW n \in Names
               PROVE  /\ \A i \in 1..Len(Tokens[n]) : m2[NameAt[n] + 2 * (i - 1)] = Tokens[n][i]
                      /\ rec[n] # 0 =>
                           \/ m2[rec[n] + 2] = NameAt[n]
                           \/ /\ m2[rec[n] + 2] = rec[n] + 8
                              /\ to[n] = rec[n] + 8 + 2 * Len(Tokens[n])
                              /\ \A i \in 1..Len(Tokens[n]) :
                                   m2[rec[n] + 8 + 2 * (i - 1)] = Tokens[n][i]
    BY DEF Labelled
  <2>1. \A i \in 1..Len(Tokens[n]) : m2[NameAt[n] + 2 * (i - 1)] = Tokens[n][i]
    BY DEF Labelled, SameChains
  <2>2. ASSUME rec[n] # 0
        PROVE  \/ m2[rec[n] + 2] = NameAt[n]
               \/ /\ m2[rec[n] + 2] = rec[n] + 8
                  /\ to[n] = rec[n] + 8 + 2 * Len(Tokens[n])
                  /\ \A i \in 1..Len(Tokens[n]) :
                       m2[rec[n] + 8 + 2 * (i - 1)] = Tokens[n][i]
    <3>1. m2[rec[n] + 2] = m[rec[n] + 2]
      BY <2>2 DEF SameChains
    <3>2. CASE m[rec[n] + 2] = NameAt[n]
      BY <3>1, <3>2
    <3>3. CASE /\ m[rec[n] + 2] = rec[n] + 8
               /\ to[n] = rec[n] + 8 + 2 * Len(Tokens[n])
               /\ \A i \in 1..Len(Tokens[n]) :
                    m[rec[n] + 8 + 2 * (i - 1)] = Tokens[n][i]
      <4>1. \A i \in 1..Len(Tokens[n]) :
              m2[rec[n] + 8 + 2 * (i - 1)] = m[rec[n] + 8 + 2 * (i - 1)]
        BY <2>2, <3>3 DEF SameChains
      <4> QED
        BY <3>1, <3>3, <4>1
    <3> QED
      BY <2>2, <3>2, <3>3 DEF Labelled
  <2> QED
    BY <2>1, <2>2
<1> QED
  BY <1>1, <1>2

LEMMA StaysPlaced ==
  ASSUME NEW m, NEW m2 \in [Address -> Nat], NEW lo, NEW lo2 \in Address,
         NEW rec, NEW to, NEW blk, NEW upto, Placed(m, lo, rec, to, blk, upto),
         lo <= lo2, SameChains(m, m2, rec, to),
         \A n \in Arrays : /\ rec[n] # 0 => m2[rec[n] + 4] = m[rec[n] + 4]
                           /\ blk[n] # 0 => m2[blk[n]] = m[blk[n]]
  PROVE  Placed(m2, lo2, rec, to, blk, upto)
<1>1. m2 \in [Address -> Nat] /\ m2[0] = 0
  BY DEF Placed, SameChains
<1>2. SpansApart(lo2, rec, to, blk, upto)
  <2>1. SpansApart(lo, rec, to, blk, upto)
    BY DEF Placed
  <2>2. lo \in Int /\ lo2 \in Int /\ Low \in Int
    BY <2>1, MemoryConstants, AddressFacts DEF SpansApart
  <2>3. \A n \in Names : rec[n] # 0 => to[n] <= lo2
    BY <2>1, <2>2 DEF SpansApart
  <2>4. \A n \in Names : blk[n] # 0 => upto[n] <= lo2
    BY <2>1, <2>2 DEF SpansApart
  <2>5. Low <= lo2
    BY <2>1, <2>2 DEF SpansApart
  <2> QED
    BY <2>1, <2>3, <2>4, <2>5 DEF SpansApart
<1>3. Chained(m2, rec) /\ Labelled(m2, rec, to)
  BY ChainsStay DEF Placed
<1>4. Blocked(m2, rec, blk, upto)
  BY DEF Placed, Blocked
<1> QED
  BY <1>1, <1>2, <1>3, <1>4 DEF Placed

\* Words that no chain and no name depend on.
Free(x, rec, to) ==
  /\ x # 0
  /\ \A k \in Names : x # HeadAt[k]
  /\ \A k \in Names : \A i \in 1..Len(Tokens[k]) : x # NameAt[k] + 2 * (i - 1)
  /\ \A k \in Names : rec[k] # 0 =>
       /\ x # rec[k] /\ x # rec[k] + 2
       /\ to[k] = rec[k] + 8 + 2 * Len(Tokens[k]) =>
            \A i \in 1..Len(Tokens[k]) : x # rec[k] + 8 + 2 * (i - 1)

LEMMA FreeWrites ==
  ASSUME NEW m, NEW m2, NEW lo, NEW rec, NEW to, NEW blk, NEW upto,
         SpansApart(lo, rec, to, blk, upto),
         \A a \in Address : a < lo => m2[a] = m[a] \/ Free(a, rec, to)
  PROVE  SameChains(m, m2, rec, to) \/ lo = 0
<1> SUFFICES ASSUME lo # 0 PROVE SameChains(m, m2, rec, to)
  OBVIOUS
<1>1. lo \in Nat /\ Low \in Nat /\ Low <= lo
  BY MemoryConstants, AddressFacts DEF SpansApart
<1>2. m2[0] = m[0]
  BY <1>1, AddressFacts DEF Free
<1>3. ASSUME NEW n \in Names PROVE m2[HeadAt[n]] = m[HeadAt[n]]
  <2>1. HeadAt[n] \in Address
    BY MemoryConstants
  <2>2. HeadAt[n] < lo
    BY <1>1, MemoryNumbers
  <2> QED
    BY <2>1, <2>2 DEF Free
<1>4. ASSUME NEW n \in Names, NEW i \in 1..Len(Tokens[n])
      PROVE  m2[NameAt[n] + 2 * (i - 1)] = m[NameAt[n] + 2 * (i - 1)]
  <2>1. NameAt[n] + 2 * (i - 1) \in Address /\ NameAt[n] + 2 * (i - 1) < lo
    BY <1>1, NameWordAddress
  <2>2. ~Free(NameAt[n] + 2 * (i - 1), rec, to)
    BY DEF Free
  <2> QED
    BY <2>1, <2>2
<1>5. ASSUME NEW n \in Names, rec[n] # 0
      PROVE  m2[rec[n]] = m[rec[n]] /\ m2[rec[n] + 2] = m[rec[n] + 2]
  <2>1. /\ rec[n] \in Address /\ rec[n] < lo
        /\ rec[n] + 2 \in Address /\ rec[n] + 2 < lo
    BY <1>5, RecordAddress
  <2>2. ~Free(rec[n], rec, to) /\ ~Free(rec[n] + 2, rec, to)
    BY <1>5 DEF Free
  <2> QED
    BY <2>1, <2>2
<1>6. ASSUME NEW n \in Names, rec[n] # 0, to[n] = rec[n] + 8 + 2 * Len(Tokens[n]),
             NEW i \in 1..Len(Tokens[n])
      PROVE  m2[rec[n] + 8 + 2 * (i - 1)] = m[rec[n] + 8 + 2 * (i - 1)]
  <2>1. rec[n] + 8 + 2 * (i - 1) \in Address /\ rec[n] + 8 + 2 * (i - 1) < lo
    BY <1>6, CopyAddress
  <2>2. ~Free(rec[n] + 8 + 2 * (i - 1), rec, to)
    BY <1>6 DEF Free
  <2> QED
    BY <2>1, <2>2
<1> QED
  BY <1>2, <1>3, <1>4, <1>5, <1>6 DEF SameChains

\* The value in a record is free ...
LEMMA ValueIsFree ==
  ASSUME NEW lo, NEW rec, NEW to, NEW blk, NEW upto, SpansApart(lo, rec, to, blk, upto),
         NEW n \in Names, rec[n] # 0, NEW x \in {rec[n] + 4, rec[n] + 6}
  PROVE  Free(x, rec, to)
<1>1. /\ \A k \in Names : rec[k] \in Nat /\ to[k] \in Int
      /\ \A k \in Names : rec[k] # 0 => Low <= rec[k] /\ rec[k] + 8 <= to[k]
      /\ \A k \in Names : k # n /\ rec[k] # 0 => to[n] <= rec[k] \/ to[k] <= rec[n]
      /\ Low \in Nat
  BY MemoryConstants, AddressFacts DEF SpansApart
<1>2. x \in Nat /\ x >= rec[n] + 4 /\ x < rec[n] + 8
  BY <1>1
<1>3. x # 0 /\ \A k \in Names : x # HeadAt[k]
  <2>1. x >= Low
    BY <1>1, <1>2
  <2> QED
    BY <1>2, <2>1, MemoryNumbers
<1>4. \A k \in Names : \A i \in 1..Len(Tokens[k]) : x # NameAt[k] + 2 * (i - 1)
  BY <1>1, <1>2, NameWordAddress
<1>5. ASSUME NEW k \in Names, rec[k] # 0 PROVE x # rec[k] /\ x # rec[k] + 2
  BY <1>1, <1>2, <1>5
<1>6. ASSUME NEW k \in Names, rec[k] # 0, to[k] = rec[k] + 8 + 2 * Len(Tokens[k]),
             NEW i \in 1..Len(Tokens[k])
      PROVE  x # rec[k] + 8 + 2 * (i - 1)
  <2>1. /\ rec[k] + 8 + 2 * (i - 1) \in Nat
        /\ rec[k] + 8 <= rec[k] + 8 + 2 * (i - 1) /\ rec[k] + 8 + 2 * (i - 1) + 2 <= to[k]
    BY <1>6, CopyAddress
  <2>2. PICK y \in Nat : y = rec[k] + 8 + 2 * (i - 1)
    BY <2>1
  <2>3. rec[k] + 8 <= y /\ y + 2 <= to[k]
    BY <2>1, <2>2
  <2>4. CASE k = n
    BY <1>1, <1>2, <2>2, <2>3, <2>4
  <2>5. CASE k # n
    <3>1. to[n] <= rec[k] \/ to[k] <= rec[n]
      BY <1>1, <1>6, <2>5
    <3>2. rec[n] + 8 <= to[n] /\ rec[n] \in Nat /\ to[n] \in Int
          /\ rec[k] \in Nat /\ to[k] \in Int
      BY <1>1
    <3>3. x # y
      BY <1>2, <2>3, <3>1, <3>2
    <3> QED
      BY <2>2, <3>3
  <2> QED
    BY <2>2, <2>4, <2>5
<1> QED
  BY <1>3, <1>4, <1>5, <1>6 DEF Free

\* ... as are the words of a block, and those below the hash heads.
LEMMA BlockIsFree ==
  ASSUME NEW lo, NEW rec, NEW to, NEW blk, NEW upto, SpansApart(lo, rec, to, blk, upto),
         NEW n \in Names, blk[n] # 0, NEW x \in Int, blk[n] <= x, x + 2 <= upto[n]
  PROVE  Free(x, rec, to)
<1>1. /\ \A k \in Names : rec[k] \in Nat /\ to[k] \in Int
      /\ \A k \in Names : rec[k] # 0 => Low <= rec[k] /\ rec[k] + 8 <= to[k]
      /\ \A k \in Names : rec[k] # 0 => to[k] <= blk[n] \/ upto[n] <= rec[k]
      /\ Low \in Nat /\ blk[n] \in Nat /\ upto[n] \in Int /\ Low <= blk[n]
  BY MemoryConstants, AddressFacts DEF SpansApart
<1>3. x # 0 /\ \A k \in Names : x # HeadAt[k]
  <2>1. x >= Low
    BY <1>1
  <2> QED
    BY <2>1, MemoryNumbers
<1>4. \A k \in Names : \A i \in 1..Len(Tokens[k]) : x # NameAt[k] + 2 * (i - 1)
  BY <1>1, NameWordAddress
<1>5. ASSUME NEW k \in Names, rec[k] # 0 PROVE x # rec[k] /\ x # rec[k] + 2
  BY <1>1, <1>5
<1>6. ASSUME NEW k \in Names, rec[k] # 0, to[k] = rec[k] + 8 + 2 * Len(Tokens[k]),
             NEW i \in 1..Len(Tokens[k])
      PROVE  x # rec[k] + 8 + 2 * (i - 1)
  <2>1. /\ rec[k] + 8 + 2 * (i - 1) \in Nat
        /\ rec[k] + 8 <= rec[k] + 8 + 2 * (i - 1) /\ rec[k] + 8 + 2 * (i - 1) + 2 <= to[k]
    BY <1>6, CopyAddress
  <2>2. PICK y \in Nat : y = rec[k] + 8 + 2 * (i - 1)
    BY <2>1
  <2>3. rec[k] + 8 <= y /\ y + 2 <= to[k]
    BY <2>1, <2>2
  <2>4. to[k] <= blk[n] \/ upto[n] <= rec[k]
    BY <1>1, <1>6
  <2>5. x # y
    BY <1>1, <2>2, <2>3, <2>4
  <2> QED
    BY <2>2, <2>5
<1> QED
  BY <1>3, <1>4, <1>5, <1>6 DEF Free

LEMMA BottomIsFree ==
  ASSUME NEW lo, NEW rec, NEW to, NEW blk, NEW upto, SpansApart(lo, rec, to, blk, upto),
         NEW n \in Names, NEW x \in {2, 4}
  PROVE  Free(x, rec, to)
<1>1. /\ \A k \in Names : rec[k] \in Nat
      /\ \A k \in Names : rec[k] # 0 => Low <= rec[k]
      /\ Low \in Nat /\ 6 < Low
  BY MemoryNumbers, AddressFacts DEF SpansApart
<1>3. x # 0 /\ \A k \in Names : x # HeadAt[k]
  BY MemoryNumbers
<1>4. \A k \in Names : \A i \in 1..Len(Tokens[k]) : x # NameAt[k] + 2 * (i - 1)
  BY <1>1, NameWordAddress
<1>5. ASSUME NEW k \in Names, rec[k] # 0 PROVE x # rec[k] /\ x # rec[k] + 2
  BY <1>1, <1>5
<1>6. ASSUME NEW k \in Names, rec[k] # 0, to[k] = rec[k] + 8 + 2 * Len(Tokens[k]),
             NEW i \in 1..Len(Tokens[k])
      PROVE  x # rec[k] + 8 + 2 * (i - 1)
  <2>1. /\ rec[k] + 8 + 2 * (i - 1) \in Nat
        /\ rec[k] + 8 <= rec[k] + 8 + 2 * (i - 1)
    BY <1>6, CopyAddress
  <2>2. PICK y \in Nat : y = rec[k] + 8 + 2 * (i - 1)
    BY <2>1
  <2>3. rec[k] + 8 <= y
    BY <2>1, <2>2
  <2>4. x # y
    BY <1>1, <1>6, <2>3
  <2> QED
    BY <2>2, <2>4
<1> QED
  BY <1>3, <1>4, <1>5, <1>6 DEF Free

-----------------------------------------------------------------------------
(* A new record. *)

\* The memory m2 is m with a record for n from r to r2.
Made(m, m2, r, r2, n, typed) ==
  /\ r2 \in Address
  /\ typed => r2 = r + 8 + 2 * Len(Tokens[n])
  /\ ~typed => r2 = r + 8
  /\ m2 \in [Address -> Nat]
  /\ m2[HeadAt[n]] = r /\ m2[r] = m[HeadAt[n]] /\ m2[r + 4] = 0 /\ m2[r + 6] = 0
  /\ m2[r + 2] = IF typed THEN r + 8 ELSE NameAt[n]
  /\ typed => \A i \in 1..Len(Tokens[n]) : m2[r + 8 + 2 * (i - 1)] = Tokens[n][i]
  /\ \A a \in Address : a < r /\ a # HeadAt[n] => m2[a] = m[a]

LEMMA NewRecordPlaced ==
  ASSUME NEW m, NEW m2, NEW lo, NEW lo2,
         NEW rec, NEW to, NEW blk, NEW upto, Placed(m, lo, rec, to, blk, upto),
         NEW n \in Names, rec[n] = 0, NEW typed \in BOOLEAN, Made(m, m2, lo, lo2, n, typed)
  PROVE  Placed(m2, lo2, [rec EXCEPT ![n] = lo], [to EXCEPT ![n] = lo2], blk, upto)
<1> DEFINE rec2 == [rec EXCEPT ![n] = lo]
           to2 == [to EXCEPT ![n] = lo2]
<1>1. SpansApart(lo, rec, to, blk, upto)
  BY DEF Placed
<1>2. /\ lo \in Address /\ lo2 \in Address /\ lo \in Nat /\ lo2 \in Nat /\ Low \in Nat /\ Top \in Nat
      /\ Low <= lo /\ lo2 < Top /\ lo + 8 <= lo2 /\ lo # 0
  <2>1. lo \in Address /\ Low <= lo /\ lo2 \in Address
    BY <1>1 DEF SpansApart, Made
  <2>2. lo \in Nat /\ lo2 \in Nat /\ lo2 < Top /\ Low \in Nat /\ Top \in Nat
    BY <2>1, MemoryConstants, AddressFacts
  <2>3. 6 < Low
    BY MemoryNumbers
  <2>4. lo + 8 <= lo2
    <3>1. CASE typed
      <4>1. PICK l \in Nat : l = Len(Tokens[n])
        BY NameLengths
      <4>2. lo2 = lo + 8 + 2 * l
        BY <3>1, <4>1 DEF Made
      <4> QED
        BY <2>2, <4>2
    <3>2. CASE ~typed
      <4>1. lo2 = lo + 8
        BY <3>2 DEF Made
      <4> QED
        BY <2>2, <4>1
    <3> QED
      BY <3>1, <3>2
  <2>5. lo # 0
    BY <2>1, <2>2, <2>3
  <2> QED
    BY <2>1, <2>2, <2>4, <2>5
<1>3. /\ rec2 \in [Names -> Address] /\ to2 \in [Names -> Int]
      /\ rec2[n] = lo /\ to2[n] = lo2
      /\ \A k \in Names : k # n => rec2[k] = rec[k] /\ to2[k] = to[k]
  BY <1>1, <1>2 DEF SpansApart
<1>4. \A k \in Names : rec[k] \in Nat /\ to[k] \in Int /\ blk[k] \in Nat /\ upto[k] \in Int
  BY <1>1, AddressFacts DEF SpansApart
<1>5. \A k \in Names : rec[k] # 0 => Low <= rec[k] /\ rec[k] + 8 <= to[k] /\ to[k] <= lo
  BY <1>1 DEF SpansApart
<1>6. \A k \in Names : blk[k] # 0 => /\ rec[k] # 0 /\ k \in Arrays
                                     /\ Low <= blk[k] /\ blk[k] + 6 <= upto[k] /\ upto[k] <= lo
  BY <1>1 DEF SpansApart
<1> HIDE DEF rec2, to2
<1>7. SpansApart(lo2, rec2, to2, blk, upto)
  <2>1. blk \in [Names -> Address] /\ upto \in [Names -> Int]
    BY <1>1 DEF SpansApart
  <2>2. ASSUME NEW k \in Names, rec2[k] # 0
        PROVE  Low <= rec2[k] /\ rec2[k] + 8 <= to2[k] /\ to2[k] <= lo2
    <3>1. CASE k = n
      BY <1>2, <1>3, <3>1
    <3>2. CASE k # n
      <4>1. /\ rec2[k] = rec[k] /\ to2[k] = to[k] /\ to[k] \in Int
            /\ Low <= rec[k] /\ rec[k] + 8 <= to[k] /\ to[k] <= lo
        BY <1>3, <1>4, <1>5, <2>2, <3>2
      <4> QED
        BY <1>2, <4>1
    <3> QED
      BY <3>1, <3>2
  <2>3. ASSUME NEW k \in Names, blk[k] # 0
        PROVE  /\ rec2[k] # 0 /\ k \in Arrays
               /\ Low <= blk[k] /\ blk[k] + 6 <= upto[k] /\ upto[k] <= lo2
    <3>1. /\ rec[k] # 0 /\ k \in Arrays /\ upto[k] \in Int
          /\ Low <= blk[k] /\ blk[k] + 6 <= upto[k] /\ upto[k] <= lo
      BY <1>4, <1>6, <2>3
    <3>2. rec2[k] # 0
      BY <1>3, <3>1
    <3> QED
      BY <1>2, <3>1, <3>2
  <2>4. ASSUME NEW j \in Names, NEW k \in Names, j # k, rec2[j] # 0, rec2[k] # 0
        PROVE  to2[j] <= rec2[k] \/ to2[k] <= rec2[j]
    <3>1. CASE j = n
      BY <1>3, <1>5, <2>4, <3>1
    <3>2. CASE k = n
      BY <1>3, <1>5, <2>4, <3>2
    <3>3. CASE j # n /\ k # n
      BY <1>1, <1>3, <2>4, <3>3 DEF SpansApart
    <3> QED
      BY <3>1, <3>2, <3>3
  <2>5. \A j, k \in Names : j # k /\ blk[j] # 0 /\ blk[k] # 0 =>
          upto[j] <= blk[k] \/ upto[k] <= blk[j]
    BY <1>1 DEF SpansApart
  <2>6. ASSUME NEW j \in Names, NEW k \in Names, rec2[j] # 0, blk[k] # 0
        PROVE  to2[j] <= blk[k] \/ upto[k] <= rec2[j]
    <3>1. CASE j = n
      BY <1>3, <1>6, <2>6, <3>1
    <3>2. CASE j # n
      BY <1>1, <1>3, <2>6, <3>2 DEF SpansApart
    <3> QED
      BY <3>1, <3>2
  <2>7. lo2 \in Address /\ Low <= lo2
    BY <1>2
  <2> QED
    BY <1>3, <2>1, <2>2, <2>3, <2>4, <2>5, <2>6, <2>7 DEF SpansApart
<1>8. \A a \in Address : a < lo /\ a # HeadAt[n] => m2[a] = m[a]
  BY DEF Made
<1>9. \A k \in Names : HeadAt[k] \in Nat /\ 6 <= HeadAt[k] /\ HeadAt[k] < Low
  BY MemoryConstants, AddressFacts
<1>old. ASSUME NEW k \in Names, rec[k] # 0 PROVE rec[k] \in Nat /\ rec[k] < lo
  <2>1. rec[k] + 8 <= to[k] /\ to[k] <= lo /\ rec[k] \in Nat /\ to[k] \in Int
    BY <1>4, <1>5, <1>old
  <2> QED
    BY <1>2, <2>1
<1>10. m2 \in [Address -> Nat] /\ m2[0] = 0
  <2>1. m2 \in [Address -> Nat]
    BY DEF Made
  <2>2. 0 \in Address /\ 0 < lo /\ 0 # HeadAt[n]
    BY <1>2, <1>9, AddressFacts
  <2>3. m[0] = 0
    BY DEF Placed
  <2> QED
    BY <1>8, <2>1, <2>2, <2>3
<1>11. Chained(m2, rec2)
  <2> SUFFICES ASSUME NEW k \in Names
               PROVE  /\ Leads(m2, rec2, HeadAt[k], HeadAt[k], Top)
                      /\ rec2[k] # 0 => Leads(m2, rec2, HeadAt[k], rec2[k], rec2[k])
    BY DEF Chained
  <2>1. ASSUME HeadAt[k] = HeadAt[n] PROVE Leads(m2, rec2, HeadAt[k], HeadAt[k], Top)
    <3>1. m2[HeadAt[k]] = rec2[n] /\ rec2[n] # 0 /\ rec2[n] < Top
      BY <1>2, <1>3, <2>1 DEF Made
    <3>2. ASSUME NEW j \in Names, rec2[j] # 0 PROVE rec2[j] <= rec2[n]
      <4>1. CASE j = n
        BY <1>2, <1>3, <4>1
      <4>2. CASE j # n
        <5>1. rec2[j] = rec[j] /\ rec[j] # 0
          BY <1>3, <3>2, <4>2
        <5>2. rec[j] \in Nat /\ rec[j] < lo
          BY <1>old, <5>1
        <5> QED
          BY <1>2, <1>3, <5>1, <5>2
      <4> QED
        BY <4>1, <4>2
    <3> QED
      BY <2>1, <3>1, <3>2 DEF Leads
  <2>2. ASSUME HeadAt[k] # HeadAt[n] PROVE Leads(m2, rec2, HeadAt[k], HeadAt[k], Top)
    <3>1. m2[HeadAt[k]] = m[HeadAt[k]]
      <4>1. HeadAt[k] \in Address
        BY MemoryConstants
      <4>2. HeadAt[k] < lo
        BY <1>2, <1>9
      <4> QED
        BY <1>8, <2>2, <4>1, <4>2
    <3>2. Leads(m, rec, HeadAt[k], HeadAt[k], Top)
      BY DEF Placed, Chained
    <3>3. \A j \in Names : HeadAt[j] = HeadAt[k] => rec2[j] = rec[j]
      BY <1>3, <2>2
    <3> QED
      BY <3>1, <3>2, <3>3 DEF Leads
  <2>3. ASSUME k = n PROVE Leads(m2, rec2, HeadAt[k], rec2[k], rec2[k])
    <3>1. Leads(m, rec, HeadAt[n], HeadAt[n], Top) /\ m2[lo] = m[HeadAt[n]]
      BY DEF Placed, Chained, Made
    <3>2. CASE /\ m[HeadAt[n]] = 0
               /\ \A j \in Names : HeadAt[j] = HeadAt[n] /\ rec[j] # 0 => Top <= rec[j]
      <4>1. ASSUME NEW j \in Names, HeadAt[j] = HeadAt[n], rec2[j] # 0 PROVE lo <= rec2[j]
        <5>1. CASE j = n
          BY <1>2, <1>3, <5>1
        <5>2. CASE j # n
          <6>1. rec2[j] = rec[j] /\ rec[j] # 0
            BY <1>3, <4>1, <5>2
          <6>2. rec[j] \in Nat /\ rec[j] < lo /\ Top <= rec[j]
            BY <1>old, <3>2, <4>1, <6>1
          <6>3. lo < Top
            BY <1>2
          <6> QED
            BY <1>2, <6>2, <6>3
        <5> QED
          BY <5>1, <5>2
      <4> QED
        BY <1>3, <2>3, <3>1, <3>2, <4>1 DEF Leads
    <3>3. ASSUME NEW i \in Names, HeadAt[i] = HeadAt[n], rec[i] # 0, m[HeadAt[n]] = rec[i],
                 \A j \in Names : HeadAt[j] = HeadAt[n] /\ rec[j] # 0 => rec[j] <= rec[i] \/ Top <= rec[j]
          PROVE  Leads(m2, rec2, HeadAt[k], rec2[k], rec2[k])
      <4>1. i # n /\ rec2[i] = rec[i] /\ rec2[i] < lo
        BY <1>3, <1>old, <3>3
      <4>2. ASSUME NEW j \in Names, HeadAt[j] = HeadAt[n], rec2[j] # 0
            PROVE  rec2[j] <= rec2[i] \/ lo <= rec2[j]
        <5>1. CASE j = n
          BY <1>2, <1>3, <5>1
        <5>2. CASE j # n
          <6>1. rec2[j] = rec[j] /\ rec[j] # 0
            BY <1>3, <4>2, <5>2
          <6>2. rec[j] \in Nat /\ rec[j] < lo
            BY <1>old, <6>1
          <6>3. rec[j] <= rec[i] \/ Top <= rec[j]
            BY <3>3, <4>2, <6>1
          <6> QED
            BY <1>2, <4>1, <6>1, <6>2, <6>3
        <5> QED
          BY <5>1, <5>2
      <4>3. m2[lo] = rec2[i] /\ rec2[i] # 0
        BY <3>1, <3>3, <4>1
      <4> QED
        BY <1>3, <2>3, <3>3, <4>1, <4>2, <4>3 DEF Leads
    <3> QED
      BY <3>1, <3>2, <3>3 DEF Leads
  <2>4. ASSUME k # n, rec2[k] # 0 PROVE Leads(m2, rec2, HeadAt[k], rec2[k], rec2[k])
    <3>1. rec2[k] = rec[k] /\ rec[k] # 0 /\ rec[k] < lo
      BY <1>3, <1>old, <2>4
    <3>2. m2[rec[k]] = m[rec[k]]
      <4>1. rec[k] \in Address /\ rec[k] # HeadAt[n]
        BY <1>1, <1>2, <1>4, <1>5, <1>9, <3>1 DEF SpansApart
      <4> QED
        BY <1>8, <3>1, <4>1
    <3>3. Leads(m, rec, HeadAt[k], rec[k], rec[k])
      BY <3>1 DEF Placed, Chained
    <3>4. CASE /\ m[rec[k]] = 0
               /\ \A j \in Names : HeadAt[j] = HeadAt[k] /\ rec[j] # 0 => rec[k] <= rec[j]
      <4>1. ASSUME NEW j \in Names, HeadAt[j] = HeadAt[k], rec2[j] # 0 PROVE rec[k] <= rec2[j]
        <5>1. CASE j = n
          BY <1>2, <1>3, <1>old, <3>1, <5>1
        <5>2. CASE j # n
          BY <1>3, <3>4, <4>1, <5>2
        <5> QED
          BY <5>1, <5>2
      <4> QED
        BY <3>1, <3>2, <3>4, <4>1 DEF Leads
    <3>5. ASSUME NEW i \in Names, HeadAt[i] = HeadAt[k], rec[i] # 0, rec[i] < rec[k],
                 m[rec[k]] = rec[i],
                 \A j \in Names : HeadAt[j] = HeadAt[k] /\ rec[j] # 0 => rec[j] <= rec[i] \/ rec[k] <= rec[j]
          PROVE  Leads(m2, rec2, HeadAt[k], rec2[k], rec2[k])
      <4>1. i # n /\ rec2[i] = rec[i]
        BY <1>3, <3>5
      <4>2. ASSUME NEW j \in Names, HeadAt[j] = HeadAt[k], rec2[j] # 0
            PROVE  rec2[j] <= rec2[i] \/ rec[k] <= rec2[j]
        <5>1. CASE j = n
          BY <1>2, <1>3, <1>old, <3>1, <5>1
        <5>2. CASE j # n
          BY <1>3, <3>5, <4>1, <4>2, <5>2
        <5> QED
          BY <5>1, <5>2
      <4> QED
        BY <3>1, <3>2, <3>5, <4>1, <4>2 DEF Leads
    <3> QED
      BY <3>3, <3>4, <3>5 DEF Leads
  <2> QED
    BY <2>1, <2>2, <2>3, <2>4
<1>12. Labelled(m2, rec2, to2)
  <2> SUFFICES ASSUME NEW k \in Names
               PROVE  /\ \A i \in 1..Len(Tokens[k]) : m2[NameAt[k] + 2 * (i - 1)] = Tokens[k][i]
                      /\ rec2[k] # 0 =>
                           \/ m2[rec2[k] + 2] = NameAt[k]
                           \/ /\ m2[rec2[k] + 2] = rec2[k] + 8
                              /\ to2[k] = rec2[k] + 8 + 2 * Len(Tokens[k])
                              /\ \A i \in 1..Len(Tokens[k]) :
                                   m2[rec2[k] + 8 + 2 * (i - 1)] = Tokens[k][i]
    BY DEF Labelled
  <2>1. \A i \in 1..Len(Tokens[k]) : m2[NameAt[k] + 2 * (i - 1)] = Tokens[k][i]
    <3> SUFFICES ASSUME NEW i \in 1..Len(Tokens[k])
                 PROVE  m2[NameAt[k] + 2 * (i - 1)] = Tokens[k][i]
      OBVIOUS
    <3>1. NameAt[k] + 2 * (i - 1) \in Address /\ NameAt[k] + 2 * (i - 1) < lo
      BY <1>2, NameWordAddress
    <3>2. NameAt[k] + 2 * (i - 1) # HeadAt[n]
      BY LayoutAssumption
    <3>3. m[NameAt[k] + 2 * (i - 1)] = Tokens[k][i]
      BY DEF Placed, Labelled
    <3> QED
      BY <1>8, <3>1, <3>2, <3>3
  <2>2. CASE k = n
    <3>1. CASE typed
      <4>1. /\ m2[lo + 2] = lo + 8
            /\ \A i \in 1..Len(Tokens[n]) : m2[lo + 8 + 2 * (i - 1)] = Tokens[n][i]
        BY <3>1 DEF Made
      <4>2. to2[n] = lo + 8 + 2 * Len(Tokens[n])
        BY <1>3, <3>1 DEF Made
      <4> QED
        BY <1>3, <2>1, <2>2, <4>1, <4>2
    <3>2. CASE ~typed
      <4>1. m2[lo + 2] = NameAt[n]
        BY <3>2 DEF Made
      <4> QED
        BY <1>3, <2>1, <2>2, <4>1
    <3> QED
      BY <3>1, <3>2
  <2>3. CASE k # n /\ rec2[k] # 0
    <3>1. rec2[k] = rec[k] /\ to2[k] = to[k] /\ rec[k] # 0
      BY <1>3, <2>3
    <3>2. m2[rec[k] + 2] = m[rec[k] + 2]
      <4>1. rec[k] + 2 \in Address /\ rec[k] + 2 < lo /\ rec[k] + 2 # HeadAt[n]
        BY <1>1, <3>1, RecordAddress
      <4> QED
        BY <1>8, <4>1
    <3>3. CASE m[rec[k] + 2] = NameAt[k]
      BY <2>1, <3>1, <3>2, <3>3
    <3>4. CASE /\ m[rec[k] + 2] = rec[k] + 8
               /\ to[k] = rec[k] + 8 + 2 * Len(Tokens[k])
               /\ \A i \in 1..Len(Tokens[k]) : m[rec[k] + 8 + 2 * (i - 1)] = Tokens[k][i]
      <4>1. \A i \in 1..Len(Tokens[k]) : m2[rec[k] + 8 + 2 * (i - 1)] = Tokens[k][i]
        <5> SUFFICES ASSUME NEW i \in 1..Len(Tokens[k])
                     PROVE  m2[rec[k] + 8 + 2 * (i - 1)] = Tokens[k][i]
          OBVIOUS
        <5>1. /\ rec[k] + 8 + 2 * (i - 1) \in Address /\ rec[k] + 8 + 2 * (i - 1) < lo
              /\ rec[k] + 8 + 2 * (i - 1) # HeadAt[n]
          BY <1>1, <3>1, <3>4, CopyAddress
        <5> QED
          BY <1>8, <3>4, <5>1
      <4> QED
        BY <2>1, <3>1, <3>2, <3>4, <4>1
    <3> QED
      BY <3>1, <3>3, <3>4 DEF Placed, Labelled
  <2> QED
    BY <2>1, <2>2, <2>3
<1>13. Blocked(m2, rec2, blk, upto)
  <2> SUFFICES ASSUME NEW k \in Arrays
               PROVE  /\ rec2[k] # 0 => m2[rec2[k] + 4] = blk[k]
                      /\ blk[k] # 0 => upto[k] = blk[k] + 4 * m2[blk[k]] + 6
    BY DEF Blocked
  <2>1. k \in Names
    BY MemoryConstants
  <2>2. ASSUME blk[k] # 0 PROVE upto[k] = blk[k] + 4 * m2[blk[k]] + 6
    <3>1. blk[k] \in Address /\ blk[k] < lo /\ blk[k] # HeadAt[n]
      BY <1>1, <1>2, <1>4, <1>6, <1>9, <2>1, <2>2 DEF SpansApart
    <3>2. upto[k] = blk[k] + 4 * m[blk[k]] + 6
      BY <2>2 DEF Placed, Blocked
    <3> QED
      BY <1>8, <3>1, <3>2
  <2>3. CASE k = n
    <3>1. blk[k] = 0
      BY <1>6, <2>1, <2>3
    <3> QED
      BY <1>3, <2>2, <2>3, <3>1 DEF Made
  <2>4. ASSUME k # n, rec2[k] # 0 PROVE m2[rec2[k] + 4] = blk[k]
    <3>1. rec2[k] = rec[k] /\ rec[k] # 0
      BY <1>3, <2>1, <2>4
    <3>2. rec[k] + 4 \in Address /\ rec[k] + 4 < lo /\ rec[k] + 4 # HeadAt[n]
      BY <1>1, <2>1, <3>1, RecordAddress
    <3>3. m[rec[k] + 4] = blk[k]
      BY <3>1 DEF Placed, Blocked
    <3> QED
      BY <1>8, <3>1, <3>2, <3>3
  <2> QED
    BY <2>2, <2>3, <2>4
<1> QED
  BY <1>7, <1>10, <1>11, <1>12, <1>13 DEF Placed, rec2, to2

-----------------------------------------------------------------------------
(* A new block. *)

\* The memory m2 is m with a block of size + 1 zeros from b to b2 for the
\* array whose record is at r.
Cut(m, m2, r, b, b2, size) ==
  /\ b2 \in Address /\ size \in Nat /\ b2 = b + 4 * size + 6
  /\ m2 \in [Address -> Nat] /\ m2[r + 4] = b /\ m2[b] = size
  /\ \A a \in Address : a < b /\ a # r + 4 => m2[a] = m[a]
  /\ \A a \in Address : b < a /\ a < b2 => m2[a] = 0

\* The word of a record that has the address of the block, and the first word
\* of a block, are in no other area.
LEMMA ArrayWords ==
  ASSUME NEW lo, NEW rec, NEW to, NEW blk, NEW upto, SpansApart(lo, rec, to, blk, upto),
         NEW n \in Names, rec[n] # 0, NEW x \in {rec[n] + 4, rec[n] + 6}, NEW k \in Names
  PROVE  /\ k # n /\ rec[k] # 0 => x # rec[k] + 4
         /\ blk[k] # 0 => x # blk[k]
<1>1. /\ rec[n] \in Nat /\ to[n] \in Int /\ rec[k] \in Nat /\ to[k] \in Int
      /\ blk[k] \in Nat /\ upto[k] \in Int
  BY AddressFacts DEF SpansApart
<1>2. rec[n] + 8 <= to[n]
  BY DEF SpansApart
<1>3. x \in Nat /\ rec[n] + 4 <= x /\ x <= rec[n] + 6
  BY <1>1
<1>4. ASSUME k # n, rec[k] # 0 PROVE x # rec[k] + 4
  <2>1. (to[n] <= rec[k] \/ to[k] <= rec[n]) /\ rec[k] + 8 <= to[k]
    BY <1>4 DEF SpansApart
  <2> QED
    BY <1>1, <1>2, <1>3, <2>1
<1>5. ASSUME blk[k] # 0 PROVE x # blk[k]
  <2>1. (to[n] <= blk[k] \/ upto[k] <= rec[n]) /\ blk[k] + 6 <= upto[k]
    BY <1>5 DEF SpansApart
  <2> QED
    BY <1>1, <1>2, <1>3, <2>1
<1> QED
  BY <1>4, <1>5

LEMMA NewBlockPlaced ==
  ASSUME NEW m, NEW m2, NEW lo, NEW lo2,
         NEW rec, NEW to, NEW blk, NEW upto, Placed(m, lo, rec, to, blk, upto),
         NEW n \in Arrays, rec[n] # 0, blk[n] = 0, NEW size, Cut(m, m2, rec[n], lo, lo2, size)
  PROVE  Placed(m2, lo2, rec, to, [blk EXCEPT ![n] = lo], [upto EXCEPT ![n] = lo2])
<1> DEFINE blk2 == [blk EXCEPT ![n] = lo]
           upto2 == [upto EXCEPT ![n] = lo2]
<1>1. SpansApart(lo, rec, to, blk, upto) /\ n \in Names
  BY MemoryConstants DEF Placed
<1>2. /\ lo \in Address /\ lo2 \in Address /\ lo \in Nat /\ lo2 \in Nat /\ Low \in Nat
      /\ Low <= lo /\ lo + 6 <= lo2 /\ lo # 0
  <2>1. lo \in Address /\ Low <= lo /\ lo2 \in Address /\ size \in Nat /\ lo2 = lo + 4 * size + 6
    BY <1>1 DEF SpansApart, Cut
  <2>2. lo \in Nat /\ lo2 \in Nat /\ Low \in Nat
    BY <2>1, MemoryConstants, AddressFacts
  <2>3. 6 < Low
    BY <1>1, MemoryNumbers
  <2>4. lo + 6 <= lo2
    BY <2>1, <2>2
  <2>5. lo # 0
    BY <2>1, <2>2, <2>3
  <2> QED
    BY <2>1, <2>2, <2>4, <2>5
<1>3. /\ blk2 \in [Names -> Address] /\ upto2 \in [Names -> Int]
      /\ blk2[n] = lo /\ upto2[n] = lo2
      /\ \A k \in Names : k # n => blk2[k] = blk[k] /\ upto2[k] = upto[k]
  BY <1>1, <1>2 DEF SpansApart
<1>4. \A k \in Names : rec[k] \in Nat /\ to[k] \in Int /\ blk[k] \in Nat /\ upto[k] \in Int
  BY <1>1, AddressFacts DEF SpansApart
<1>5. \A k \in Names : rec[k] # 0 => Low <= rec[k] /\ rec[k] + 8 <= to[k] /\ to[k] <= lo
  BY <1>1 DEF SpansApart
<1>6. \A k \in Names : blk[k] # 0 => /\ rec[k] # 0 /\ k \in Arrays
                                     /\ Low <= blk[k] /\ blk[k] + 6 <= upto[k] /\ upto[k] <= lo
  BY <1>1 DEF SpansApart
<1> HIDE DEF blk2, upto2
<1>7. SpansApart(lo2, rec, to, blk2, upto2)
  <2>1. rec \in [Names -> Address] /\ to \in [Names -> Int]
    BY <1>1 DEF SpansApart
  <2>2. ASSUME NEW k \in Names, rec[k] # 0
        PROVE  Low <= rec[k] /\ rec[k] + 8 <= to[k] /\ to[k] <= lo2
    <3>1. Low <= rec[k] /\ rec[k] + 8 <= to[k] /\ to[k] <= lo /\ to[k] \in Int
      BY <1>4, <1>5, <2>2
    <3> QED
      BY <1>2, <3>1
  <2>3. ASSUME NEW k \in Names, blk2[k] # 0
        PROVE  /\ rec[k] # 0 /\ k \in Arrays
               /\ Low <= blk2[k] /\ blk2[k] + 6 <= upto2[k] /\ upto2[k] <= lo2
    <3>1. CASE k = n
      BY <1>2, <1>3, <3>1
    <3>2. CASE k # n
      <4>1. /\ rec[k] # 0 /\ k \in Arrays /\ upto[k] \in Int
            /\ Low <= blk[k] /\ blk[k] + 6 <= upto[k] /\ upto[k] <= lo
            /\ blk2[k] = blk[k] /\ upto2[k] = upto[k]
        BY <1>3, <1>4, <1>6, <2>3, <3>2
      <4> QED
        BY <1>2, <4>1
    <3> QED
      BY <3>1, <3>2
  <2>4. \A j, k \in Names : j # k /\ rec[j] # 0 /\ rec[k] # 0 =>
          to[j] <= rec[k] \/ to[k] <= rec[j]
    BY <1>1 DEF SpansApart
  <2>5. ASSUME NEW j \in Names, NEW k \in Names, j # k, blk2[j] # 0, blk2[k] # 0
        PROVE  upto2[j] <= blk2[k] \/ upto2[k] <= blk2[j]
    <3>1. CASE j = n
      BY <1>3, <1>6, <2>5, <3>1
    <3>2. CASE k = n
      BY <1>3, <1>6, <2>5, <3>2
    <3>3. CASE j # n /\ k # n
      BY <1>1, <1>3, <2>5, <3>3 DEF SpansApart
    <3> QED
      BY <3>1, <3>2, <3>3
  <2>6. ASSUME NEW j \in Names, NEW k \in Names, rec[j] # 0, blk2[k] # 0
        PROVE  to[j] <= blk2[k] \/ upto2[k] <= rec[j]
    <3>1. CASE k = n
      BY <1>3, <1>5, <2>6, <3>1
    <3>2. CASE k # n
      BY <1>1, <1>3, <2>6, <3>2 DEF SpansApart
    <3> QED
      BY <3>1, <3>2
  <2>7. lo2 \in Address /\ Low <= lo2
    BY <1>2
  <2> QED
    BY <1>3, <2>1, <2>2, <2>3, <2>4, <2>5, <2>6, <2>7 DEF SpansApart
<1>8. \A a \in Address : a < lo /\ a # rec[n] + 4 => m2[a] = m[a]
  BY DEF Cut
<1>9. SameChains(m, m2, rec, to)
  <2>1. Free(rec[n] + 4, rec, to)
    BY <1>1, ValueIsFree
  <2>2. \A a \in Address : a < lo => m2[a] = m[a] \/ Free(a, rec, to)
    BY <1>8, <2>1
  <2> QED
    BY <1>1, <1>2, <2>2, FreeWrites
<1>10. m2 \in [Address -> Nat] /\ m2[0] = 0
  BY <1>9 DEF Cut, Placed, SameChains
<1>11. Chained(m2, rec) /\ Labelled(m2, rec, to)
  BY <1>9, ChainsStay DEF Placed
<1>12. Blocked(m2, rec, blk2, upto2)
  <2> SUFFICES ASSUME NEW k \in Arrays
               PROVE  /\ rec[k] # 0 => m2[rec[k] + 4] = blk2[k]
                      /\ blk2[k] # 0 => upto2[k] = blk2[k] + 4 * m2[blk2[k]] + 6
    BY DEF Blocked
  <2>1. k \in Names
    BY MemoryConstants
  <2>2. CASE k = n
    <3>1. m2[rec[n] + 4] = lo /\ m2[lo] = size /\ lo2 = lo + 4 * size + 6
      BY DEF Cut
    <3> QED
      BY <1>3, <2>1, <2>2, <3>1
  <2>3. CASE k # n
    <3>1. blk2[k] = blk[k] /\ upto2[k] = upto[k]
      BY <1>3, <2>1, <2>3
    <3>2. ASSUME rec[k] # 0 PROVE m2[rec[k] + 4] = blk[k]
      <4>1. rec[k] + 4 \in Address /\ rec[k] + 4 < lo
        BY <1>1, <2>1, <3>2, RecordAddress
      <4>2. rec[n] + 4 # rec[k] + 4
        BY <1>1, <2>1, <2>3, <3>2, ArrayWords
      <4>3. m[rec[k] + 4] = blk[k]
        BY <3>2 DEF Placed, Blocked
      <4> QED
        BY <1>8, <4>1, <4>2, <4>3
    <3>3. ASSUME blk[k] # 0 PROVE upto[k] = blk[k] + 4 * m2[blk[k]] + 6
      <4>1. blk[k] \in Address
        BY <1>1, <2>1 DEF SpansApart
      <4>2. blk[k] < lo
        <5>1. blk[k] + 6 <= upto[k] /\ upto[k] <= lo /\ blk[k] \in Nat /\ upto[k] \in Int
          BY <1>4, <1>6, <2>1, <3>3
        <5> QED
          BY <1>2, <5>1
      <4>3. rec[n] + 4 # blk[k]
        BY <1>1, <2>1, <3>3, ArrayWords
      <4>4. upto[k] = blk[k] + 4 * m[blk[k]] + 6
        BY <3>3 DEF Placed, Blocked
      <4> QED
        BY <1>8, <4>1, <4>2, <4>3, <4>4
    <3> QED
      BY <3>1, <3>2, <3>3
  <2> QED
    BY <2>2, <2>3
<1> QED
  BY <1>7, <1>10, <1>11, <1>12 DEF Placed, blk2, upto2

-----------------------------------------------------------------------------
(* Values. *)

\* Words that only hold a value.
Writable(x, rec, to, blk) ==
  /\ Free(x, rec, to)
  /\ \A k \in Arrays : (rec[k] # 0 => x # rec[k] + 4) /\ (blk[k] # 0 => x # blk[k])

LEMMA IntegerWritable ==
  ASSUME NEW lo, NEW rec, NEW to, NEW blk, NEW upto, SpansApart(lo, rec, to, blk, upto),
         NEW n \in Names \ Arrays, rec[n] # 0, NEW x \in {rec[n] + 4, rec[n] + 6}
  PROVE  Writable(x, rec, to, blk)
<1>1. Free(x, rec, to)
  BY ValueIsFree
<1>2. ASSUME NEW k \in Arrays
      PROVE  (rec[k] # 0 => x # rec[k] + 4) /\ (blk[k] # 0 => x # blk[k])
  <2>1. k \in Names /\ k # n
    BY MemoryConstants
  <2> QED
    BY <2>1, ArrayWords
<1> QED
  BY <1>1, <1>2 DEF Writable

LEMMA ElementWritable ==
  ASSUME NEW lo, NEW rec, NEW to, NEW blk, NEW upto, SpansApart(lo, rec, to, blk, upto),
         NEW n \in Names, blk[n] # 0, NEW x \in Int, blk[n] + 2 <= x, x + 2 <= upto[n]
  PROVE  Writable(x, rec, to, blk)
<1>1. blk[n] \in Nat /\ upto[n] \in Int /\ blk[n] + 6 <= upto[n]
  BY AddressFacts DEF SpansApart
<1>2. Free(x, rec, to)
  <2>1. blk[n] <= x
    BY <1>1
  <2> QED
    BY <2>1, BlockIsFree
<1>3. ASSUME NEW k \in Arrays, rec[k] # 0 PROVE x # rec[k] + 4
  <2>1. k \in Names
    BY MemoryConstants
  <2>2. /\ rec[k] \in Nat /\ to[k] \in Int /\ rec[k] + 8 <= to[k]
        /\ to[k] <= blk[n] \/ upto[n] <= rec[k]
    BY <1>3, <2>1, AddressFacts DEF SpansApart
  <2> QED
    BY <1>1, <2>2
<1>4. ASSUME NEW k \in Arrays, blk[k] # 0 PROVE x # blk[k]
  <2>1. k \in Names
    BY MemoryConstants
  <2>2. CASE k = n
    BY <1>1, <2>2
  <2>3. CASE k # n
    <3>1. /\ blk[k] \in Nat /\ upto[k] \in Int /\ blk[k] + 6 <= upto[k]
          /\ upto[k] <= blk[n] \/ upto[n] <= blk[k]
      BY <1>4, <2>1, <2>3, AddressFacts DEF SpansApart
    <3> QED
      BY <1>1, <3>1
  <2> QED
    BY <2>2, <2>3
<1> QED
  BY <1>2, <1>3, <1>4 DEF Writable

LEMMA BottomWritable ==
  ASSUME NEW lo, NEW rec, NEW to, NEW blk, NEW upto, SpansApart(lo, rec, to, blk, upto),
         NEW n \in Names, NEW x \in {2, 4}
  PROVE  Writable(x, rec, to, blk)
<1>1. Free(x, rec, to)
  BY BottomIsFree
<1>2. ASSUME NEW k \in Arrays
      PROVE  (rec[k] # 0 => x # rec[k] + 4) /\ (blk[k] # 0 => x # blk[k])
  <2>1. /\ rec[k] \in Nat /\ blk[k] \in Nat /\ Low \in Nat /\ 6 < Low
        /\ (rec[k] # 0 => Low <= rec[k]) /\ (blk[k] # 0 => Low <= blk[k])
    BY MemoryConstants, MemoryNumbers, AddressFacts DEF SpansApart
  <2> QED
    BY <2>1
<1> QED
  BY <1>1, <1>2 DEF Writable

LEMMA WritesPlaced ==
  ASSUME NEW m, NEW m2 \in [Address -> Nat], NEW lo, NEW n \in Names,
         NEW rec, NEW to, NEW blk, NEW upto, Placed(m, lo, rec, to, blk, upto),
         \A a \in Address : a < lo => m2[a] = m[a] \/ Writable(a, rec, to, blk)
  PROVE  Placed(m2, lo, rec, to, blk, upto)
<1>1. SpansApart(lo, rec, to, blk, upto)
  BY DEF Placed
<1>2. lo \in Address /\ lo \in Nat /\ Low \in Nat /\ Low <= lo
  BY <1>1, MemoryConstants, AddressFacts DEF SpansApart
<1>3. lo # 0
  <2>1. 6 < Low
    BY MemoryNumbers
  <2> QED
    BY <1>2, <2>1
<1>4. SameChains(m, m2, rec, to)
  <2>1. \A a \in Address : a < lo => m2[a] = m[a] \/ Free(a, rec, to)
    BY DEF Writable
  <2> QED
    BY <1>1, <1>3, <2>1, FreeWrites
<1>5. ASSUME NEW k \in Arrays
      PROVE  /\ rec[k] # 0 => m2[rec[k] + 4] = m[rec[k] + 4]
             /\ blk[k] # 0 => m2[blk[k]] = m[blk[k]]
  <2>1. k \in Names
    BY MemoryConstants
  <2>2. ASSUME rec[k] # 0 PROVE m2[rec[k] + 4] = m[rec[k] + 4]
    <3>1. rec[k] + 4 \in Address /\ rec[k] + 4 < lo
      BY <1>1, <2>1, <2>2, RecordAddress
    <3>2. ~Writable(rec[k] + 4, rec, to, blk)
      BY <2>2 DEF Writable
    <3> QED
      BY <3>1, <3>2
  <2>3. ASSUME blk[k] # 0 PROVE m2[blk[k]] = m[blk[k]]
    <3>1. blk[k] \in Address
      BY <1>1, <2>1 DEF SpansApart
    <3>2. blk[k] < lo
      <4>1. /\ blk[k] + 6 <= upto[k] /\ upto[k] <= lo /\ blk[k] \in Nat /\ upto[k] \in Int
        BY <1>1, <2>1, <2>3, AddressFacts DEF SpansApart
      <4> QED
        BY <1>2, <4>1
    <3>3. ~Writable(blk[k], rec, to, blk)
      BY <2>3 DEF Writable
    <3> QED
      BY <3>1, <3>2, <3>3
  <2> QED
    BY <2>2, <2>3
<1>6. lo <= lo
  BY <1>2
<1> QED
  BY <1>2, <1>4, <1>5, <1>6, StaysPlaced

\* A value of n is at a: in its record, in its block or, while the array has
\* none, where a block at 0 would have its first element.
ValueAt(m, rec, blk, n, a) ==
  /\ n \in Names /\ rec[n] # 0
  /\ \/ n \notin Arrays /\ a = rec[n] + 4
     \/ n \in Arrays /\ blk[n] # 0 /\ \E i \in 0..m[blk[n]] : a = blk[n] + 2 + 4 * i
     \/ n \in Arrays /\ blk[n] = 0 /\ a = 2

\* An element lies in the block.
LEMMA ElementInBlock ==
  ASSUME NEW m, NEW lo, NEW rec, NEW to, NEW blk, NEW upto, Placed(m, lo, rec, to, blk, upto),
         NEW n \in Arrays, blk[n] # 0, NEW i \in 0..m[blk[n]]
  PROVE  /\ m[blk[n]] \in Nat /\ blk[n] \in Nat /\ 2 + 4 * i \in Nat
         /\ blk[n] + 2 + 4 * i \in Address /\ blk[n] + 2 + 4 * i + 2 \in Address
         /\ blk[n] + 2 <= blk[n] + 2 + 4 * i /\ blk[n] + 2 + 4 * i + 4 <= upto[n]
         /\ blk[n] + 2 + 4 * i + 4 <= lo
<1>1. /\ n \in Names /\ blk[n] \in Address /\ lo \in Address /\ m \in [Address -> Nat]
      /\ upto[n] \in Int /\ upto[n] <= lo /\ upto[n] = blk[n] + 4 * m[blk[n]] + 6
  BY MemoryConstants DEF Placed, SpansApart, Blocked
<1>2. PICK h \in Nat : h = m[blk[n]]
  BY <1>1
<1>3. i \in Nat /\ i <= h
  BY <1>2
<1>4. blk[n] \in Nat /\ lo \in Nat /\ lo < Top /\ Top \in Nat
  BY <1>1, MemoryConstants, AddressFacts
<1>5. PICK b \in Nat : b = blk[n]
  BY <1>4
<1>6. upto[n] = b + 4 * h + 6
  BY <1>1, <1>2, <1>5
<1>7. PICK u \in Nat : u = upto[n] /\ u = b + 4 * h + 6 /\ u < Top /\ u <= lo
  BY <1>1, <1>4, <1>6
<1>8. b + 2 + 4 * i + 4 <= u
  BY <1>3, <1>7
<1>9. /\ b + 2 * (1 + 2 * i) \in Address
      /\ b + 2 * (2 + 2 * i) \in Address
  <2>1. b \in Address
    BY <1>1, <1>5
  <2>2. 1 + 2 * i \in Int /\ 2 + 2 * i \in Int
    BY <1>3
  <2>3. 0 <= b + 2 * (1 + 2 * i) /\ b + 2 * (1 + 2 * i) < Top
    BY <1>3, <1>4, <1>7, <1>8
  <2>4. 0 <= b + 2 * (2 + 2 * i) /\ b + 2 * (2 + 2 * i) < Top
    BY <1>3, <1>4, <1>7, <1>8
  <2> QED
    BY <2>1, <2>2, <2>3, <2>4, AddressFacts
<1>10. b + 2 * (1 + 2 * i) = b + 2 + 4 * i /\ b + 2 * (2 + 2 * i) = b + 2 + 4 * i + 2
  BY <1>3
<1>11. b + 2 + 4 * i \in Address /\ b + 2 + 4 * i + 2 \in Address
  BY <1>9, <1>10
<1>12. b + 2 <= b + 2 + 4 * i /\ b + 2 + 4 * i + 4 <= lo /\ 2 + 4 * i \in Nat
  BY <1>3, <1>4, <1>7, <1>8
<1> QED
  BY <1>2, <1>5, <1>7, <1>8, <1>11, <1>12

LEMMA ValueAtIsWritable ==
  ASSUME NEW m, NEW lo, NEW rec, NEW to, NEW blk, NEW upto, Placed(m, lo, rec, to, blk, upto),
         NEW n, NEW a, ValueAt(m, rec, blk, n, a)
  PROVE  /\ a \in Address /\ a + 2 \in Address /\ Wrap(a + 2) = a + 2
         /\ Writable(a, rec, to, blk) /\ Writable(a + 2, rec, to, blk)
<1>1. SpansApart(lo, rec, to, blk, upto) /\ n \in Names /\ rec[n] # 0
  BY DEF Placed, ValueAt
<1>2. CASE n \notin Arrays /\ a = rec[n] + 4
  <2>1. rec[n] \in Nat /\ rec[n] + 4 \in Address /\ rec[n] + 6 \in Address
    BY <1>1, RecordAddress
  <2>2. a + 2 = rec[n] + 6
    BY <1>2, <2>1
  <2>3. Wrap(rec[n] + 6) = rec[n] + 6
    BY <2>1, WrapFacts DEF Address
  <2>4. Writable(rec[n] + 4, rec, to, blk) /\ Writable(rec[n] + 6, rec, to, blk)
    BY <1>1, <1>2, IntegerWritable
  <2> QED
    BY <1>2, <2>1, <2>2, <2>3, <2>4
<1>3. ASSUME n \in Arrays, blk[n] # 0, NEW i \in 0..m[blk[n]], a = blk[n] + 2 + 4 * i
      PROVE  /\ a \in Address /\ a + 2 \in Address /\ Wrap(a + 2) = a + 2
             /\ Writable(a, rec, to, blk) /\ Writable(a + 2, rec, to, blk)
  <2>1. a \in Address /\ a + 2 \in Address /\ blk[n] + 2 <= a /\ a + 4 <= upto[n]
    BY <1>3, ElementInBlock
  <2>2. Wrap(a + 2) = a + 2
    BY <2>1, WrapFacts DEF Address
  <2>3. a \in Nat /\ blk[n] \in Nat /\ upto[n] \in Int
    BY <1>1, <2>1, AddressFacts DEF SpansApart
  <2>4. a \in Int /\ a + 2 \in Int /\ a + 2 <= upto[n] /\ blk[n] + 2 <= a + 2 /\ a + 2 + 2 <= upto[n]
    BY <2>1, <2>3
  <2>5. Writable(a, rec, to, blk)
    BY <1>1, <1>3, <2>1, <2>4, ElementWritable
  <2>6. Writable(a + 2, rec, to, blk)
    BY <1>1, <1>3, <2>4, ElementWritable
  <2> QED
    BY <2>1, <2>2, <2>5, <2>6
<1>4. CASE a = 2
  <2>1. 6 < Low /\ Low < Top /\ Low \in Nat /\ Top \in Nat
    BY <1>1, MemoryNumbers
  <2>3. 2 + 2 = 4
    OBVIOUS
  <2>4. 2 \in Address /\ 4 \in Address
    BY <2>1 DEF Address, Word
  <2>5. Wrap(4) = 4
    BY <2>4, WrapFacts DEF Address
  <2>6. Writable(2, rec, to, blk) /\ Writable(4, rec, to, blk)
    BY <1>1, BottomWritable
  <2> QED
    BY <1>4, <2>3, <2>4, <2>5, <2>6
<1> QED
  BY <1>2, <1>3, <1>4 DEF ValueAt

\* A value stored leaves everything where it is.
LEMMA StorePlaced ==
  ASSUME NEW m, NEW lo, NEW rec, NEW to, NEW blk, NEW upto, Placed(m, lo, rec, to, blk, upto),
         NEW n, NEW a, ValueAt(m, rec, blk, n, a), NEW u \in Nat, NEW v \in Nat
  PROVE  Placed([m EXCEPT ![a] = u, ![Wrap(a + 2)] = v], lo, rec, to, blk, upto)
<1> DEFINE m2 == [m EXCEPT ![a] = u, ![Wrap(a + 2)] = v]
<1>1. /\ a \in Address /\ a + 2 \in Address /\ Wrap(a + 2) = a + 2
      /\ Writable(a, rec, to, blk) /\ Writable(a + 2, rec, to, blk)
  BY ValueAtIsWritable
<1>2. m \in [Address -> Nat] /\ n \in Names
  BY DEF Placed, ValueAt
<1>3. m2 \in [Address -> Nat]
  BY <1>1, <1>2
<1>4. \A b \in Address : b < lo => m2[b] = m[b] \/ Writable(b, rec, to, blk)
  BY <1>1, <1>2
<1> HIDE DEF m2
<1>5. Placed(m2, lo, rec, to, blk, upto)
  BY <1>2, <1>3, <1>4, WritesPlaced
<1> QED
  BY <1>5 DEF m2

-----------------------------------------------------------------------------
(* No variables. *)

Nowhere == [n \in Names |-> 0]

LEMMA EmptyPlaced ==
  ASSUME NEW m \in [Address -> Nat], m[0] = 0, \A n \in Names : m[HeadAt[n]] = 0,
         \A n \in Names : \A i \in 1..Len(Tokens[n]) :
           m[NameAt[n] + 2 * (i - 1)] = Tokens[n][i]
  PROVE  Placed(m, Low, Nowhere, Nowhere, Nowhere, Nowhere)
<1>1. \A n \in Names : Nowhere[n] = 0
  BY DEF Nowhere
<1>2. Nowhere \in [Names -> Address] /\ Nowhere \in [Names -> Int]
  BY AddressFacts DEF Nowhere
<1> HIDE DEF Nowhere
<1>3. SpansApart(Low, Nowhere, Nowhere, Nowhere, Nowhere)
  <2>1. Low \in Address /\ Low <= Low
    BY MemoryConstants, AddressFacts
  <2> QED
    BY <1>1, <1>2, <2>1 DEF SpansApart
<1>4. Chained(m, Nowhere)
  BY <1>1 DEF Chained, Leads
<1>5. Labelled(m, Nowhere, Nowhere)
  BY <1>1 DEF Labelled
<1>6. Blocked(m, Nowhere, Nowhere, Nowhere)
  BY <1>1, MemoryConstants DEF Blocked
<1> QED
  BY <1>3, <1>4, <1>5, <1>6 DEF Placed

\* Each word of a name has an address of its own.
LEMMA NameWordsDiffer ==
  ASSUME NEW n \in Names, NEW i \in 1..Len(Tokens[n]), NEW k \in Names, NEW j \in 1..Len(Tokens[k]),
         NameAt[n] + 2 * (i - 1) = NameAt[k] + 2 * (j - 1)
  PROVE  n = k /\ i = j
<1>1. NameAt[n] \in Nat /\ NameAt[k] \in Nat
  BY MemoryConstants, AddressFacts
<1>2. PICK l \in Nat : l = Len(Tokens[n])
  BY NameLengths
<1>3. PICK o \in Nat : o = Len(Tokens[k])
  BY NameLengths
<1>4. i \in 1..l /\ j \in 1..o
  BY <1>2, <1>3
<1>5. n = k
  <2> SUFFICES ASSUME n # k PROVE FALSE
    OBVIOUS
  <2>1. \/ NameAt[n] + 2 * Len(Tokens[n]) <= NameAt[k]
        \/ NameAt[k] + 2 * Len(Tokens[k]) <= NameAt[n]
    BY LayoutAssumption
  <2>2. NameAt[n] + 2 * l <= NameAt[k] \/ NameAt[k] + 2 * o <= NameAt[n]
    BY <1>2, <1>3, <2>1
  <2> QED
    BY <1>1, <1>4, <2>2
<1> QED
  BY <1>1, <1>4, <1>5

LEMMA InitPlaced ==
  ASSUME Init
  PROVE  Placed(mem, low, Nowhere, Nowhere, Nowhere, Nowhere)
<1> DEFINE At(w) == NameAt[w[1]] + 2 * (w[2] - 1)
           word(a) == CHOOSE w \in NameWords : a = At(w)
<1>1. /\ low = Low
      /\ mem = [a \in Address |-> IF \E w \in NameWords : a = At(w)
                                  THEN Tokens[word(a)[1]][word(a)[2]] ELSE 0]
  BY DEF Init
<1>2. \A w \in NameWords : w[1] \in Names /\ w[2] \in 1..Len(Tokens[w[1]])
  BY DEF NameWords
<1>3. \A n \in Names : \A i \in 1..Len(Tokens[n]) : <<n, i>> \in NameWords
  BY DEF NameWords
<1>4. \A a \in Address : (\E w \in NameWords : a = At(w)) => word(a) \in NameWords /\ a = At(word(a))
  <2> HIDE DEF At
  <2> QED
    OBVIOUS
<1> HIDE DEF word
<1>5. mem \in [Address -> Nat]
  <2>1. ASSUME NEW a \in Address, \E w \in NameWords : a = At(w)
        PROVE  Tokens[word(a)[1]][word(a)[2]] \in Nat
    <3>1. word(a) \in NameWords
      BY <1>4, <2>1
    <3>2. word(a)[1] \in Names /\ word(a)[2] \in 1..Len(Tokens[word(a)[1]])
      BY <1>2, <3>1
    <3> QED
      BY <3>2, MemoryConstants
  <2> HIDE DEF At
  <2> QED
    BY <1>1, <2>1
<1>6. ASSUME NEW n \in Names, NEW i \in 1..Len(Tokens[n])
      PROVE  mem[NameAt[n] + 2 * (i - 1)] = Tokens[n][i]
  <2>1. PICK a \in Address : a = NameAt[n] + 2 * (i - 1)
    BY NameWordAddress
  <2>2. a = At(<<n, i>>)
    BY <2>1
  <2>3. word(a) \in NameWords /\ a = At(word(a))
    BY <1>3, <1>4, <2>2
  <2>4. word(a)[1] \in Names /\ word(a)[2] \in 1..Len(Tokens[word(a)[1]])
    BY <1>2, <2>3
  <2>5. n = word(a)[1] /\ i = word(a)[2]
    BY <2>1, <2>3, <2>4, NameWordsDiffer
  <2>6. \E w \in NameWords : a = At(w)
    BY <2>3
  <2> HIDE DEF At
  <2> QED
    BY <1>1, <2>1, <2>5, <2>6
<1>7. ASSUME NEW a \in Address, \A n \in Names : \A i \in 1..Len(Tokens[n]) : a # NameAt[n] + 2 * (i - 1)
      PROVE  mem[a] = 0
  <2>1. ~ \E w \in NameWords : a = At(w)
    BY <1>2, <1>7
  <2> HIDE DEF At
  <2> QED
    BY <1>1, <2>1
<1>8. mem[0] = 0
  <2>1. \A n \in Names : \A i \in 1..Len(Tokens[n]) : 0 # NameAt[n] + 2 * (i - 1)
    BY NameWordAddress
  <2> QED
    BY <1>7, <2>1, AddressFacts
<1>9. ASSUME NEW k \in Names PROVE mem[HeadAt[k]] = 0
  <2>1. \A n \in Names : \A i \in 1..Len(Tokens[n]) : HeadAt[k] # NameAt[n] + 2 * (i - 1)
    BY LayoutAssumption
  <2>2. HeadAt[k] \in Address
    BY MemoryConstants
  <2> QED
    BY <1>7, <2>1, <2>2
<1> QED
  BY <1>1, <1>5, <1>6, <1>8, <1>9, EmptyPlaced

\* Emptying the hash table takes every variable away.
LEMMA ClearPlaced ==
  ASSUME NEW m, NEW lo, NEW rec, NEW to, NEW blk, NEW upto, Placed(m, lo, rec, to, blk, upto)
  PROVE  Placed([a \in Address |-> IF \E n \in Names : a = HeadAt[n] THEN 0 ELSE m[a]],
                Low, Nowhere, Nowhere, Nowhere, Nowhere)
<1> DEFINE m2 == [a \in Address |-> IF \E n \in Names : a = HeadAt[n] THEN 0 ELSE m[a]]
<1>1. m \in [Address -> Nat] /\ m[0] = 0
  BY DEF Placed
<1>2. m2 \in [Address -> Nat]
  BY <1>1
<1>3. m2[0] = 0
  BY <1>1, AddressFacts
<1>4. \A n \in Names : m2[HeadAt[n]] = 0
  <2>1. \A n \in Names : HeadAt[n] \in Address
    BY MemoryConstants
  <2> QED
    BY <2>1
<1>5. ASSUME NEW n \in Names, NEW i \in 1..Len(Tokens[n])
      PROVE  m2[NameAt[n] + 2 * (i - 1)] = Tokens[n][i]
  <2>1. PICK a \in Address : a = NameAt[n] + 2 * (i - 1)
    BY NameWordAddress
  <2>2. ~ \E k \in Names : a = HeadAt[k]
    BY <2>1, LayoutAssumption
  <2>3. m2[a] = m[a]
    BY <2>2
  <2>4. m[NameAt[n] + 2 * (i - 1)] = Tokens[n][i]
    BY DEF Placed, Labelled
  <2> HIDE DEF m2
  <2> QED
    BY <2>1, <2>3, <2>4
<1> HIDE DEF m2
<1>6. Placed(m2, Low, Nowhere, Nowhere, Nowhere, Nowhere)
  BY <1>2, <1>3, <1>4, <1>5, EmptyPlaced
<1> QED
  BY <1>6 DEF m2

-----------------------------------------------------------------------------
(* The steps that hand out memory, while "low" does not wrap round. *)

LEMMA CreateEnd ==
  ASSUME low \in Address, Low <= low, NEW n \in Names, NEW l \in Nat,
         2 * l <= 2 * Len(Tokens[n]),
         low <= Wrap(low + 8 + 2 * l)
  PROVE  /\ Wrap(low + 8 + 2 * l) = low + 8 + 2 * l
         /\ low + 8 + 2 * l \in Address
<1>1. low \in Nat /\ low < Top /\ Top \in Nat /\ Low \in Nat /\ High \in Nat
  BY MemoryConstants, AddressFacts
<1>2. NameAt[n] \in Nat /\ 6 <= NameAt[n] /\ NameAt[n] + 2 * Len(Tokens[n]) <= Low
  BY MemoryConstants, AddressFacts
<1>3. PICK o \in Nat : o = Len(Tokens[n])
  BY NameLengths
<1>4. NameAt[n] + 2 * o <= Low /\ l <= o
  BY <1>3, <1>2
<1>5. Low + 2 <= High
  <2>1. Low % 2 = 0 /\ High % 2 = 0 /\ Low < High
    BY MemoryConstants, AddressFacts
  <2> QED
    BY <1>1, <2>1
<1>6. High < Top
  BY MemoryConstants, AddressFacts
<1>7. 8 + 2 * l < Top
  BY <1>1, <1>2, <1>4, <1>5, <1>6
<1>8. PICK a \in Nat : a = low + 8 + 2 * l
  BY <1>1
<1>9. a < Top
  <2> SUFFICES ASSUME Top <= a PROVE FALSE
    BY <1>1
  <2>1. a < 2 * Top
    BY <1>1, <1>7, <1>8
  <2>2. Wrap(a) = a - Top
    BY <2>1, WrapFacts
  <2>3. low <= a - Top
    BY <1>8, <2>2
  <2> QED
    BY <1>1, <1>7, <1>8, <2>3
<1>10. a \in Word
  BY <1>9, MemoryConstants DEF Word
<1>11. a = low + 2 * (4 + l) /\ 4 + l \in Int
  BY <1>1, <1>8
<1>12. 0 <= low + 2 * (4 + l) /\ low + 2 * (4 + l) < Top
  BY <1>9, <1>11
<1>13. low + 2 * (4 + l) \in Address
  BY <1>11, <1>12, AddressFacts
<1> QED
  BY <1>8, <1>10, <1>11, <1>13, WrapFacts

\* VariableCreate links a new record in front of the chain and copies a typed
\* name behind it.
LEMMA CreateMakes ==
  ASSUME mem \in [Address -> Nat], low \in Address, Low <= low,
         NEW n \in Names, NEW typed \in BOOLEAN, Create(n, typed), low <= low'
  PROVE  Made(mem, mem', low, low', n, typed)
<1> DEFINE size == IF typed THEN Len(Tokens[n]) ELSE 0
           copied == [i \in 1..size |-> low + 8 + 2 * (i - 1)]
           cell(a) == CASE a = low -> mem[HeadAt[n]]
                        [] a = low + 2 -> IF typed THEN low + 8 ELSE NameAt[n]
                        [] a \in {low + 4, low + 6} -> 0
                        [] a = HeadAt[n] -> low
                        [] \E i \in DOMAIN copied : a = copied[i] ->
                             Tokens[n][(a - low - 8) \div 2 + 1]
                        [] OTHER -> mem[a]
<1>1. mem' = [a \in Address |-> cell(a)] /\ low' = Wrap(low + 8 + 2 * Len(copied))
  BY DEF Create
<1>2. size \in Nat /\ size <= Len(Tokens[n]) /\ 2 * size <= 2 * Len(Tokens[n])
  <2>1. PICK o \in Nat : o = Len(Tokens[n])
    BY NameLengths
  <2>2. size = o \/ size = 0
    BY <2>1
  <2> HIDE DEF size
  <2> QED
    BY <2>1, <2>2
<1> HIDE DEF size
<1>3. DOMAIN copied = 1..size /\ Len(copied) = size
  BY <1>2
<1>4. low' = low + 8 + 2 * size /\ low' \in Address
  <2> HIDE DEF copied, cell
  <2>1. low <= Wrap(low + 8 + 2 * size)
    BY <1>1, <1>3
  <2> QED
    BY <1>1, <1>2, <1>3, <2>1, CreateEnd
<1>5. /\ low \in Nat /\ low' \in Nat /\ low' < Top /\ Top \in Nat /\ Low \in Nat
      /\ HeadAt[n] \in Nat /\ HeadAt[n] < low /\ low + 8 <= low'
  <2>1. low \in Nat /\ low' \in Nat /\ low' < Top /\ Top \in Nat /\ Low \in Nat
        /\ HeadAt[n] \in Nat /\ HeadAt[n] < Low
    BY <1>4, MemoryConstants, AddressFacts
  <2>2. low + 8 <= low'
    BY <1>2, <1>4, <2>1
  <2> QED
    BY <2>1, <2>2
<1>6. /\ low + 2 \in Address /\ low + 4 \in Address /\ low + 6 \in Address
      /\ HeadAt[n] \in Address
  <2>1. \A d \in Int : 0 <= d /\ d <= 3 => 0 <= low + 2 * d /\ low + 2 * d < Top
    BY <1>5
  <2>2. \A d \in Int : 0 <= d /\ d <= 3 => low + 2 * d \in Address
    BY <2>1, AddressFacts
  <2>3. low + 2 * 1 \in Address /\ low + 2 * 2 \in Address /\ low + 2 * 3 \in Address
    BY <2>2
  <2>4. low + 2 * 1 = low + 2 /\ low + 2 * 2 = low + 4 /\ low + 2 * 3 = low + 6
    BY <1>5
  <2> QED
    BY <2>3, <2>4, MemoryConstants
<1>7. ASSUME NEW i \in 1..size
      PROVE  \E a \in Address : /\ a = low + 8 + 2 * (i - 1) /\ (a - low - 8) \div 2 + 1 = i
                                /\ low + 8 <= a
  <2>1. PICK d \in Nat : d = i - 1 /\ d + 1 <= size
    BY <1>2
  <2>2. 0 <= low + 2 * (4 + d) /\ low + 2 * (4 + d) < Top /\ 4 + d \in Int
    BY <1>2, <1>4, <1>5, <2>1
  <2>3. low + 2 * (4 + d) \in Address
    BY <2>2, AddressFacts
  <2>4. low + 2 * (4 + d) = low + 8 + 2 * d
    BY <1>5, <2>1
  <2>5. PICK a \in Address : a = low + 8 + 2 * d
    BY <2>3, <2>4
  <2>6. (a - low - 8) \div 2 = d /\ low + 8 <= a
    BY <1>5, <2>1, <2>5
  <2>7. (a - low - 8) \div 2 + 1 = i
    BY <2>1, <2>6
  <2>8. a = low + 8 + 2 * (i - 1)
    BY <2>1, <2>5
  <2> QED
    BY <2>6, <2>7, <2>8
<1>front. ASSUME NEW a \in Int, a < low + 8 PROVE ~ \E j \in DOMAIN copied : a = copied[j]
  <2> SUFFICES ASSUME NEW j \in 1..size, a = low + 8 + 2 * (j - 1) PROVE FALSE
    BY <1>3
  <2>1. low + 8 <= a
    BY <1>7
  <2> QED
    BY <1>5, <1>front, <2>1
<1>8. cell(low) = mem[HeadAt[n]]
  BY <1>5
<1>9. cell(low + 2) = IF typed THEN low + 8 ELSE NameAt[n]
  <2>1. PICK a \in Int : /\ a = low + 2 /\ a # low /\ a # low + 4 /\ a # low + 6 /\ a # HeadAt[n]
                         /\ a < low + 8
    BY <1>5
  <2>2. cell(a) = IF typed THEN low + 8 ELSE NameAt[n]
    <3>1. ~ \E j \in DOMAIN copied : a = copied[j]
      BY <1>front, <2>1
    <3> HIDE DEF copied
    <3> QED
      BY <2>1, <3>1
  <2> HIDE DEF cell
  <2> QED
    BY <2>1, <2>2
<1>10. cell(low + 4) = 0 /\ cell(low + 6) = 0
  <2>1. /\ low + 4 # low /\ low + 4 # low + 2 /\ low + 6 # low /\ low + 6 # low + 2
        /\ low + 4 # HeadAt[n] /\ low + 6 # HeadAt[n] /\ low + 4 < low + 8 /\ low + 6 < low + 8
        /\ low + 4 \in Int /\ low + 6 \in Int
    BY <1>5
  <2>2. ASSUME NEW a \in Int, a = low + 4 \/ a = low + 6, a # low, a # low + 2, a # HeadAt[n],
               a < low + 8
        PROVE  cell(a) = 0
    <3>1. ~ \E j \in DOMAIN copied : a = copied[j]
      BY <1>front, <2>2
    <3> HIDE DEF copied
    <3> QED
      BY <2>2, <3>1
  <2> HIDE DEF cell
  <2> QED
    BY <2>1, <2>2
<1>11. cell(HeadAt[n]) = low
  <2>1. /\ HeadAt[n] # low /\ HeadAt[n] # low + 2
        /\ HeadAt[n] # low + 4 /\ HeadAt[n] # low + 6
    BY <1>5
  <2>2. ~ \E j \in DOMAIN copied : HeadAt[n] = copied[j]
    BY <1>5, <1>front
  <2>3. PICK a : a = HeadAt[n] /\ ~ \E j \in DOMAIN copied : a = copied[j]
    BY <2>2
  <2>4. a = HeadAt[n] /\ a # low /\ a # low + 2 /\ a # low + 4 /\ a # low + 6
    BY <2>1, <2>3
  <2>5. cell(a) = low
    <3> HIDE DEF copied
    <3> QED
      BY <2>3, <2>4
  <2> HIDE DEF cell, copied
  <2> QED
    BY <2>3, <2>5
<1>12. ASSUME NEW i \in 1..size PROVE cell(low + 8 + 2 * (i - 1)) = Tokens[n][i]
  <2>1. PICK a \in Address : /\ a = low + 8 + 2 * (i - 1) /\ (a - low - 8) \div 2 + 1 = i
                             /\ low + 8 <= a
    BY <1>7
  <2>2. a # low /\ a # low + 2 /\ a # low + 4 /\ a # low + 6 /\ a # HeadAt[n]
    BY <1>5, <2>1, AddressFacts
  <2>3. \E j \in DOMAIN copied : a = copied[j]
    BY <1>3, <2>1
  <2>4. cell(a) = Tokens[n][(a - low - 8) \div 2 + 1]
    <3> HIDE DEF copied
    <3> QED
      BY <2>2, <2>3
  <2> HIDE DEF cell
  <2> QED
    BY <2>1, <2>4
<1>13. ASSUME NEW a \in Address, a # low, a # low + 2, a # low + 4, a # low + 6, a # HeadAt[n],
              \A i \in 1..size : a # low + 8 + 2 * (i - 1)
       PROVE  cell(a) = mem[a]
  <2>1. ~ \E j \in DOMAIN copied : a = copied[j]
    BY <1>3, <1>13
  <2> HIDE DEF copied
  <2> QED
    BY <1>13, <2>1
<1> HIDE DEF cell, copied
<1>14. ASSUME NEW a \in Address PROVE cell(a) \in Nat
  <2>1. NameAt[n] \in Nat /\ mem[HeadAt[n]] \in Nat /\ mem[a] \in Nat
    BY <1>6, <1>14, MemoryConstants, AddressFacts
  <2>2. \A i \in 1..size : Tokens[n][i] \in Nat
    <3>1. \A i \in 1..Len(Tokens[n]) : Tokens[n][i] \in Nat
      BY MemoryConstants
    <3>2. \A i \in 1..size : i \in 1..Len(Tokens[n])
      BY <1>2, NameLengths
    <3> QED
      BY <3>1, <3>2
  <2>3. CASE \E i \in 1..size : a = low + 8 + 2 * (i - 1)
    BY <1>12, <2>2, <2>3
  <2>4. CASE a \in {low, low + 2, low + 4, low + 6, HeadAt[n]}
    BY <1>5, <1>8, <1>9, <1>10, <1>11, <2>1, <2>4
  <2> QED
    BY <1>13, <2>1, <2>3, <2>4
<1>15. mem' \in [Address -> Nat]
  BY <1>1, <1>14
<1>16. /\ mem'[HeadAt[n]] = low /\ mem'[low] = mem[HeadAt[n]]
       /\ mem'[low + 4] = 0 /\ mem'[low + 6] = 0
       /\ mem'[low + 2] = IF typed THEN low + 8 ELSE NameAt[n]
  BY <1>1, <1>6, <1>8, <1>9, <1>10, <1>11
<1>17. typed => size = Len(Tokens[n])
  BY DEF size
<1>18. ~typed => size = 0
  BY DEF size
<1>19. typed => \A i \in 1..Len(Tokens[n]) : mem'[low + 8 + 2 * (i - 1)] = Tokens[n][i]
  BY <1>1, <1>7, <1>12, <1>17
<1>20. ASSUME NEW a \in Address, a < low, a # HeadAt[n] PROVE mem'[a] = mem[a]
  <2>1. \A i \in 1..size : a # low + 8 + 2 * (i - 1)
    <3> SUFFICES ASSUME NEW i \in 1..size, a = low + 8 + 2 * (i - 1) PROVE FALSE
      OBVIOUS
    <3>1. low + 8 <= a
      BY <1>7
    <3> QED
      BY <1>5, <1>20, <3>1, AddressFacts
  <2>2. a # low /\ a # low + 2 /\ a # low + 4 /\ a # low + 6
    BY <1>5, <1>20, AddressFacts
  <2>3. cell(a) = mem[a]
    BY <1>13, <1>20, <2>1, <2>2
  <2> QED
    BY <1>1, <2>3
<1>21. /\ typed => low' = low + 8 + 2 * Len(Tokens[n])
       /\ ~typed => low' = low + 8
  <2>1. ASSUME ~typed PROVE low' = low + 8
    BY <1>4, <1>5, <1>18, <2>1
  <2> QED
    BY <1>4, <1>17, <2>1
<1> QED
  BY <1>4, <1>15, <1>16, <1>19, <1>20, <1>21 DEF Made

LEMMA DimSizeCuts ==
  ASSUME NEW rec, NEW to, NEW blk, NEW upto, Placed(mem, low, rec, to, blk, upto),
         name \in Names, rec[name] # 0, target = rec[name] + 4, Top - 1 \notin Sizes,
         NEW size \in Sizes, DimSize(size), low <= low'
  PROVE  \/ mem' = mem /\ low' \in Address
         \/ Cut(mem, mem', rec[name], low, low', size) /\ result' = "ok"
<1>1. SpansApart(low, rec, to, blk, upto) /\ mem \in [Address -> Nat]
  BY DEF Placed
<1>2. /\ low \in Address /\ low \in Nat /\ low < Top /\ Low <= low /\ Top \in Nat /\ Low \in Nat
  BY <1>1, MemoryConstants, AddressFacts DEF SpansApart
<1>3. ASSUME size \in Word \ {0} PROVE Bytes(size) = 4 * size + 6 /\ size \in Nat
  <2>1. size \in Nat /\ size < Top /\ size # Top - 1
    BY <1>2, <1>3 DEF Word
  <2>2. size + 1 \in Word
    BY <1>2, <2>1 DEF Word
  <2>3. Wrap(size + 1) = size + 1
    BY <2>2, WrapFacts
  <2>4. Bytes(size) = 4 * (size + 1) + 2
    BY <2>3 DEF Bytes, Elements
  <2> QED
    BY <2>1, <2>4
<1>4. ASSUME size \in Word \ {0}, Bytes(size) < Top, low' = Wrap(low + Bytes(size))
      PROVE  low' = low + 4 * size + 6 /\ low' \in Address
  <2>1. PICK b \in Nat : b = Bytes(size) /\ b = 4 * size + 6 /\ size \in Nat /\ b < Top
    BY <1>3, <1>4
  <2>2. PICK a \in Nat : a = low + b /\ low' = Wrap(a)
    BY <1>2, <1>4, <2>1
  <2>3. a < Top
    <3> SUFFICES ASSUME Top <= a PROVE FALSE
      BY <1>2
    <3>1. a < 2 * Top
      BY <1>2, <2>1, <2>2
    <3>2. low' = a - Top
      BY <2>2, <3>1, WrapFacts
    <3> QED
      BY <1>2, <2>1, <2>2, <3>2
  <2>4. low' = a
    BY <1>2, <2>2, <2>3, WrapFacts DEF Word
  <2>5. a = low + 2 * (2 * size + 3) /\ 2 * size + 3 \in Int
    BY <1>2, <2>1, <2>2
  <2>6. 0 <= low + 2 * (2 * size + 3) /\ low + 2 * (2 * size + 3) < Top
    BY <1>2, <2>3, <2>5
  <2>7. low + 2 * (2 * size + 3) \in Address
    BY <1>2, <2>5, <2>6, AddressFacts
  <2>8. a = low + 4 * size + 6
    BY <1>2, <2>1, <2>2
  <2> QED
    BY <2>4, <2>5, <2>7, <2>8
<1>5. CASE mem' = mem /\ low' = low
  BY <1>2, <1>5
<1>6. CASE /\ size \in Word \ {0} /\ Bytes(size) < Top /\ low' = Wrap(low + Bytes(size))
           /\ mem' = mem
  BY <1>4, <1>6
<1>7. CASE /\ size \in Word \ {0} /\ Bytes(size) < Top /\ low' = Wrap(low + Bytes(size))
           /\ End("ok")
           /\ mem' = [a \in Address |->
                        IF a = target THEN low
                        ELSE IF a = low THEN size
                        ELSE IF Wrap(a - low) < Bytes(size) THEN 0
                        ELSE mem[a]]
  <2>1. /\ low' = low + 4 * size + 6 /\ low' \in Address /\ size \in Nat
        /\ Bytes(size) = 4 * size + 6 /\ low' \in Nat /\ low' < Top
    <3>1. low' = low + 4 * size + 6 /\ low' \in Address
      BY <1>4, <1>7
    <3>2. size \in Nat /\ Bytes(size) = 4 * size + 6
      BY <1>3, <1>7
    <3> QED
      BY <3>1, <3>2, AddressFacts
  <2>2. rec[name] + 4 \in Address /\ rec[name] + 4 < low
    BY <1>1, RecordAddress
  <2>3. mem' \in [Address -> Nat]
    BY <1>1, <1>2, <1>7, <2>1
  <2>4. mem'[rec[name] + 4] = low
    BY <1>7, <2>2
  <2>5. mem'[low] = size
    <3>1. low # target
      BY <1>2, <2>2
    <3> QED
      BY <1>2, <1>7, <3>1
  <2>6. ASSUME NEW a \in Address, a < low, a # rec[name] + 4 PROVE mem'[a] = mem[a]
    <3>1. a \in Nat /\ a # low /\ a # target
      BY <1>2, <2>6, AddressFacts
    <3>2. a - low + Top <= Wrap(a - low) /\ Wrap(a - low) \in Nat
      <4>1. a - low \in Int /\ a - low < 0
        BY <1>2, <2>6, <3>1
      <4> QED
        BY <4>1, WrapFacts DEF Word
    <3>3. ~(Wrap(a - low) < Bytes(size))
      BY <1>2, <2>1, <3>1, <3>2
    <3> QED
      BY <1>7, <3>1, <3>3
  <2>7. ASSUME NEW a \in Address, low < a, a < low' PROVE mem'[a] = 0
    <3>1. a \in Nat /\ a # low /\ a # target
      BY <1>2, <2>2, <2>7, AddressFacts
    <3>2. a - low \in Word
      BY <1>2, <2>1, <2>7, <3>1 DEF Word
    <3>3. Wrap(a - low) = a - low
      BY <3>2, WrapFacts
    <3>4. Wrap(a - low) < Bytes(size)
      BY <1>2, <2>1, <2>7, <3>1, <3>3
    <3> QED
      BY <1>7, <3>1, <3>4
  <2> QED
    BY <1>7, <2>1, <2>3, <2>4, <2>5, <2>6, <2>7 DEF Cut, End
<1> QED
  BY <1>5, <1>6, <1>7 DEF DimSize

-----------------------------------------------------------------------------
(* The steps. *)

\* A statement under way has its variable, and writes where that has a value;
\* DIM writes the address of a block where there is none.
Aimed(rec, blk) ==
  /\ pc = "let" => ValueAt(mem, rec, blk, name, target)
  /\ pc = "dim" => /\ name \in Arrays /\ rec[name] # 0 /\ blk[name] = 0
                   /\ target = rec[name] + 4

Laid(rec, to, blk, upto) == Placed(mem, low, rec, to, blk, upto) /\ Aimed(rec, blk)

\* What a step does to memory: nothing, a record, a value, a block, or it
\* empties the hash tables.
Quiet(rec, to, blk, upto) == mem' = mem /\ Laid(rec, to, blk, upto)'
Makes(rec, to, blk, upto) ==
  \E n \in Names, typed \in BOOLEAN : \E rec2, to2 :
    /\ rec[n] = 0 /\ Made(mem, mem', low, low', n, typed)
    /\ rec2 = [rec EXCEPT ![n] = low] /\ to2 = [to EXCEPT ![n] = low']
    /\ Laid(rec2, to2, blk, upto)'
Stores(rec, to, blk, upto) ==
  \E v \in Values :
    /\ pc = "let" /\ mem' = [mem EXCEPT ![target] = v[1], ![Wrap(target + 2)] = v[2]]
    /\ Laid(rec, to, blk, upto)'
Cuts(rec, to, blk, upto) ==
  \E size \in Sizes : \E blk2, upto2 :
    /\ pc = "dim" /\ Cut(mem, mem', rec[name], low, low', size)
    /\ blk2 = [blk EXCEPT ![name] = low] /\ upto2 = [upto EXCEPT ![name] = low']
    /\ Laid(rec, to, blk2, upto2)'
Clears ==
  /\ mem' = [a \in Address |-> IF \E n \in Names : a = HeadAt[n] THEN 0 ELSE mem[a]]
  /\ Laid(Nowhere, Nowhere, Nowhere, Nowhere)'

LEMMA QuietStep ==
  ASSUME NEW rec, NEW to, NEW blk, NEW upto, Laid(rec, to, blk, upto),
         mem' = mem, low' \in Address, low <= low', Aimed(rec, blk)'
  PROVE  Quiet(rec, to, blk, upto)
<1>1. SameChains(mem, mem', rec, to)
  BY DEF SameChains
<1>2. mem' \in [Address -> Nat] /\ Placed(mem, low, rec, to, blk, upto)
  BY DEF Laid, Placed
<1>3. Placed(mem', low', rec, to, blk, upto)
  BY <1>1, <1>2, StaysPlaced
<1> QED
  BY <1>3 DEF Quiet, Laid

LEMMA CreateStep ==
  ASSUME NEW rec, NEW to, NEW blk, NEW upto, Laid(rec, to, blk, upto),
         NEW n \in Names, NEW typed \in BOOLEAN, Find(n) = 0, Create(n, typed), low <= low',
         name' = n, target' = low + 4,
         \/ pc' = "let" /\ n \notin Arrays
         \/ pc' = "dim" /\ n \in Arrays
  PROVE  Makes(rec, to, blk, upto)
<1>1. Placed(mem, low, rec, to, blk, upto) /\ SpansApart(low, rec, to, blk, upto)
  BY DEF Laid, Placed
<1>2. rec[n] = 0
  BY <1>1, Found DEF Find
<1>3. mem \in [Address -> Nat] /\ low \in Address /\ Low <= low
  BY <1>1 DEF Placed, SpansApart
<1>4. Made(mem, mem', low, low', n, typed)
  BY <1>3, CreateMakes
<1>5. PICK rec2, to2 : /\ rec2 = [rec EXCEPT ![n] = low] /\ to2 = [to EXCEPT ![n] = low']
                       /\ Placed(mem', low', rec2, to2, blk, upto)
  <2>1. Placed(mem', low', [rec EXCEPT ![n] = low], [to EXCEPT ![n] = low'], blk, upto)
    BY <1>1, <1>2, <1>4, NewRecordPlaced
  <2> QED
    BY <2>1, Zenon
<1>6. rec2[n] = low /\ blk[n] = 0 /\ low # 0
  <2>1. 6 < Low /\ low \in Nat /\ Low \in Nat
    BY <1>3, MemoryNumbers, AddressFacts
  <2>2. low # 0
    BY <1>3, <2>1
  <2>3. rec \in [Names -> Address] /\ blk[n] = 0
    BY <1>1, <1>2 DEF SpansApart
  <2>4. rec2[n] = low
    BY <1>5, <2>3
  <2> QED
    BY <2>2, <2>3, <2>4
<1>7. Aimed(rec2, blk)'
  <2>1. rec2[name'] # 0 /\ blk[name'] = 0 /\ target' = rec2[name'] + 4 /\ name' \in Names
    BY <1>6
  <2>2. ASSUME pc' = "let" PROVE ValueAt(mem', rec2, blk, name', target')
    <3>1. name' \notin Arrays
      BY <2>2
    <3> QED
      BY <2>1, <3>1 DEF ValueAt
  <2>3. pc' = "dim" => name' \in Arrays
    OBVIOUS
  <2> QED
    BY <2>1, <2>2, <2>3 DEF Aimed
<1>8. Laid(rec2, to2, blk, upto)'
  BY <1>5, <1>7 DEF Laid
<1> QED
  BY <1>2, <1>4, <1>5, <1>8 DEF Makes

LEMMA OutOfMemoryStep ==
  ASSUME NEW rec, NEW to, NEW blk, NEW upto, Laid(rec, to, blk, upto), NEW n \in Names,
         OutOfMemory, low <= low'
  PROVE  Quiet(rec, to, blk, upto)
<1>1. Placed(mem, low, rec, to, blk, upto) /\ low \in Address /\ Low <= low
  BY DEF Laid, Placed, SpansApart
<1>2. low' = Wrap(low + 8 + 2 * 0) /\ mem' = mem /\ pc' = "idle"
  <2>1. low + 8 = low + 8 + 2 * 0
    BY <1>1, AddressFacts
  <2> QED
    BY <2>1 DEF OutOfMemory, End
<1>3. 2 * 0 <= 2 * Len(Tokens[n])
  <2>1. PICK l \in Nat : l = Len(Tokens[n])
    BY NameLengths
  <2>2. 2 * 0 <= 2 * l
    BY <2>1
  <2> QED
    BY <2>1, <2>2
<1>4. low + 8 + 2 * 0 \in Address /\ Wrap(low + 8 + 2 * 0) = low + 8 + 2 * 0
  BY <1>1, <1>2, <1>3, CreateEnd
<1>5. low' \in Address
  BY <1>2, <1>4
<1>6. Aimed(rec, blk)'
  BY <1>2 DEF Aimed
<1> QED
  BY <1>2, <1>5, <1>6, QuietStep

LEMMA LetIntegerStep ==
  ASSUME NEW rec, NEW to, NEW blk, NEW upto, Laid(rec, to, blk, upto),
         NEW n \in Names, NEW typed \in BOOLEAN, LetInteger(n, typed), low <= low'
  PROVE  Quiet(rec, to, blk, upto) \/ Makes(rec, to, blk, upto)
<1>1. Placed(mem, low, rec, to, blk, upto) /\ low \in Address
  BY DEF Laid, Placed, SpansApart
<1>2. Find(n) = rec[n]
  BY <1>1, Found DEF Find
<1>3. CASE Find(n) # 0 /\ Waits("let", n, Find(n) + 4) /\ UNCHANGED <<mem, low>>
  <2>1. Aimed(rec, blk)'
    BY <1>2, <1>3 DEF Aimed, ValueAt, Waits, LetInteger
  <2> QED
    BY <1>1, <1>3, <2>1, QuietStep
<1>4. CASE Find(n) = 0 /\ Create(n, typed) /\ Waits("let", n, low + 4)
  <2>1. n \notin Arrays
    BY DEF LetInteger
  <2> QED
    BY <1>4, <2>1, CreateStep DEF Waits
<1>5. CASE OutOfMemory
  BY <1>5, OutOfMemoryStep
<1> QED
  BY <1>3, <1>4, <1>5 DEF LetInteger

LEMMA LetElementStep ==
  ASSUME NEW rec, NEW to, NEW blk, NEW upto, Laid(rec, to, blk, upto),
         NEW n \in Names, NEW i \in Subscripts, LetElement(n, i)
  PROVE  Quiet(rec, to, blk, upto)
<1>1. Placed(mem, low, rec, to, blk, upto) /\ low \in Address /\ low \in Nat
  BY AddressFacts DEF Laid, Placed, SpansApart
<1>2. Find(n) = rec[n] /\ n \in Arrays
  BY <1>1, Found DEF Find, LetElement
<1>3. mem' = mem /\ low' = low /\ low <= low'
  BY <1>1 DEF LetElement
<1>4. Aimed(rec, blk)'
  <2>1. CASE End("error")
    BY <2>1 DEF End, Aimed
  <2>2. CASE Find(n) # 0 /\ InArray(n, i) /\ Waits("let", n, Element(n, i))
    <3>1. rec[n] # 0 /\ Block(n) = blk[n]
      BY <1>1, <1>2, <2>2 DEF Block, Placed, Blocked
    <3>2. i \in Word /\ i <= mem[blk[n]] /\ pc' = "let" /\ name' = n
          /\ target' = Wrap(blk[n] + 2 + Wrap(4 * i))
      BY <2>2, <3>1 DEF InArray, HighSubscript, Element, Waits
    <3>3. CASE blk[n] = 0
      <4>1. mem[0] = 0 /\ i \in Nat
        BY <1>1, <3>2, MemoryConstants DEF Placed, Word
      <4>2. i = 0
        BY <3>2, <3>3, <4>1
      <4>3. 2 \in Word /\ 0 \in Word
        BY MemoryConstants DEF Word
      <4>4. Wrap(4 * 0) = 0 /\ Wrap(2) = 2
        <5>1. 4 * 0 = 0
          OBVIOUS
        <5> QED
          BY <4>3, <5>1, WrapFacts
      <4>5. target' = Wrap(0 + 2 + 0)
        BY <3>2, <3>3, <4>2, <4>4
      <4>6. target' = 2
        BY <4>4, <4>5
      <4> QED
        BY <1>2, <3>1, <3>2, <3>3, <4>6 DEF Aimed, ValueAt
    <3>4. CASE blk[n] # 0
      <4>1. i \in 0..mem[blk[n]]
        <5>1. blk[n] \in Address /\ mem \in [Address -> Nat]
          BY <1>1, <1>2, MemoryConstants DEF Placed, SpansApart
        <5> QED
          BY <3>2, <5>1, MemoryConstants DEF Word
      <4>2. /\ blk[n] \in Nat /\ 2 + 4 * i \in Nat
            /\ blk[n] + 2 + 4 * i \in Address
            /\ blk[n] + 2 <= blk[n] + 2 + 4 * i
        BY <1>1, <1>2, <3>4, <4>1, ElementInBlock
      <4>3. i \in Nat /\ Top \in Nat
        BY <3>2, MemoryConstants DEF Word
      <4>4. blk[n] + 2 + 4 * i < Top
        BY <4>2, AddressFacts
      <4>5. 4 * i \in Word
        <5>1. PICK b \in Nat : b = blk[n]
          BY <4>2
        <5>2. b + 2 + 4 * i < Top
          BY <4>4, <5>1
        <5>3. 4 * i \in 0..(Top - 1)
          BY <4>3, <5>2
        <5> QED
          BY <5>3 DEF Word
      <4>6. Wrap(4 * i) = 4 * i
        BY <4>5, WrapFacts
      <4>7. Wrap(blk[n] + 2 + 4 * i) = blk[n] + 2 + 4 * i
        BY <4>2, WrapFacts DEF Address
      <4>8. target' = blk[n] + 2 + 4 * i
        BY <3>2, <4>6, <4>7
      <4>9. ValueAt(mem, rec, blk, n, target')
        BY <1>2, <3>1, <3>4, <4>1, <4>8 DEF ValueAt
      <4> QED
        BY <1>3, <3>2, <4>9 DEF Aimed
    <3> QED
      BY <3>3, <3>4
  <2> QED
    BY <2>1, <2>2 DEF LetElement
<1> QED
  BY <1>1, <1>3, <1>4, QuietStep

LEMMA DimStep ==
  ASSUME NEW rec, NEW to, NEW blk, NEW upto, Laid(rec, to, blk, upto),
         NEW n \in Names, NEW typed \in BOOLEAN, Dim(n, typed), low <= low'
  PROVE  Quiet(rec, to, blk, upto) \/ Makes(rec, to, blk, upto)
<1>1. CASE End("error") /\ UNCHANGED <<mem, low>>
  <2>1. Aimed(rec, blk)'
    BY <1>1 DEF Aimed, End
  <2>2. low \in Address
    BY DEF Laid, Placed, SpansApart
  <2> QED
    BY <1>1, <2>1, <2>2, QuietStep
<1>2. CASE Find(n) = 0 /\ Create(n, typed) /\ Waits("dim", n, low + 4)
  <2>1. n \in Arrays
    BY DEF Dim
  <2> QED
    BY <1>2, <2>1, CreateStep DEF Waits
<1>3. CASE OutOfMemory
  BY <1>3, OutOfMemoryStep
<1> QED
  BY <1>1, <1>2, <1>3 DEF Dim

LEMMA StoreStep ==
  ASSUME NEW rec, NEW to, NEW blk, NEW upto, Laid(rec, to, blk, upto),
         NEW v \in Values, Store(v)
  PROVE  Stores(rec, to, blk, upto)
<1>1. /\ Placed(mem, low, rec, to, blk, upto) /\ pc = "let" /\ pc' = "idle" /\ low' = low
      /\ mem' = [mem EXCEPT ![target] = v[1], ![Wrap(target + 2)] = v[2]]
      /\ ValueAt(mem, rec, blk, name, target)
  BY DEF Laid, Aimed, Store, End
<1>2. v[1] \in Nat /\ v[2] \in Nat
  BY VariablesAssumption, MemoryConstants DEF Word
<1>3. Placed(mem', low', rec, to, blk, upto)
  BY <1>1, <1>2, StorePlaced
<1>4. Laid(rec, to, blk, upto)'
  BY <1>1, <1>3 DEF Laid, Aimed
<1> QED
  BY <1>1, <1>4 DEF Stores

LEMMA DimSizeStep ==
  ASSUME NEW rec, NEW to, NEW blk, NEW upto, Laid(rec, to, blk, upto), Top - 1 \notin Sizes,
         NEW size \in Sizes, DimSize(size), low <= low'
  PROVE  Quiet(rec, to, blk, upto) \/ Cuts(rec, to, blk, upto)
<1>1. /\ Placed(mem, low, rec, to, blk, upto) /\ pc = "dim" /\ pc' = "idle"
      /\ name \in Arrays /\ rec[name] # 0 /\ blk[name] = 0 /\ target = rec[name] + 4
  BY DEF Laid, Aimed, DimSize, End
<1>2. name \in Names
  BY <1>1, MemoryConstants
<1>3. \/ mem' = mem /\ low' \in Address
      \/ Cut(mem, mem', rec[name], low, low', size)
  BY <1>1, <1>2, DimSizeCuts
<1>4. CASE mem' = mem /\ low' \in Address
  <2>1. Aimed(rec, blk)'
    BY <1>1 DEF Aimed
  <2> QED
    BY <1>4, <2>1, QuietStep
<1>5. CASE Cut(mem, mem', rec[name], low, low', size)
  <2>1. PICK blk2, upto2 :
          /\ blk2 = [blk EXCEPT ![name] = low] /\ upto2 = [upto EXCEPT ![name] = low']
          /\ Placed(mem', low', rec, to, blk2, upto2)
    BY <1>1, <1>5, NewBlockPlaced
  <2>2. Aimed(rec, blk2)'
    BY <1>1 DEF Aimed
  <2>3. Laid(rec, to, blk2, upto2)'
    BY <2>1, <2>2 DEF Laid
  <2> QED
    BY <1>1, <1>5, <2>1, <2>3 DEF Cuts
<1> QED
  BY <1>3, <1>4, <1>5

LEMMA TablesClearStep ==
  ASSUME NEW rec, NEW to, NEW blk, NEW upto, Laid(rec, to, blk, upto), Clear
  PROVE  Clears
<1>1. /\ Placed(mem, low, rec, to, blk, upto) /\ low' = Low /\ pc' = "idle"
      /\ mem' = [a \in Address |-> IF \E n \in Names : a = HeadAt[n] THEN 0 ELSE mem[a]]
  BY DEF Laid, Clear, End
<1>2. Placed(mem', low', Nowhere, Nowhere, Nowhere, Nowhere)
  BY <1>1, ClearPlaced
<1>3. Laid(Nowhere, Nowhere, Nowhere, Nowhere)'
  BY <1>1, <1>2 DEF Laid, Aimed
<1> QED
  BY <1>1, <1>3 DEF Clears

LEMMA MemorySteps ==
  ASSUME NEW rec, NEW to, NEW blk, NEW upto, Laid(rec, to, blk, upto), Top - 1 \notin Sizes,
         Next, Clear \/ low <= low'
  PROVE  \/ Quiet(rec, to, blk, upto) \/ Makes(rec, to, blk, upto)
         \/ Stores(rec, to, blk, upto) \/ Cuts(rec, to, blk, upto) \/ Clears
<1>1. CASE Clear
  BY <1>1, TablesClearStep
<1>2. ASSUME low <= low', NEW n \in Names, NEW typed \in BOOLEAN,
             LetInteger(n, typed) \/ Dim(n, typed)
      PROVE  Quiet(rec, to, blk, upto) \/ Makes(rec, to, blk, upto)
  BY <1>2, LetIntegerStep, DimStep
<1>3. ASSUME NEW n \in Names, NEW i \in Subscripts, LetElement(n, i)
      PROVE  Quiet(rec, to, blk, upto)
  BY <1>3, LetElementStep
<1>4. ASSUME NEW v \in Values, Store(v) PROVE Stores(rec, to, blk, upto)
  BY <1>4, StoreStep
<1>5. ASSUME low <= low', NEW size \in Sizes, DimSize(size)
      PROVE  Quiet(rec, to, blk, upto) \/ Cuts(rec, to, blk, upto)
  BY <1>5, DimSizeStep
<1>6. ASSUME ExpressionFails \/ \E n \in Names, i \in Subscripts : Access(n, i)
      PROVE  Quiet(rec, to, blk, upto)
  <2>1. mem' = mem /\ low' = low /\ pc' = "idle"
    BY <1>6 DEF ExpressionFails, Access, End
  <2>2. low \in Address /\ low <= low'
    <3>1. low \in Address
      BY DEF Laid, Placed, SpansApart
    <3> QED
      BY <2>1, <3>1, AddressFacts
  <2>3. Aimed(rec, blk)'
    BY <2>1 DEF Aimed
  <2> QED
    BY <2>1, <2>2, <2>3, QuietStep
<1> QED
  BY <1>1, <1>2, <1>3, <1>4, <1>5, <1>6, Zenon DEF Next

-----------------------------------------------------------------------------
(* The invariant. *)

MemoryTypes ==
  /\ pc \in {"idle", "let", "dim"} /\ result \in {"ok", "error"}
  /\ name \in Names \cup {NoName}
  /\ pc # "idle" => name \in Names
  /\ pc = "idle" => target = 0
  /\ statements \in 0..MaxStatements

MemoryInv == MemoryTypes /\ \E rec, to, blk, upto : Laid(rec, to, blk, upto)

LEMMA TypesInit == Init => MemoryTypes
BY VariablesAssumption DEF Init, MemoryTypes

LEMMA TypesNext == MemoryTypes /\ Next => MemoryTypes'
<1> SUFFICES ASSUME MemoryTypes, Next PROVE MemoryTypes'
  OBVIOUS
<1>1. MaxStatements \in Nat /\ statements \in 0..MaxStatements
  BY VariablesAssumption DEF MemoryTypes
<1>2. ASSUME Begin PROVE statements' \in 0..MaxStatements
  BY <1>1, <1>2 DEF Begin
<1>3. ASSUME NEW how \in {"ok", "error"}, End(how), statements' \in 0..MaxStatements
      PROVE  MemoryTypes'
  BY <1>3 DEF End, MemoryTypes
<1>4. ASSUME NEW where \in {"let", "dim"}, NEW n \in Names, NEW a, Waits(where, n, a),
             statements' \in 0..MaxStatements
      PROVE  MemoryTypes'
  BY <1>4 DEF Waits, MemoryTypes
<1>5. ASSUME NEW n \in Names, NEW typed \in BOOLEAN, LetInteger(n, typed) PROVE MemoryTypes'
  BY <1>2, <1>3, <1>4, <1>5 DEF LetInteger, OutOfMemory
<1>6. ASSUME NEW n \in Names, NEW typed \in BOOLEAN, Dim(n, typed) PROVE MemoryTypes'
  BY <1>2, <1>3, <1>4, <1>6 DEF Dim, OutOfMemory
<1>7. ASSUME NEW n \in Names, NEW i \in Subscripts, LetElement(n, i) PROVE MemoryTypes'
  BY <1>2, <1>3, <1>4, <1>7 DEF LetElement
<1>8. ASSUME NEW n \in Names, NEW i \in Subscripts, Access(n, i) PROVE MemoryTypes'
  <2>1. PICK how \in {"ok", "error"} : End(how)
    BY <1>8 DEF Access
  <2>2. Begin
    BY <1>8 DEF Access
  <2> QED
    BY <1>2, <1>3, <2>1, <2>2
<1>9. ASSUME NEW v \in Values, Store(v) PROVE MemoryTypes'
  BY <1>1, <1>3, <1>9 DEF Store
<1>10. ASSUME NEW size \in Sizes, DimSize(size) PROVE MemoryTypes'
  BY <1>1, <1>3, <1>10 DEF DimSize
<1>11. ASSUME ExpressionFails PROVE MemoryTypes'
  BY <1>1, <1>3, <1>11 DEF ExpressionFails
<1>12. ASSUME Clear PROVE MemoryTypes'
  BY <1>2, <1>3, <1>12 DEF Clear
<1> QED
  BY <1>5, <1>6, <1>7, <1>8, <1>9, <1>10, <1>11, <1>12, Zenon DEF Next

LEMMA MemoryInit == Init => MemoryInv
<1> SUFFICES ASSUME Init PROVE MemoryInv
  OBVIOUS
<1>1. Placed(mem, low, Nowhere, Nowhere, Nowhere, Nowhere)
  BY InitPlaced
<1>2. Aimed(Nowhere, Nowhere)
  BY DEF Init, Aimed
<1>3. Laid(Nowhere, Nowhere, Nowhere, Nowhere)
  BY <1>1, <1>2 DEF Laid
<1> QED
  BY <1>3, TypesInit DEF MemoryInv

LEMMA MemoryStays == MemoryInv /\ UNCHANGED vars => MemoryInv'
BY DEF MemoryInv, MemoryTypes, Laid, Placed, Aimed, vars

LEMMA MemoryNext ==
  ASSUME MemoryInv, Next, Clear \/ low <= low', Top - 1 \notin Sizes
  PROVE  MemoryInv'
<1>1. PICK rec, to, blk, upto : Laid(rec, to, blk, upto)
  BY DEF MemoryInv
<1>2. \/ Quiet(rec, to, blk, upto) \/ Makes(rec, to, blk, upto)
      \/ Stores(rec, to, blk, upto) \/ Cuts(rec, to, blk, upto) \/ Clears
  BY <1>1, MemorySteps
<1>3. \E r, t, b, u : Laid(r, t, b, u)'
  BY <1>2, Zenon DEF Quiet, Makes, Stores, Cuts, Clears
<1> QED
  BY <1>3, TypesNext DEF MemoryInv

LEMMA MemoryIsSound == MemoryInv => TypeOK /\ StoreTiled
<1> SUFFICES ASSUME MemoryInv PROVE TypeOK /\ StoreTiled
  OBVIOUS
<1>1. PICK rec, to, blk, upto : Laid(rec, to, blk, upto)
  BY DEF MemoryInv
<1>2. Placed(mem, low, rec, to, blk, upto)
  BY <1>1 DEF Laid
<1>3. SpansApart(low, rec, to, blk, upto) /\ mem \in [Address -> Nat] /\ low \in Address
  BY <1>2 DEF Placed, SpansApart
<1>4. target \in Address
  <2>1. CASE pc = "idle"
    BY <2>1, AddressFacts DEF MemoryInv, MemoryTypes
  <2>2. CASE pc = "let"
    BY <1>1, <1>2, <2>2, ValueAtIsWritable DEF Laid, Aimed
  <2>3. CASE pc = "dim"
    <3>1. name \in Names /\ rec[name] # 0 /\ target = rec[name] + 4
      BY <1>1, <2>3, MemoryConstants DEF Laid, Aimed
    <3> QED
      BY <1>3, <3>1, RecordAddress
  <2> QED
    BY <2>1, <2>2, <2>3 DEF MemoryInv, MemoryTypes
<1>5. TypeOK
  BY <1>3, <1>4 DEF TypeOK, MemoryInv, MemoryTypes
<1> QED
  BY <1>2, <1>5, PlacedIsTiled

-----------------------------------------------------------------------------
(* What the variables hold. *)

Held(m, rec, blk, n) ==
  IF rec[n] = 0 THEN [kind |-> "none"]
  ELSE IF n \notin Arrays
    THEN [kind |-> "integer", value |-> <<m[rec[n] + 4], m[rec[n] + 6]>>]
  ELSE IF blk[n] = 0 THEN [kind |-> "broken"]
  ELSE [kind |-> "array",
        elements |-> [i \in 0..m[blk[n]] |->
                       <<m[blk[n] + 2 + 4 * i], m[blk[n] + 2 + 4 * i + 2]>>]]

\* The subscript, times four, wraps round nowhere.
LEMMA ElementAddress ==
  ASSUME NEW m, NEW lo, NEW rec, NEW to, NEW blk, NEW upto, Placed(m, lo, rec, to, blk, upto),
         NEW n \in Arrays, blk[n] # 0, NEW i \in 0..m[blk[n]]
  PROVE  /\ Wrap(blk[n] + 2 + Wrap(4 * i)) = blk[n] + 2 + 4 * i
         /\ Wrap(blk[n] + 2 + 4 * i + 2) = blk[n] + 2 + 4 * i + 2
<1>1. /\ blk[n] \in Nat /\ m[blk[n]] \in Nat
      /\ blk[n] + 2 + 4 * i \in Address /\ blk[n] + 2 + 4 * i + 2 \in Address
  BY ElementInBlock
<1>2. i \in Nat /\ Top \in Nat
  BY <1>1, MemoryConstants
<1>3. blk[n] + 2 + 4 * i < Top
  BY <1>1, AddressFacts
<1>4. PICK b \in Nat : b = blk[n]
  BY <1>1
<1>5. b + 2 + 4 * i < Top
  BY <1>3, <1>4
<1>6. 4 * i \in 0..(Top - 1)
  BY <1>2, <1>5
<1>7. Wrap(4 * i) = 4 * i
  BY <1>6, WrapFacts DEF Word
<1>8. /\ Wrap(blk[n] + 2 + 4 * i) = blk[n] + 2 + 4 * i
      /\ Wrap(blk[n] + 2 + 4 * i + 2) = blk[n] + 2 + 4 * i + 2
  BY <1>1, WrapFacts DEF Address
<1> QED
  BY <1>7, <1>8

\* An expression reads what lies there.
LEMMA HeldFacts ==
  \A rec, to, blk, upto : Placed(mem, low, rec, to, blk, upto) =>
    \A n \in Names : ContentsOf(n) = Held(mem, rec, blk, n)
<1> SUFFICES ASSUME NEW rec, NEW to, NEW blk, NEW upto, Placed(mem, low, rec, to, blk, upto),
                    NEW n \in Names
             PROVE  ContentsOf(n) = Held(mem, rec, blk, n)
  OBVIOUS
<1>1. Find(n) = rec[n]
  BY Found DEF Find
<1>2. SpansApart(low, rec, to, blk, upto)
  BY DEF Placed
<1>3. CASE rec[n] = 0
  BY <1>1, <1>3 DEF ContentsOf, Held
<1>4. CASE rec[n] # 0 /\ n \notin Arrays
  <2>1. rec[n] \in Nat /\ rec[n] + 6 \in Address
    BY <1>2, <1>4, RecordAddress
  <2>2. Wrap(rec[n] + 6) = rec[n] + 6 /\ rec[n] + 4 + 2 = rec[n] + 6
    BY <2>1, WrapFacts DEF Address
  <2>3. Value(rec[n] + 4) = <<mem[rec[n] + 4], mem[rec[n] + 6]>>
    BY <2>2 DEF Value
  <2> QED
    BY <1>1, <1>4, <2>3 DEF ContentsOf, Held
<1>5. CASE rec[n] # 0 /\ n \in Arrays
  <2>1. Block(n) = blk[n]
    BY <1>1, <1>5 DEF Block, Placed, Blocked
  <2>2. CASE blk[n] = 0
    BY <1>1, <1>5, <2>1, <2>2 DEF ContentsOf, Held
  <2>3. CASE blk[n] # 0
    <3>1. HighSubscript(n) = mem[blk[n]]
      BY <2>1 DEF HighSubscript
    <3>2. ASSUME NEW i \in 0..mem[blk[n]]
          PROVE  Value(Element(n, i)) = <<mem[blk[n] + 2 + 4 * i], mem[blk[n] + 2 + 4 * i + 2]>>
      <4>1. /\ Wrap(blk[n] + 2 + Wrap(4 * i)) = blk[n] + 2 + 4 * i
            /\ Wrap(blk[n] + 2 + 4 * i + 2) = blk[n] + 2 + 4 * i + 2
        BY <1>5, <2>3, ElementAddress
      <4>2. Element(n, i) = blk[n] + 2 + 4 * i
        BY <2>1, <4>1 DEF Element
      <4> QED
        BY <4>1, <4>2 DEF Value
    <3>3. [i \in 0..HighSubscript(n) |-> Value(Element(n, i))]
            = [i \in 0..mem[blk[n]] |-> <<mem[blk[n] + 2 + 4 * i], mem[blk[n] + 2 + 4 * i + 2]>>]
      BY <3>1, <3>2
    <3>4. ContentsOf(n) = [kind |-> "array",
                           elements |-> [i \in 0..HighSubscript(n) |-> Value(Element(n, i))]]
      BY <1>1, <1>5, <2>1, <2>3 DEF ContentsOf
    <3>5. Held(mem, rec, blk, n) =
            [kind |-> "array",
             elements |-> [i \in 0..mem[blk[n]] |->
                            <<mem[blk[n] + 2 + 4 * i], mem[blk[n] + 2 + 4 * i + 2]>>]]
      BY <1>5, <2>3 DEF Held
    <3> QED
      BY <3>3, <3>4, <3>5
  <2> QED
    BY <2>2, <2>3
<1> QED
  BY <1>3, <1>4, <1>5

\* The word at x is not of k.
Elsewhere(x, rec, to, blk, upto, k) ==
  /\ rec[k] # 0 => ~(rec[k] <= x /\ x < to[k])
  /\ blk[k] # 0 => ~(blk[k] <= x /\ x < upto[k])

\* What m2 changes below lo is not of k.
Spares(m, m2, lo, rec, to, blk, upto, k) ==
  \A a \in Address : a < lo => m2[a] = m[a] \/ Elsewhere(a, rec, to, blk, upto, k)

LEMMA OthersElsewhere ==
  ASSUME NEW lo, NEW rec, NEW to, NEW blk, NEW upto, SpansApart(lo, rec, to, blk, upto),
         NEW n \in Names, NEW k \in Names, NEW x \in Int,
         \/ x < Low
         \/ n # k /\ rec[n] # 0 /\ rec[n] <= x /\ x < to[n]
         \/ n # k /\ blk[n] # 0 /\ blk[n] <= x /\ x < upto[n]
  PROVE  Elsewhere(x, rec, to, blk, upto, k)
<1>1. /\ rec[n] \in Nat /\ to[n] \in Int /\ rec[k] \in Nat /\ to[k] \in Int
      /\ blk[n] \in Nat /\ upto[n] \in Int /\ blk[k] \in Nat /\ upto[k] \in Int /\ Low \in Nat
  BY MemoryConstants, AddressFacts DEF SpansApart
<1>2. /\ rec[k] # 0 => Low <= rec[k]
      /\ blk[k] # 0 => Low <= blk[k]
  BY DEF SpansApart
<1>3. n # k =>
        /\ rec[n] # 0 /\ rec[k] # 0 => to[n] <= rec[k] \/ to[k] <= rec[n]
        /\ blk[n] # 0 /\ blk[k] # 0 => upto[n] <= blk[k] \/ upto[k] <= blk[n]
        /\ rec[n] # 0 /\ blk[k] # 0 => to[n] <= blk[k] \/ upto[k] <= rec[n]
        /\ rec[k] # 0 /\ blk[n] # 0 => to[k] <= blk[n] \/ upto[n] <= rec[k]
  BY DEF SpansApart
<1>4. ASSUME rec[k] # 0 PROVE ~(rec[k] <= x /\ x < to[k])
  BY <1>1, <1>2, <1>3, <1>4
<1>5. ASSUME blk[k] # 0 PROVE ~(blk[k] <= x /\ x < upto[k])
  BY <1>1, <1>2, <1>3, <1>5
<1> QED
  BY <1>4, <1>5 DEF Elsewhere

Unmoved(rec, rec2, blk, blk2, k) == rec2[k] = rec[k] /\ blk2[k] = blk[k]

LEMMA HeldAlike ==
  ASSUME NEW m, NEW m2, NEW lo, NEW rec, NEW to, NEW blk, NEW upto, NEW rec2, NEW blk2,
         Placed(m, lo, rec, to, blk, upto), NEW k \in Names, Unmoved(rec, rec2, blk, blk2, k),
         Spares(m, m2, lo, rec, to, blk, upto, k)
  PROVE  Held(m2, rec2, blk2, k) = Held(m, rec, blk, k)
<1>1. SpansApart(lo, rec, to, blk, upto)
  BY DEF Placed
<1>2. ASSUME rec[k] # 0
      PROVE  m2[rec[k] + 4] = m[rec[k] + 4] /\ m2[rec[k] + 6] = m[rec[k] + 6]
  <2>1. /\ rec[k] \in Nat /\ rec[k] + 4 \in Address /\ rec[k] + 4 < lo
        /\ rec[k] + 6 \in Address /\ rec[k] + 6 < lo
    BY <1>1, <1>2, RecordAddress
  <2>2. rec[k] + 8 <= to[k] /\ to[k] \in Int
    BY <1>1, <1>2 DEF SpansApart
  <2>3. /\ rec[k] <= rec[k] + 4 /\ rec[k] + 4 < to[k]
        /\ rec[k] <= rec[k] + 6 /\ rec[k] + 6 < to[k]
    BY <2>1, <2>2
  <2>4. /\ ~Elsewhere(rec[k] + 4, rec, to, blk, upto, k)
        /\ ~Elsewhere(rec[k] + 6, rec, to, blk, upto, k)
    BY <1>2, <2>3 DEF Elsewhere
  <2> QED
    BY <2>1, <2>4 DEF Spares
<1>3. ASSUME k \in Arrays, blk[k] # 0
      PROVE  /\ m2[blk[k]] = m[blk[k]]
             /\ \A i \in 0..m[blk[k]] :
                  /\ m2[blk[k] + 2 + 4 * i] = m[blk[k] + 2 + 4 * i]
                  /\ m2[blk[k] + 2 + 4 * i + 2] = m[blk[k] + 2 + 4 * i + 2]
  <2>1. /\ blk[k] \in Address /\ blk[k] \in Nat /\ lo \in Nat /\ upto[k] \in Int
        /\ blk[k] + 6 <= upto[k] /\ upto[k] <= lo
    BY <1>1, <1>3, AddressFacts DEF SpansApart
  <2>2. ASSUME NEW a \in Address, blk[k] <= a, a < upto[k] PROVE m2[a] = m[a]
    <3>1. a < lo
      BY <2>1, <2>2, AddressFacts
    <3>2. ~Elsewhere(a, rec, to, blk, upto, k)
      BY <1>3, <2>2 DEF Elsewhere
    <3> QED
      BY <3>1, <3>2 DEF Spares
  <2>3. m2[blk[k]] = m[blk[k]]
    <3>1. blk[k] <= blk[k] /\ blk[k] < upto[k]
      BY <2>1
    <3> QED
      BY <2>1, <2>2, <3>1
  <2>4. ASSUME NEW i \in 0..m[blk[k]]
        PROVE  /\ m2[blk[k] + 2 + 4 * i] = m[blk[k] + 2 + 4 * i]
               /\ m2[blk[k] + 2 + 4 * i + 2] = m[blk[k] + 2 + 4 * i + 2]
    <3>1. /\ 2 + 4 * i \in Nat
          /\ blk[k] + 2 + 4 * i \in Address /\ blk[k] + 2 + 4 * i + 2 \in Address
          /\ blk[k] + 2 <= blk[k] + 2 + 4 * i /\ blk[k] + 2 + 4 * i + 4 <= upto[k]
      BY <1>3, ElementInBlock
    <3>2. PICK a \in Address : a = blk[k] + 2 + 4 * i
      BY <3>1
    <3>3. /\ a \in Nat /\ a + 2 \in Address /\ blk[k] + 2 <= a /\ a + 4 <= upto[k]
      BY <3>1, <3>2, AddressFacts
    <3>4. blk[k] <= a /\ a < upto[k] /\ blk[k] <= a + 2 /\ a + 2 < upto[k]
      BY <2>1, <3>3
    <3>5. m2[a] = m[a] /\ m2[a + 2] = m[a + 2]
      BY <2>2, <3>3, <3>4
    <3> QED
      BY <3>2, <3>5
  <2> QED
    BY <2>3, <2>4
<1>4. CASE rec[k] = 0
  BY <1>4 DEF Held, Unmoved
<1>5. CASE rec[k] # 0 /\ k \notin Arrays
  BY <1>2, <1>5 DEF Held, Unmoved
<1>6. CASE rec[k] # 0 /\ k \in Arrays /\ blk[k] = 0
  BY <1>6 DEF Held, Unmoved
<1>7. CASE rec[k] # 0 /\ k \in Arrays /\ blk[k] # 0
  <2>1. [i \in 0..m2[blk[k]] |-> <<m2[blk[k] + 2 + 4 * i], m2[blk[k] + 2 + 4 * i + 2]>>]
          = [i \in 0..m[blk[k]] |-> <<m[blk[k] + 2 + 4 * i], m[blk[k] + 2 + 4 * i + 2]>>]
    BY <1>3, <1>7
  <2> QED
    BY <1>7, <2>1 DEF Held, Unmoved
<1> QED
  BY <1>4, <1>5, <1>6, <1>7

MadeFrom(m, m2, lo, lo2, rec, to, blk, upto, rec2, n, typed) ==
  /\ Placed(m, lo, rec, to, blk, upto) /\ n \in Names /\ rec[n] = 0 /\ typed \in BOOLEAN
  /\ Made(m, m2, lo, lo2, n, typed) /\ rec2 = [rec EXCEPT ![n] = lo]
HasMade(m, m2, rec, blk, rec2, n) ==
  /\ Held(m, rec, blk, n) = [kind |-> "none"]
  /\ Held(m2, rec2, blk, n) =
       IF n \in Arrays THEN [kind |-> "broken"] ELSE [kind |-> "integer", value |-> Zero]
  /\ \A k \in Names : k # n => Held(m2, rec2, blk, k) = Held(m, rec, blk, k)

LEMMA MadeHeld ==
  ASSUME NEW m, NEW m2, NEW lo, NEW lo2, NEW rec, NEW to, NEW blk, NEW upto, NEW rec2, NEW n, NEW typed,
         MadeFrom(m, m2, lo, lo2, rec, to, blk, upto, rec2, n, typed)
  PROVE  HasMade(m, m2, rec, blk, rec2, n)
<1> SUFFICES ASSUME Placed(m, lo, rec, to, blk, upto), n \in Names, rec[n] = 0, typed \in BOOLEAN,
                    Made(m, m2, lo, lo2, n, typed), rec2 = [rec EXCEPT ![n] = lo]
             PROVE  HasMade(m, m2, rec, blk, rec2, n)
  BY DEF MadeFrom
<1>1. SpansApart(lo, rec, to, blk, upto)
  BY DEF Placed
<1>2. lo \in Address /\ Low <= lo /\ rec \in [Names -> Address] /\ blk[n] = 0
  BY <1>1 DEF SpansApart
<1>3. lo # 0
  <2>1. 6 < Low /\ lo \in Nat /\ Low \in Nat
    BY <1>2, MemoryNumbers, AddressFacts
  <2> QED
    BY <1>2, <2>1
<1>4. rec2[n] = lo /\ \A k \in Names : k # n => rec2[k] = rec[k]
  BY <1>2
<1>5. Held(m, rec, blk, n) = [kind |-> "none"]
  BY DEF Held
<1>6. m2[lo + 4] = 0 /\ m2[lo + 6] = 0
  BY DEF Made
<1>7. Held(m2, rec2, blk, n) =
        IF n \in Arrays THEN [kind |-> "broken"] ELSE [kind |-> "integer", value |-> Zero]
  BY <1>2, <1>3, <1>4, <1>6 DEF Held, Zero
<1>8. ASSUME NEW k \in Names, k # n PROVE Held(m2, rec2, blk, k) = Held(m, rec, blk, k)
  <2>1. ASSUME NEW a \in Address, a < lo PROVE m2[a] = m[a] \/ Elsewhere(a, rec, to, blk, upto, k)
    <3>1. CASE a = HeadAt[n]
      <4>1. a \in Int /\ a < Low
        BY <2>1, <3>1, MemoryNumbers
      <4> QED
        BY <1>1, <4>1, OthersElsewhere
    <3>2. CASE a # HeadAt[n]
      BY <2>1, <3>2 DEF Made
    <3> QED
      BY <3>1, <3>2
  <2>2. Spares(m, m2, lo, rec, to, blk, upto, k)
    BY <2>1 DEF Spares
  <2>3. Unmoved(rec, rec2, blk, blk, k)
    BY <1>4, <1>8 DEF Unmoved
  <2> QED
    BY <2>2, <2>3, HeldAlike
<1> QED
  BY <1>5, <1>7, <1>8 DEF HasMade

CutFrom(m, m2, lo, lo2, rec, to, blk, upto, blk2, upto2, n, size) ==
  /\ Placed(m, lo, rec, to, blk, upto) /\ n \in Arrays /\ rec[n] # 0 /\ blk[n] = 0
  /\ Cut(m, m2, rec[n], lo, lo2, size)
  /\ blk2 = [blk EXCEPT ![n] = lo] /\ upto2 = [upto EXCEPT ![n] = lo2]
HasCut(m, m2, rec, blk, blk2, n, size) ==
  /\ Held(m, rec, blk, n) = [kind |-> "broken"]
  /\ Held(m2, rec, blk2, n) = [kind |-> "array", elements |-> [i \in 0..size |-> Zero]]
  /\ \A k \in Names : k # n => Held(m2, rec, blk2, k) = Held(m, rec, blk, k)

LEMMA CutHeld ==
  ASSUME NEW m, NEW m2, NEW lo, NEW lo2, NEW rec, NEW to, NEW blk, NEW upto, NEW blk2, NEW upto2,
         NEW n, NEW size, CutFrom(m, m2, lo, lo2, rec, to, blk, upto, blk2, upto2, n, size)
  PROVE  HasCut(m, m2, rec, blk, blk2, n, size)
<1> SUFFICES ASSUME Placed(m, lo, rec, to, blk, upto), n \in Arrays, rec[n] # 0, blk[n] = 0,
                    Cut(m, m2, rec[n], lo, lo2, size),
                    blk2 = [blk EXCEPT ![n] = lo], upto2 = [upto EXCEPT ![n] = lo2]
             PROVE  HasCut(m, m2, rec, blk, blk2, n, size)
  BY DEF CutFrom
<1>1. SpansApart(lo, rec, to, blk, upto) /\ n \in Names
  BY MemoryConstants DEF Placed
<1>2. /\ lo \in Address /\ Low <= lo /\ blk \in [Names -> Address] /\ upto \in [Names -> Int]
  BY <1>1 DEF SpansApart
<1>3. lo # 0
  <2>1. 6 < Low /\ lo \in Nat /\ Low \in Nat
    BY <1>1, <1>2, MemoryNumbers, AddressFacts
  <2> QED
    BY <1>2, <2>1
<1>4. /\ blk2[n] = lo /\ upto2[n] = lo2
      /\ \A k \in Names : k # n => blk2[k] = blk[k]
  BY <1>1, <1>2
<1>5. Held(m, rec, blk, n) = [kind |-> "broken"]
  BY DEF Held
<1>6. Placed(m2, lo2, rec, to, blk2, upto2)
  BY NewBlockPlaced
<1>7. m2[lo] = size /\ lo2 \in Address /\ \A a \in Address : lo < a /\ a < lo2 => m2[a] = 0
  BY DEF Cut
<1>8. ASSUME NEW i \in 0..size PROVE m2[lo + 2 + 4 * i] = 0 /\ m2[lo + 2 + 4 * i + 2] = 0
  <2>1. i \in 0..m2[blk2[n]] /\ blk2[n] # 0
    BY <1>3, <1>4, <1>7
  <2>2. /\ 2 + 4 * i \in Nat
        /\ blk2[n] + 2 + 4 * i \in Address /\ blk2[n] + 2 + 4 * i + 2 \in Address
        /\ blk2[n] + 2 <= blk2[n] + 2 + 4 * i /\ blk2[n] + 2 + 4 * i + 4 <= upto2[n]
    BY <1>6, <2>1, ElementInBlock
  <2>3. PICK a \in Address : a = lo + 2 + 4 * i
    BY <1>4, <2>2
  <2>4. /\ a + 2 \in Address /\ lo + 2 <= a /\ a + 4 <= lo2
    BY <1>4, <2>2, <2>3
  <2>5. lo < a /\ a < lo2 /\ lo < a + 2 /\ a + 2 < lo2
    <3>1. a \in Nat /\ lo \in Nat /\ lo2 \in Nat
      BY <1>2, <1>7, AddressFacts
    <3> QED
      BY <2>4, <3>1
  <2>6. m2[a] = 0 /\ m2[a + 2] = 0
    BY <1>7, <2>4, <2>5
  <2> QED
    BY <2>3, <2>6
<1>9. Held(m2, rec, blk2, n) = [kind |-> "array", elements |-> [i \in 0..size |-> Zero]]
  <2>1. [i \in 0..size |-> <<m2[lo + 2 + 4 * i], m2[lo + 2 + 4 * i + 2]>>] = [i \in 0..size |-> Zero]
    BY <1>8 DEF Zero
  <2>2. Held(m2, rec, blk2, n) =
          [kind |-> "array",
           elements |-> [i \in 0..size |-> <<m2[lo + 2 + 4 * i], m2[lo + 2 + 4 * i + 2]>>]]
    <3>1. PICK b : b = blk2[n] /\ b # 0 /\ m2[b] = size /\ b = lo
      BY <1>3, <1>4, <1>7
    <3>2. Held(m2, rec, blk2, n) =
            [kind |-> "array",
             elements |-> [i \in 0..m2[b] |-> <<m2[b + 2 + 4 * i], m2[b + 2 + 4 * i + 2]>>]]
      BY <3>1 DEF Held
    <3> QED
      BY <3>1, <3>2
  <2> QED
    BY <2>1, <2>2
<1>10. ASSUME NEW k \in Names, k # n PROVE Held(m2, rec, blk2, k) = Held(m, rec, blk, k)
  <2>1. ASSUME NEW a \in Address, a < lo PROVE m2[a] = m[a] \/ Elsewhere(a, rec, to, blk, upto, k)
    <3>1. CASE a = rec[n] + 4
      <4>1. rec[n] \in Nat /\ to[n] \in Int /\ rec[n] + 8 <= to[n]
        BY <1>1, AddressFacts DEF SpansApart
      <4>2. a \in Int /\ rec[n] <= a /\ a < to[n]
        BY <3>1, <4>1
      <4> QED
        BY <1>1, <1>10, <4>2, OthersElsewhere
    <3>2. CASE a # rec[n] + 4
      BY <2>1, <3>2 DEF Cut
    <3> QED
      BY <3>1, <3>2
  <2>2. Spares(m, m2, lo, rec, to, blk, upto, k)
    BY <2>1 DEF Spares
  <2>3. Unmoved(rec, rec, blk, blk2, k)
    BY <1>4, <1>10 DEF Unmoved
  <2> QED
    BY <2>2, <2>3, HeldAlike
<1> QED
  BY <1>5, <1>9, <1>10 DEF HasCut

StoredFrom(m, m2, lo, rec, to, blk, upto, n, a, v) ==
  /\ Placed(m, lo, rec, to, blk, upto) /\ ValueAt(m, rec, blk, n, a)
  /\ m2 = [m EXCEPT ![a] = v[1], ![Wrap(a + 2)] = v[2]]
HasStored(m, m2, rec, blk, n, v) ==
  /\ n \notin Arrays =>
       /\ Held(m, rec, blk, n).kind = "integer"
       /\ Held(m2, rec, blk, n) = [kind |-> "integer", value |-> <<v[1], v[2]>>]
  /\ n \in Arrays /\ blk[n] # 0 =>
       /\ Held(m, rec, blk, n).kind = "array" /\ Held(m2, rec, blk, n).kind = "array"
       /\ \E i \in DOMAIN Held(m, rec, blk, n).elements :
            Held(m2, rec, blk, n).elements =
              [Held(m, rec, blk, n).elements EXCEPT ![i] = <<v[1], v[2]>>]
  /\ n \in Arrays /\ blk[n] = 0 => Held(m2, rec, blk, n) = Held(m, rec, blk, n)
  /\ \A k \in Names : k # n => Held(m2, rec, blk, k) = Held(m, rec, blk, k)

LEMMA StoreHeld ==
  ASSUME NEW m, NEW m2, NEW lo, NEW rec, NEW to, NEW blk, NEW upto, NEW n, NEW a, NEW v,
         StoredFrom(m, m2, lo, rec, to, blk, upto, n, a, v)
  PROVE  HasStored(m, m2, rec, blk, n, v)
<1> SUFFICES ASSUME Placed(m, lo, rec, to, blk, upto), ValueAt(m, rec, blk, n, a),
                    m2 = [m EXCEPT ![a] = v[1], ![Wrap(a + 2)] = v[2]]
             PROVE  HasStored(m, m2, rec, blk, n, v)
  BY DEF StoredFrom
<1>1. /\ SpansApart(lo, rec, to, blk, upto) /\ n \in Names /\ rec[n] # 0
      /\ m \in [Address -> Nat] /\ lo \in Nat
  BY AddressFacts DEF Placed, ValueAt, SpansApart
<1>2. a \in Address /\ a + 2 \in Address /\ Wrap(a + 2) = a + 2 /\ a \in Nat /\ a # a + 2
  BY ValueAtIsWritable, AddressFacts
<1>3. /\ m2[a] = v[1] /\ m2[a + 2] = v[2]
      /\ \A b \in Address : b # a /\ b # a + 2 => m2[b] = m[b]
  BY <1>1, <1>2
<1>4. CASE n \notin Arrays
  <2>1. a = rec[n] + 4 /\ rec[n] \in Nat
    BY <1>1, <1>4, RecordAddress DEF ValueAt
  <2>2. a + 2 = rec[n] + 6
    BY <2>1
  <2>3. m2[rec[n] + 4] = v[1] /\ m2[rec[n] + 6] = v[2]
    BY <1>3, <2>1, <2>2
  <2>4. /\ Held(m, rec, blk, n).kind = "integer"
        /\ Held(m2, rec, blk, n) = [kind |-> "integer", value |-> <<v[1], v[2]>>]
    BY <1>1, <1>4, <2>3 DEF Held
  <2>5. ASSUME NEW k \in Names, k # n PROVE Held(m2, rec, blk, k) = Held(m, rec, blk, k)
    <3>1. rec[n] + 8 <= to[n] /\ to[n] \in Int
      BY <1>1 DEF SpansApart
    <3>2. /\ Elsewhere(a, rec, to, blk, upto, k)
          /\ Elsewhere(a + 2, rec, to, blk, upto, k)
      <4>1. /\ a \in Int /\ rec[n] <= a /\ a < to[n]
            /\ a + 2 \in Int /\ rec[n] <= a + 2 /\ a + 2 < to[n]
        BY <2>1, <3>1
      <4> QED
        BY <1>1, <2>5, <4>1, OthersElsewhere
    <3>3. Spares(m, m2, lo, rec, to, blk, upto, k)
      BY <1>3, <3>2 DEF Spares
    <3> QED
      BY <3>3, HeldAlike DEF Unmoved
  <2> QED
    BY <1>4, <2>4, <2>5 DEF HasStored
<1>5. CASE n \in Arrays /\ blk[n] # 0
  <2>1. PICK i \in 0..m[blk[n]] : a = blk[n] + 2 + 4 * i
    BY <1>5 DEF ValueAt
  <2>2. \A j \in 0..m[blk[n]] :
          /\ m[blk[n]] \in Nat /\ blk[n] \in Nat
          /\ blk[n] + 2 + 4 * j \in Address /\ blk[n] + 2 + 4 * j + 2 \in Address
          /\ blk[n] + 2 <= blk[n] + 2 + 4 * j /\ blk[n] + 2 + 4 * j + 4 <= upto[n]
    BY <1>5, ElementInBlock
  <2>3. blk[n] + 2 <= a /\ a + 4 <= upto[n] /\ blk[n] \in Nat /\ upto[n] \in Int
        /\ m[blk[n]] \in Nat /\ blk[n] \in Address
    BY <1>1, <2>1, <2>2 DEF SpansApart
  <2>4. m2[blk[n]] = m[blk[n]]
    <3>1. blk[n] # a /\ blk[n] # a + 2
      BY <1>2, <2>3
    <3> QED
      BY <1>3, <2>3, <3>1
  <2> DEFINE old == [j \in 0..m[blk[n]] |-> <<m[blk[n] + 2 + 4 * j], m[blk[n] + 2 + 4 * j + 2]>>]
             new == [j \in 0..m[blk[n]] |-> <<m2[blk[n] + 2 + 4 * j], m2[blk[n] + 2 + 4 * j + 2]>>]
  <2>5. ASSUME NEW j \in 0..m[blk[n]], j # i
        PROVE  /\ m2[blk[n] + 2 + 4 * j] = m[blk[n] + 2 + 4 * j]
               /\ m2[blk[n] + 2 + 4 * j + 2] = m[blk[n] + 2 + 4 * j + 2]
    <3>1. PICK h \in Nat : h = m[blk[n]]
      BY <2>3
    <3>2. i \in Nat /\ j \in Nat
      BY <3>1
    <3>3. PICK b \in Nat : b = blk[n]
      BY <2>3
    <3>4. PICK c \in Address : c = blk[n] + 2 + 4 * j /\ c + 2 \in Address
      BY <2>2
    <3>5. a = b + 2 + 4 * i /\ c = b + 2 + 4 * j
      BY <2>1, <3>3, <3>4
    <3>6. c # a /\ c # a + 2 /\ c + 2 # a /\ c + 2 # a + 2
      BY <2>5, <3>2, <3>3, <3>5
    <3>7. m2[c] = m[c] /\ m2[c + 2] = m[c + 2]
      BY <1>3, <3>4, <3>6
    <3> QED
      BY <3>4, <3>7
  <2>6. new[i] = <<v[1], v[2]>>
    <3>1. new[i] = <<m2[blk[n] + 2 + 4 * i], m2[blk[n] + 2 + 4 * i + 2]>>
      OBVIOUS
    <3>2. m2[blk[n] + 2 + 4 * i] = v[1] /\ m2[blk[n] + 2 + 4 * i + 2] = v[2]
      BY <1>3, <2>1
    <3> HIDE DEF new
    <3> QED
      BY <3>1, <3>2
  <2>7. ASSUME NEW j \in 0..m[blk[n]], j # i PROVE new[j] = old[j]
    <3>1. /\ new[j] = <<m2[blk[n] + 2 + 4 * j], m2[blk[n] + 2 + 4 * j + 2]>>
          /\ old[j] = <<m[blk[n] + 2 + 4 * j], m[blk[n] + 2 + 4 * j + 2]>>
      OBVIOUS
    <3>2. /\ m2[blk[n] + 2 + 4 * j] = m[blk[n] + 2 + 4 * j]
          /\ m2[blk[n] + 2 + 4 * j + 2] = m[blk[n] + 2 + 4 * j + 2]
      BY <2>5, <2>7
    <3> HIDE DEF new, old
    <3> QED
      BY <3>1, <3>2
  <2>8. DOMAIN old = 0..m[blk[n]] /\ new = [j \in 0..m[blk[n]] |-> new[j]]
    <3>1. DOMAIN old = 0..m[blk[n]]
      OBVIOUS
    <3>2. new = [j \in 0..m[blk[n]] |-> new[j]]
      <4> DEFINE word(j) == <<m2[blk[n] + 2 + 4 * j], m2[blk[n] + 2 + 4 * j + 2]>>
      <4>1. new = [j \in 0..m[blk[n]] |-> word(j)]
        OBVIOUS
      <4> HIDE DEF word, new
      <4>2. \A j \in 0..m[blk[n]] : new[j] = word(j)
        BY <4>1
      <4> QED
        BY <4>1, <4>2
    <3> QED
      BY <3>1, <3>2
  <2>9. Held(m, rec, blk, n) = [kind |-> "array", elements |-> old]
    BY <1>1, <1>5 DEF Held
  <2>10. Held(m2, rec, blk, n) = [kind |-> "array", elements |-> new]
    BY <1>1, <1>5, <2>4 DEF Held
  <2> HIDE DEF old, new
  <2>11. new = [old EXCEPT ![i] = <<v[1], v[2]>>]
    BY <2>6, <2>7, <2>8
  <2>12. /\ Held(m, rec, blk, n).kind = "array" /\ Held(m2, rec, blk, n).kind = "array"
         /\ Held(m, rec, blk, n).elements = old /\ Held(m2, rec, blk, n).elements = new
    BY <2>9, <2>10
  <2>13. \E j \in DOMAIN Held(m, rec, blk, n).elements :
           Held(m2, rec, blk, n).elements =
             [Held(m, rec, blk, n).elements EXCEPT ![j] = <<v[1], v[2]>>]
    BY <2>8, <2>11, <2>12
  <2>14. ASSUME NEW k \in Names, k # n PROVE Held(m2, rec, blk, k) = Held(m, rec, blk, k)
    <3>1. /\ Elsewhere(a, rec, to, blk, upto, k)
          /\ Elsewhere(a + 2, rec, to, blk, upto, k)
      <4>1. /\ a \in Int /\ blk[n] <= a /\ a < upto[n]
            /\ a + 2 \in Int /\ blk[n] <= a + 2 /\ a + 2 < upto[n]
        BY <1>2, <2>3
      <4> QED
        BY <1>1, <1>5, <2>14, <4>1, OthersElsewhere
    <3>2. Spares(m, m2, lo, rec, to, blk, upto, k)
      BY <1>3, <3>1 DEF Spares
    <3> QED
      BY <3>2, HeldAlike DEF Unmoved
  <2> QED
    BY <1>5, <2>12, <2>13, <2>14 DEF HasStored
<1>6. CASE n \in Arrays /\ blk[n] = 0
  <2>1. a = 2 /\ a + 2 = 4
    BY <1>6 DEF ValueAt
  <2>2. 2 < Low /\ 4 < Low
    BY <1>1, MemoryNumbers
  <2>3. ASSUME NEW k \in Names PROVE Held(m2, rec, blk, k) = Held(m, rec, blk, k)
    <3>1. /\ Elsewhere(2, rec, to, blk, upto, k)
          /\ Elsewhere(4, rec, to, blk, upto, k)
      BY <1>1, <2>2, OthersElsewhere
    <3>2. Spares(m, m2, lo, rec, to, blk, upto, k)
      BY <1>3, <2>1, <3>1 DEF Spares
    <3> QED
      BY <3>2, HeldAlike DEF Unmoved
  <2> QED
    BY <1>1, <1>6, <2>3 DEF HasStored
<1> QED
  BY <1>4, <1>5, <1>6

-----------------------------------------------------------------------------
(* The theorems about the memory. *)

LEMMA ContentsAre ==
  \A rec, to, blk, upto :
    Laid(rec, to, blk, upto) => contentsBar = [n \in Names |-> Held(mem, rec, blk, n)]
<1> SUFFICES ASSUME NEW rec, NEW to, NEW blk, NEW upto, Laid(rec, to, blk, upto)
             PROVE  contentsBar = [n \in Names |-> Held(mem, rec, blk, n)]
  OBVIOUS
<1>1. \A n \in Names : ContentsOf(n) = Held(mem, rec, blk, n)
  BY HeldFacts DEF Laid
<1> QED
  BY <1>1 DEF contentsBar

Reads == \A rec, to, blk, upto :
           Laid(rec, to, blk, upto) => contentsBar = [n \in Names |-> Held(mem, rec, blk, n)]

LEMMA ReadsNow == Reads
BY ContentsAre DEF Reads

LEMMA ReadsLater == Reads'
BY ReadsNow, PTL

LEMMA ContentsBecome ==
  ASSUME NEW rec, NEW to, NEW blk, NEW upto, Laid(rec, to, blk, upto)'
  PROVE  contentsBar' = [n \in Names |-> Held(mem', rec, blk, n)]
BY ReadsLater DEF Reads

\* What a step does to memory is what a statement may do to the variables.
LEMMA StepsImplement ==
  ASSUME NEW rec, NEW to, NEW blk, NEW upto, Laid(rec, to, blk, upto),
         \/ Quiet(rec, to, blk, upto) \/ Makes(rec, to, blk, upto)
         \/ Stores(rec, to, blk, upto) \/ Cuts(rec, to, blk, upto) \/ Clears
  PROVE  V!Next \/ contentsBar' = contentsBar
<1>1. /\ contentsBar = [n \in Names |-> Held(mem, rec, blk, n)]
      /\ Placed(mem, low, rec, to, blk, upto)
  BY ContentsAre DEF Laid
<1>2. ASSUME NEW r, NEW t, NEW b, NEW u, Laid(r, t, b, u)'
      PROVE  contentsBar' = [n \in Names |-> Held(mem', r, b, n)]
  BY <1>2, ContentsBecome
<1>3. CASE Quiet(rec, to, blk, upto)
  <2>1. mem' = mem /\ Laid(rec, to, blk, upto)'
    BY <1>3 DEF Quiet
  <2>2. contentsBar' = [n \in Names |-> Held(mem', rec, blk, n)]
    BY <1>2, <2>1
  <2> QED
    BY <1>1, <2>1, <2>2
<1>4. CASE Makes(rec, to, blk, upto)
  <2>1. PICK n \in Names, typed \in BOOLEAN : \E rec2, to2 :
          /\ rec[n] = 0 /\ Made(mem, mem', low, low', n, typed)
          /\ rec2 = [rec EXCEPT ![n] = low] /\ to2 = [to EXCEPT ![n] = low']
          /\ Laid(rec2, to2, blk, upto)'
    BY <1>4 DEF Makes
  <2>2. PICK rec2, to2 :
          /\ rec[n] = 0 /\ Made(mem, mem', low, low', n, typed)
          /\ rec2 = [rec EXCEPT ![n] = low] /\ Laid(rec2, to2, blk, upto)'
    BY <2>1
  <2>3. contentsBar' = [k \in Names |-> Held(mem', rec2, blk, k)]
    BY <1>2, <2>2
  <2>4. /\ Held(mem, rec, blk, n) = [kind |-> "none"]
        /\ Held(mem', rec2, blk, n) =
             IF n \in Arrays THEN [kind |-> "broken"] ELSE [kind |-> "integer", value |-> Zero]
        /\ \A k \in Names : k # n => Held(mem', rec2, blk, k) = Held(mem, rec, blk, k)
    <3>1. /\ Placed(mem, low, rec, to, blk, upto) /\ rec[n] = 0
          /\ Made(mem, mem', low, low', n, typed) /\ rec2 = [rec EXCEPT ![n] = low]
      BY <1>1, <2>2
    <3> QED
      <4>1. MadeFrom(mem, mem', low, low', rec, to, blk, upto, rec2, n, typed)
        BY <3>1 DEF MadeFrom
      <4> QED
        BY <4>1, MadeHeld DEF HasMade
  <2>5. /\ contentsBar[n] = [kind |-> "none"]
        /\ contentsBar'[n] =
             IF n \in Arrays THEN [kind |-> "broken"] ELSE [kind |-> "integer", value |-> Zero]
        /\ \A k \in Names \ {n} : contentsBar'[k] = contentsBar[k]
    BY <1>1, <2>3, <2>4
  <2>6. V!Appear(n, contentsBar[n], contentsBar'[n])
    BY <2>5 DEF V!Appear, V!None, V!Broken, V!Integer
  <2> QED
    BY <2>5, <2>6 DEF V!Next, V!Statement
<1>5. CASE Stores(rec, to, blk, upto)
  <2>1. PICK v \in Values :
          /\ pc = "let" /\ mem' = [mem EXCEPT ![target] = v[1], ![Wrap(target + 2)] = v[2]]
          /\ Laid(rec, to, blk, upto)'
    BY <1>5 DEF Stores
  <2>2. ValueAt(mem, rec, blk, name, target) /\ name \in Names
    BY <2>1 DEF Laid, Aimed, ValueAt
  <2>3. contentsBar' = [k \in Names |-> Held(mem', rec, blk, k)]
    BY <1>2, <2>1
  <2>4. /\ name \notin Arrays =>
             /\ Held(mem, rec, blk, name).kind = "integer"
             /\ Held(mem', rec, blk, name) = [kind |-> "integer", value |-> <<v[1], v[2]>>]
        /\ name \in Arrays /\ blk[name] # 0 =>
             /\ Held(mem, rec, blk, name).kind = "array" /\ Held(mem', rec, blk, name).kind = "array"
             /\ \E i \in DOMAIN Held(mem, rec, blk, name).elements :
                  Held(mem', rec, blk, name).elements =
                    [Held(mem, rec, blk, name).elements EXCEPT ![i] = <<v[1], v[2]>>]
        /\ name \in Arrays /\ blk[name] = 0 =>
             Held(mem', rec, blk, name) = Held(mem, rec, blk, name)
        /\ \A k \in Names : k # name => Held(mem', rec, blk, k) = Held(mem, rec, blk, k)
    <3>1. /\ Placed(mem, low, rec, to, blk, upto)
          /\ mem' = [mem EXCEPT ![target] = v[1], ![Wrap(target + 2)] = v[2]]
      BY <1>1, <2>1
    <3> QED
      <4>1. StoredFrom(mem, mem', low, rec, to, blk, upto, name, target, v)
        BY <2>2, <3>1 DEF StoredFrom
      <4>2. HasStored(mem, mem', rec, blk, name, v)
        BY <4>1, StoreHeld
      <4> QED
        BY <4>2, Zenon DEF HasStored
  <2>5. <<v[1], v[2]>> = v /\ v \in Values
    BY VariablesAssumption
  <2>6. /\ contentsBar[name] = Held(mem, rec, blk, name)
        /\ contentsBar'[name] = Held(mem', rec, blk, name)
        /\ \A k \in Names \ {name} : contentsBar'[k] = contentsBar[k]
    BY <1>1, <2>2, <2>3, <2>4
  <2>7. CASE name \notin Arrays
    <3>1. V!LetInteger(contentsBar[name], contentsBar'[name])
      BY <2>4, <2>5, <2>6, <2>7 DEF V!LetInteger
    <3> QED
      BY <2>2, <2>6, <3>1 DEF V!Next, V!Statement
  <2>8. CASE name \in Arrays /\ blk[name] # 0
    <3>2. PICK i \in DOMAIN Held(mem, rec, blk, name).elements :
            Held(mem', rec, blk, name).elements =
              [Held(mem, rec, blk, name).elements EXCEPT ![i] = v]
      BY <2>4, <2>5, <2>8
    <3>3. /\ Held(mem, rec, blk, name).kind = "array" /\ Held(mem', rec, blk, name).kind = "array"
      BY <2>4, <2>8
    <3>4. V!LetElement(Held(mem, rec, blk, name), Held(mem', rec, blk, name))
      BY <2>5, <3>2, <3>3, Zenon DEF V!LetElement
    <3>1. V!LetElement(contentsBar[name], contentsBar'[name])
      BY <2>6, <3>4
    <3> QED
      BY <2>2, <2>6, <3>1 DEF V!Next, V!Statement
  <2>9. CASE name \in Arrays /\ blk[name] = 0
    <3>1. \A k \in Names : Held(mem', rec, blk, k) = Held(mem, rec, blk, k)
      BY <2>4, <2>9
    <3> QED
      BY <1>1, <2>3, <3>1
  <2> QED
    BY <2>7, <2>8, <2>9
<1>6. CASE Cuts(rec, to, blk, upto)
  <2>1. PICK size \in Sizes : \E blk2, upto2 :
          /\ pc = "dim" /\ Cut(mem, mem', rec[name], low, low', size)
          /\ blk2 = [blk EXCEPT ![name] = low] /\ upto2 = [upto EXCEPT ![name] = low']
          /\ Laid(rec, to, blk2, upto2)'
    BY <1>6 DEF Cuts
  <2>2. PICK blk2, upto2 :
          /\ pc = "dim" /\ Cut(mem, mem', rec[name], low, low', size)
          /\ blk2 = [blk EXCEPT ![name] = low] /\ upto2 = [upto EXCEPT ![name] = low']
          /\ Laid(rec, to, blk2, upto2)'
    BY <2>1
  <2>3. name \in Arrays /\ name \in Names /\ rec[name] # 0 /\ blk[name] = 0
    BY <2>2, MemoryConstants DEF Laid, Aimed
  <2>4. contentsBar' = [k \in Names |-> Held(mem', rec, blk2, k)]
    BY <1>2, <2>2
  <2>5. /\ Held(mem, rec, blk, name) = [kind |-> "broken"]
        /\ Held(mem', rec, blk2, name) = [kind |-> "array", elements |-> [i \in 0..size |-> Zero]]
        /\ \A k \in Names : k # name => Held(mem', rec, blk2, k) = Held(mem, rec, blk, k)
    <3>1. /\ Placed(mem, low, rec, to, blk, upto) /\ Cut(mem, mem', rec[name], low, low', size)
          /\ blk2 = [blk EXCEPT ![name] = low] /\ upto2 = [upto EXCEPT ![name] = low']
      BY <1>1, <2>2
    <3> QED
      <4>1. CutFrom(mem, mem', low, low', rec, to, blk, upto, blk2, upto2, name, size)
        BY <2>3, <3>1 DEF CutFrom
      <4> QED
        BY <4>1, CutHeld DEF HasCut
  <2>6. /\ contentsBar[name] = [kind |-> "broken"]
        /\ contentsBar'[name] = [kind |-> "array", elements |-> [i \in 0..size |-> Zero]]
        /\ \A k \in Names \ {name} : contentsBar'[k] = contentsBar[k]
    BY <1>1, <2>3, <2>4, <2>5
  <2>7. V!Dim(contentsBar[name], contentsBar'[name])
    BY <2>6 DEF V!Dim, V!Broken
  <2> QED
    BY <2>3, <2>6, <2>7 DEF V!Next, V!Statement
<1>7. CASE Clears
  <2>1. contentsBar' = [n \in Names |-> Held(mem', Nowhere, Nowhere, n)]
    BY <1>2, <1>7 DEF Clears
  <2>2. \A n \in Names : Held(mem', Nowhere, Nowhere, n) = [kind |-> "none"]
    BY DEF Held, Nowhere
  <2>3. contentsBar' = [n \in Names |-> [kind |-> "none"]]
    BY <2>1, <2>2
  <2> QED
    BY <2>3 DEF V!Next, V!Clear, V!None
<1> QED
  BY <1>3, <1>4, <1>5, <1>6, <1>7

LEMMA InitImplements == Init => V!Init
<1> SUFFICES ASSUME Init PROVE V!Init
  OBVIOUS
<1>1. Laid(Nowhere, Nowhere, Nowhere, Nowhere)
  BY InitPlaced DEF Laid, Aimed, Init
<1>2. contentsBar = [n \in Names |-> Held(mem, Nowhere, Nowhere, n)]
  BY <1>1, ContentsAre
<1>3. \A n \in Names : Held(mem, Nowhere, Nowhere, n) = [kind |-> "none"]
  BY DEF Held, Nowhere
<1> QED
  BY <1>2, <1>3 DEF V!Init, V!None

\* A behaviour in which Block_LowMemoryPtr does not wrap round.  Neither the
\* eight bytes of a record (variable.asm) nor the block of an array (dim.asm)
\* look at the carry of the sum, and an error keeps what was added: only
\* statements that fail, or a DIM larger than what is left of the bank, get it
\* there.
NeverRound == [][Clear \/ low <= low']_vars

\* VariableCreate, DIMCreateArrayBlock and the assignments keep the memory of
\* variables in order: what is found in the chains lies in the memory handed
\* out, and no record, copied name or array block overlaps another one, for
\* every program whose memory pointer does not wrap round and that does not ask
\* for the subscript 65535, the one whose count of elements is 0.  The calls of
\* procedures stay typed as well.
THEOREM MemoryStaysSound ==
  ASSUME Top - 1 \notin Sizes
  PROVE  MCSpec /\ NeverRound => []StoreSound
<1> DEFINE Kept == [Clear \/ low <= low']_vars
<1>1. MCInit => MemoryInv
  BY MemoryInit DEF MCInit
<1>2. MemoryInv /\ [MCNext]_<<part, vars, callVars, pageVars>> /\ Kept => MemoryInv'
  <2> SUFFICES ASSUME MemoryInv, [MCNext]_<<part, vars, callVars, pageVars>>, Kept
               PROVE  MemoryInv'
    OBVIOUS
  <2>1. CASE UNCHANGED vars
    BY <2>1, MemoryStays
  <2>2. CASE ~UNCHANGED vars
    <3>1. Next /\ (Clear \/ low <= low')
      BY <2>2, Zenon DEF MCNext
    <3> QED
      BY <3>1, MemoryNext
  <2> QED
    BY <2>1, <2>2
<1>3. MCSpec => []CallsInv
  BY CallsInvariant
<1>4. MemoryInv /\ CallsInv => StoreSound
  BY MemoryIsSound, CallsAreTyped DEF StoreSound
<1> QED
  BY <1>1, <1>2, <1>3, <1>4, PTL DEF MCSpec, NeverRound

\* Whatever LET, DIM and an identifier in an expression do to the hash chains,
\* the records and the blocks, each statement changes at most the variable it is
\* about: the memory implements a store of integers and arrays, under the same
\* conditions.
THEOREM VariablesAreImplemented ==
  ASSUME Top - 1 \notin Sizes
  PROVE  MCSpec /\ NeverRound => ImplementsVariableStore
<1> DEFINE Kept == [Clear \/ low <= low']_vars
           Maps == [part = "memory" => [V!Next]_contentsBar]_vars
<1>1. MCInit => MemoryInv /\ V!Init
  BY MemoryInit, InitImplements DEF MCInit
<1>2. MemoryInv /\ [MCNext]_<<part, vars, callVars, pageVars>> /\ Kept => MemoryInv' /\ Maps
  <2> SUFFICES ASSUME MemoryInv, [MCNext]_<<part, vars, callVars, pageVars>>, Kept
               PROVE  MemoryInv' /\ Maps
    OBVIOUS
  <2>1. CASE UNCHANGED vars
    BY <2>1, MemoryStays
  <2>2. CASE ~UNCHANGED vars
    <3>1. Next /\ (Clear \/ low <= low')
      BY <2>2, Zenon DEF MCNext
    <3>2. MemoryInv'
      BY <3>1, MemoryNext
    <3>3. PICK rec, to, blk, upto : Laid(rec, to, blk, upto)
      BY DEF MemoryInv
    <3>4. \/ Quiet(rec, to, blk, upto) \/ Makes(rec, to, blk, upto)
          \/ Stores(rec, to, blk, upto) \/ Cuts(rec, to, blk, upto) \/ Clears
      BY <3>1, <3>3, MemorySteps
    <3>5. V!Next \/ contentsBar' = contentsBar
      BY <3>3, <3>4, StepsImplement
    <3> QED
      BY <3>2, <3>5
  <2> QED
    BY <2>1, <2>2
<1> QED
  BY <1>1, <1>2, PTL DEF MCSpec, NeverRound, ImplementsVariableStore
=============================================================================
