----------------------------- MODULE ScopeStore -----------------------------
(***************************************************************************)
(* What procedures promise about integer variables: a call gives the       *)
(* formal parameters the values the arguments have where the call stands,  *)
(* and its end gives every parameter and LOCAL the value it had then, in   *)
(* whichever order and however often they were made local.  A variable is  *)
(* saved once in a scope, when it is first made local there.               *)
(***************************************************************************)
EXTENDS Integers, Sequences, SequencesExt

CONSTANTS Variables, Fast, Values, Zero, Procedures, Formals, Arguments, Constant, Bad

VARIABLES env, scopes, result

vars == <<env, scopes, result>>

\* A scope: what opened it, and the variables saved since.
Scope(kind, saved) == [kind |-> kind, saved |-> saved]
Nothing == [v \in {} |-> Zero]
Override(f, g) == [v \in DOMAIN f \cup DOMAIN g |->
                    IF v \in DOMAIN g THEN g[v] ELSE f[v]]
Zeros == [v \in Variables |-> Zero]
Empty == <<Scope("top", Nothing)>>

Init == env = Zeros /\ scopes = Empty /\ result = "ok"

\* The statements, from an environment e and scopes s to f and t.
Assign(e, s, f, t) == t = s /\ \E v \in Variables, c \in Values : f = [e EXCEPT ![v] = c]

Local(e, s, f, t) ==
  /\ f = e
  /\ \E v \in Variables :
       t = [s EXCEPT ![Len(s)].saved = Override([x \in {v} |-> e[v]], @)]

\* The first n parameters get the values the arguments have in e; all of them
\* unless it is an error.  A name listed twice keeps the last; one that is no
\* integer has nothing here.  An error may also have saved one more variable.
Call(p, as, n, e, s, f, t, r) ==
  LET fs    == Formals[p]
      bound == {fs[i] : i \in 1..n} \cap Variables
      arg(v) == as[SelectLastInSubSeq(fs, 1, n, LAMBDA x : x = v)]
      saved == Last(t).saved
  IN  /\ Bad \in ToSet(as) => n = 0
      /\ r = "ok" => n = Len(fs) /\ n = Len(as) /\ DOMAIN saved = bound
      /\ t = Append(s, Scope("proc", saved))
      /\ bound \subseteq DOMAIN saved
      /\ \A v \in DOMAIN saved : saved[v] = e[v]
      /\ f = [v \in Variables |->
               IF v \notin bound THEN e[v]
               ELSE IF arg(v) \in Variables THEN e[arg(v)] ELSE Constant[arg(v)]]

\* The end of a procedure; in another scope, an error that ends the locals.
EndProc(e, s, f, t, r) ==
  /\ f = Override(e, Last(s).saved)
  /\ \/ Last(s).kind = "proc" /\ t = Front(s) /\ r = "ok"
     \/ /\ Last(s).kind # "proc" /\ r = "error"
        /\ t = Append(Front(s), Scope(Last(s).kind, Nothing))

\* A new start, which the variables in Fast outlast.
Cleared(e) == [v \in Variables |-> IF v \in Fast THEN e[v] ELSE Zero]

Open(s, t) == t = Append(s, Scope("other", Nothing))
Close(s, t) == s = Append(t, Scope("other", Nothing))

Step(e, s, f, t, r) ==
  \/ r = "ok" /\ f = e /\ (Open(s, t) \/ Close(s, t))
  \/ r = "ok" /\ (Assign(e, s, f, t) \/ Local(e, s, f, t))
  \/ r = "ok" /\ f = Cleared(e) /\ t = Empty
  \/ r = "error" /\ f = e /\ t = s
  \/ EndProc(e, s, f, t, r)
  \/ /\ Len(t) = Len(s) + 1 /\ Last(t).kind = "proc" /\ r \in {"ok", "error"}
     /\ \E p \in Procedures, as \in Arguments :
          \E n \in 0..Len(as) :
            n <= Len(Formals[p]) /\ Call(p, as, n, e, s, f, t, r)

\* The singletons only give names to the values before and after.
Next ==
  \E e \in {env}, s \in {scopes}, f \in {env'}, t \in {scopes'} : Step(e, s, f, t, result')

Spec == Init /\ [][Next]_vars
=============================================================================
