------------------------------- MODULE Locals -------------------------------
(***************************************************************************)
(* Procedures with integer parameters, and LOCAL (commands/procedure.asm,  *)
(* commands/local.asm).  A call stacks its return place, evaluates the     *)
(* arguments into PRMBuffer, then makes one formal parameter after another *)
(* local and stores its argument.  Making an integer local stacks its      *)
(* value and its address; ENDPROC copies all such entries back, from the   *)
(* top of the stack down to the first thing that is none.                  *)
(*                                                                         *)
(* Any statement may come next: the program and its lines are those of     *)
(* ControlFlow, the contents of strings those of StringHeap.               *)
(***************************************************************************)
EXTENDS Integers, Sequences, SequencesExt

CONSTANTS
  Variables,    \* integer variables
  Fast,         \* of these, A to Z
  Texts,        \* string variables
  Tables,       \* arrays
  Values, Zero, \* integers
  Procedures,   \* names that have a DEFPROC
  Formals,      \* [Procedures -> Seq of variables]: the names after it
  Arguments,    \* argument lists: Seq of variables, constants, Bad
  Constant,     \* [constants -> Values \cup {Text}]
  Bad, Text,    \* an argument that is an error; the value of a string
  MaxStack      \* bound: entries of the BASIC stack

LocalsAssumption ==
  /\ Zero \in Values /\ Text \notin Values /\ Fast \subseteq Variables
  /\ Variables \cap Texts = {} /\ (Variables \cup Texts) \cap Tables = {}
  /\ Formals \in [Procedures -> Seq(Variables \cup Texts \cup Tables)]
  /\ Arguments \subseteq Seq(Variables \cup DOMAIN Constant \cup {Bad})
  /\ \A a \in DOMAIN Constant : Constant[a] \in Values \cup {Text}
  /\ MaxStack \in Nat

VARIABLES
  env,          \* values of the variables
  stack,        \* the BASIC stack, bottom first
  buffer,       \* PRMBuffer
  formals,      \* the parameter names behind the code pointer
  pc,           \* "idle", or "bind" while parameters are set up
  result        \* how the last statement ended

vars == <<env, stack, buffer, formals, pc, result>>

Saved(v) == [kind |-> "integer", var |-> v, val |-> env[v]]
SavedText == [kind |-> "text"]
ProcFrame == [kind |-> "proc"]
Frame == [kind |-> "other"]
\* The word at the bottom, which ends every search.
Bottom == [kind |-> "bottom"]
EntryAt(i) == IF i = 0 THEN Bottom ELSE stack[i]
IsLocal(f) == f.kind \in {"integer", "text"}

Zeros == [v \in Variables |-> Zero]
Init == env = Zeros /\ stack = <<>> /\ buffer = <<>> /\ formals = <<>> /\ pc = "idle" /\ result = "ok"

End(r) == pc' = "idle" /\ buffer' = <<>> /\ formals' = <<>> /\ result' = r
Room == Len(stack) < MaxStack                           \* bound

----------------------------------------------------------------------------
(* Statements other than calls. *)

Let(v, c) == /\ pc = "idle" /\ env' = [env EXCEPT ![v] = c]
             /\ End("ok") /\ UNCHANGED stack

\* LocalProcessVariable: what the stack may become.  A string is stacked unless
\* it never had a value.  Arrays are refused, and so is a new variable when
\* memory is full.
Pushes(v) ==
  IF v \in Variables THEN {Append(stack, Saved(v))}
  ELSE IF v \in Texts THEN {stack, Append(stack, SavedText)} ELSE {}

\* LOCAL with integers (strings: StringHeap); a list is one step for each name.
Local(v) == /\ pc = "idle" /\ Room /\ stack' \in Pushes(v)
            /\ End("ok") /\ UNCHANGED env

LocalFails == pc = "idle" /\ End("error") /\ UNCHANGED <<env, stack>>

\* FOR, REPEAT, WHILE and GOSUB leave a frame and look for it on the very top.
Open == /\ pc = "idle" /\ Room /\ stack' = Append(stack, Frame)
        /\ End("ok") /\ UNCHANGED env
Close == /\ pc = "idle"
         /\ \/ /\ EntryAt(Len(stack)) = Frame
               /\ stack' = Front(stack) /\ End("ok")
            \/ /\ EntryAt(Len(stack)) # Frame
               /\ UNCHANGED stack /\ End("error")
         /\ UNCHANGED env

\* CLEAR, RUN and NEW empty the hash tables, which A to Z are not in.
Cleared(e) == [v \in Variables |-> IF v \in Fast THEN e[v] ELSE Zero]
Clear == pc = "idle" /\ env' = Cleared(env) /\ stack' = <<>> /\ End("ok")

----------------------------------------------------------------------------
(* PROC *)

Value(a) == IF a \in Variables THEN env[a] ELSE Constant[a]

\* A name with a bracket is another name: it has parameters and arguments.
\* The return place is stacked before the arguments are evaluated, and stays
\* there when one of them fails or the bracket is missing.
Proc(p, as) ==
  /\ pc = "idle" /\ Len(stack) + Len(as) < MaxStack   \* bound
  /\ (as = <<>>) = (Formals[p] = <<>>)
  /\ stack' = Append(stack, ProcFrame)
  /\ UNCHANGED env
  /\ \/ as = <<>> /\ End("ok")
     \/ Bad \in ToSet(as) /\ End("error")
     \/ /\ as # <<>> /\ Bad \notin ToSet(as)
        /\ buffer' = [i \in 1..Len(as) |-> Value(as[i])]
        /\ formals' = Formals[p] /\ pc' = "bind" /\ UNCHANGED result

\* The separator behind a parameter must agree with what the buffer has left.
NextParameter ==
  IF Len(buffer) = 1 THEN End(IF Len(formals) = 1 THEN "ok" ELSE "error")
  ELSE IF Len(formals) = 1 THEN End("error")
  ELSE buffer' = Tail(buffer) /\ formals' = Tail(formals) /\ UNCHANGED <<pc, result>>

\* The variable is local before the types are compared, and before it is stored.
BindParameter ==
  /\ pc = "bind"
  /\ LET v == Head(formals)
         x == Head(buffer)
     IN
     \/ /\ stack' \in Pushes(v)
        /\ IF (x = Text) # (v \in Texts) THEN UNCHANGED env /\ End("error")
           ELSE /\ env' = IF v \in Variables THEN [env EXCEPT ![v] = x] ELSE env
                /\ NextParameter
     \/ UNCHANGED <<env, stack>> /\ End("error")         \* array, or no memory

----------------------------------------------------------------------------
(* ENDPROC *)

\* The topmost thing that is no local variable, 0 for the bottom.
BaseOf(st) == SelectLastInSeq(st, LAMBDA f : ~IsLocal(f))
Base == BaseOf(stack)

Put(f, e) == IF f.kind = "integer" THEN [e EXCEPT ![f.var] = f.val] ELSE e
RestoredUpwards ==                                       \* mutant
  LET up[i \in Base..Len(stack)] == IF i = Base THEN env ELSE Put(stack[i], up[i - 1])
  IN  up[Len(stack)]

\* LocalRestore: e after the entries above the i-th have been copied back, from
\* the top of the stack down, so that the lowest one is copied back last.
PutBack(e, st) ==
  LET down[i \in 0..Len(st)] == IF i = Len(st) THEN e ELSE Put(st[i + 1], down[i + 1])
  IN  down
Restored == PutBack(env, stack)[Base]

EndProc ==
  /\ pc = "idle" /\ env' = Restored
  /\ \/ /\ EntryAt(Base) = ProcFrame
        /\ stack' = SubSeq(stack, 1, Base - 1) /\ End("ok")
     \/ /\ EntryAt(Base) # ProcFrame
        /\ stack' = SubSeq(stack, 1, Base) /\ End("error")

Next ==
  \/ \E v \in Variables, c \in Values : Let(v, c)
  \/ \E v \in Variables : Local(v)
  \/ LocalFails \/ Open \/ Close \/ Clear
  \/ \E p \in Procedures, as \in Arguments : Proc(p, as)
  \/ BindParameter
  \/ EndProc

Spec == Init /\ [][Next]_vars

----------------------------------------------------------------------------
(* Properties. *)

\* Every variable has a value; only integers are saved as such; a call in
\* progress has names and arguments left and its frame on the stack.
\* (procedure.asm _FPROSetupLoop.)
TypeOK ==
  /\ env \in [Variables -> Values]
  /\ \A i \in DOMAIN stack :
       stack[i].kind = "integer" => stack[i].var \in Variables /\ stack[i].val \in Values
  /\ pc = "bind" =>
       /\ buffer # <<>> /\ formals # <<>>
       /\ EntryAt(Base) = ProcFrame

\* The scopes the stack stands for: each frame with the entries above it, of
\* which the lowest for a variable counts.
Scope(kind, saved) == [kind |-> kind, saved |-> saved]
Nothing == [v \in {} |-> Zero]
WithEntry(scopes, f) ==
  CASE ~IsLocal(f) -> Append(scopes, Scope(f.kind, Nothing))
    [] f.kind = "integer" ->
         [scopes EXCEPT ![Len(scopes)].saved =
            [v \in DOMAIN @ \cup {f.var} |-> IF v \in DOMAIN @ THEN @[v] ELSE f.val]]
    [] OTHER -> scopes
Scopes(st) ==
  LET upTo[i \in 0..Len(st)] ==
        IF i = 0 THEN <<Scope("top", Nothing)>> ELSE WithEntry(upTo[i - 1], st[i])
  IN  upTo

\* While parameters are set up the call has not happened yet.
envBar == IF pc = "bind" THEN Restored ELSE env
scopesBar ==
  LET all == Scopes(stack)[Len(stack)]
  IN  IF pc = "bind" THEN Front(all) ELSE all

Store == INSTANCE ScopeStore WITH env <- envBar, scopes <- scopesBar

\* Arguments arrive as they were at the call, whichever parameters share names
\* with them, and ENDPROC gives back what was there, after recursion, a name
\* made local twice, and calls that failed half way.  (procedure.asm
\* _FPROGetValues, _FPROSetupLoop; local.asm LocalRestore.)
ImplementsScopes == Store!Spec
=============================================================================
