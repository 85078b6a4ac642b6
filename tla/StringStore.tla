---------------------------- MODULE StringStore ----------------------------
(***************************************************************************)
(* What the string memory of the interpreter promises to a BASIC program,  *)
(* without any memory: each string variable has a value, LET changes one   *)
(* variable to the value of its right hand side, PROC evaluates all its    *)
(* arguments and then gives each parameter its argument, saving what it    *)
(* had, and ENDPROC puts the saved values back.  StringHeap implements it. *)
(***************************************************************************)
EXTENDS Naturals, Sequences, SequencesExt

CONSTANTS
  Vars,       \* the string variables
  Strings,    \* the string values expressions produce
  MaxParams,  \* bound: string parameters of a procedure
  Unset       \* a variable that has never been assigned (it reads as "")

VARIABLES
  value,      \* [Vars -> Strings \cup {Unset}]
  saved,      \* the BASIC stack: procedure markers, saved values, loops
  op,         \* the statement being executed
  args        \* the values evaluated for it so far

storeVars == <<value, saved, op, args>>

Marker == [kind |-> "proc"]
Loop == [kind |-> "loop"]
Saved(v, s) == [kind |-> "local", var |-> v, str |-> s]
NoOp == [name |-> "none", targets |-> <<>>, done |-> 0]

Store(v, s) == value' = [value EXCEPT ![v] = s]

\* local.asm: "if uninitialised then leave it like that"
Save(v) ==
  IF value[v] = Unset THEN saved ELSE Append(saved, Saved(v, value[v]))

Init ==
  /\ value = [v \in Vars |-> Unset]
  /\ saved = <<>> /\ op = NoOp /\ args = <<>>

BeginLet(v) ==
  /\ op = NoOp
  /\ op' = [name |-> "let", targets |-> <<v>>, done |-> 0]
  /\ args' = <<>>
  /\ UNCHANGED <<value, saved>>

BeginProc(ps) ==
  /\ op = NoOp
  /\ op' = [name |-> "proc", targets |-> ps, done |-> 0]
  /\ args' = <<>>
  /\ saved' = Append(saved, Marker)
  /\ UNCHANGED value

Evaluate(s) ==
  /\ Len(args) < Len(op.targets)
  /\ args' = Append(args, s)
  /\ UNCHANGED <<value, saved, op>>

\* One target gets the value that was evaluated for it, and no other changes.
Bind ==
  LET k == op.done + 1 IN
  /\ op.done < Len(op.targets) /\ Len(args) = Len(op.targets)
  /\ Store(op.targets[k], args[k])
  /\ saved' = IF op.name = "proc" THEN Save(op.targets[k]) ELSE saved
  /\ IF k = Len(op.targets)
       THEN op' = NoOp /\ args' = <<>>
       ELSE op' = [op EXCEPT !.done = k] /\ UNCHANGED args

\* An error abandons the statement; what it stacked stays (errors do not
\* touch the BASIC stack).
Abandon ==
  /\ op # NoOp
  /\ op' = NoOp /\ args' = <<>>
  /\ \/ UNCHANGED saved
     \/ /\ op.name = "proc" /\ op.done < Len(op.targets)
        /\ saved' = Save(op.targets[op.done + 1])
  /\ UNCHANGED value

Local(v) ==
  /\ op = NoOp
  /\ saved' = Save(v)
  /\ UNCHANGED <<value, op, args>>

\* The saved values on top of the stack are restored; when several are for one
\* variable the oldest is restored last.  The marker below them goes.
LastOther == SelectLastInSeq(saved, LAMBDA f : f.kind # "local")

Restored(v) ==
  LET own == {i \in (LastOther + 1)..Len(saved) : saved[i].var = v}
  IN  IF own = {} THEN value[v]
      ELSE saved[CHOOSE i \in own : \A j \in own : i <= j].str

Return ==
  /\ op = NoOp
  /\ value' = [v \in Vars |-> Restored(v)]
  /\ saved' = SubSeq(saved, 1, IF LastOther # 0 /\ saved[LastOther].kind = "proc"
                                THEN LastOther - 1 ELSE LastOther)
  /\ UNCHANGED <<op, args>>

Structure ==
  /\ op = NoOp
  /\ \/ saved' = Append(saved, Loop)
     \/ saved # <<>> /\ Last(saved) = Loop /\ saved' = Front(saved)
  /\ UNCHANGED <<value, op, args>>

Clear ==
  /\ op = NoOp
  /\ value' = [v \in Vars |-> Unset] /\ saved' = <<>>
  /\ UNCHANGED <<op, args>>

ParamLists == UNION {[1..n -> Vars] : n \in 1..MaxParams}

Next ==
  \/ \E v \in Vars : BeginLet(v) \/ Local(v)
  \/ \E ps \in ParamLists : BeginProc(ps)
  \/ \E s \in Strings : Evaluate(s)
  \/ Bind \/ Abandon \/ Return \/ Structure \/ Clear

Spec == Init /\ [][Next]_storeVars
=============================================================================
