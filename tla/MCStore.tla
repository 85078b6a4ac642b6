------------------------------ MODULE MCStore ------------------------------
(***************************************************************************)
(* Small instances of Variables, Locals and DataPage in one processor:     *)
(* either the memory of variables and arrays moves, or the calls and local *)
(* variables, or the page with the stacks these calls and their arguments  *)
(* use.                                                                    *)
(*                                                                         *)
(* Two integers and two arrays; each pair shares a chain, and the names of *)
(* a pair start with the same word.  Heads at 6 and 8, the program's names *)
(* from 10, variables from 24.                                             *)
(*                                                                         *)
(* Two integers, one of them a fast variable, that procedures take in both *)
(* orders, twice, alone and next to a string or an array, with arguments   *)
(* that are the variables themselves, too few, too many, of the wrong      *)
(* type, or errors.                                                        *)
(*                                                                         *)
(* The addresses of data.asm.  The pushes are those of IF, of REPEAT,      *)
(* GOSUB and PROC, of a local string of two characters, of FOR and local   *)
(* integers.                                                               *)
(***************************************************************************)
EXTENDS Variables

\* The constants of Locals; integers have other values there.
CONSTANTS CallVariables, CallFast, Texts, Tables, CallValues, CallZero,
          Procedures, Formals, Arguments, Constant, Bad, Text, MaxStack

\* Those of DataPage.
CONSTANTS PrmBuffer, PrmColumn, BasStack, CpuStack, FrameSizes, Nestings, NoBase,
          MaxParameters, MaxFrames, MaxLevels

VARIABLES part, env, stack, buffer, formals, callPc, callResult,
          frames, dstack, held, base, levels, cpu, phase, arguments, columns

callVars == <<env, stack, buffer, formals, callPc, callResult>>
pageVars == <<frames, dstack, held, base, levels, cpu, phase, arguments, columns>>

MCNames == {"p1", "p2", "q1", "q2"}
MCArrays == {"q1", "q2"}
MCTokens == [n \in MCNames |->
  CASE n = "p1" -> <<11, 1>> [] n = "p2" -> <<11, 2>>
    [] n = "q1" -> <<21>> [] n = "q2" -> <<22, 3>>]
MCHeadAt == [n \in MCNames |-> IF n \in MCArrays THEN 8 ELSE 6]
MCNameAt == [n \in MCNames |->
  CASE n = "p1" -> 10 [] n = "p2" -> 14 [] n = "q1" -> 18 [] n = "q2" -> 20]
MCValues == {<<0, 0>>, <<5, 7>>}
MCSubscripts == {-1, 0, 1, 2}
MCSizes == {-1, 0, 1}

MCVariables == {"a", "b"}
MCCallFast == {"a"}
MCTexts == {"t"}
MCTables == {"m"}
MCCallValues == {0, 1}
MCProcedures == {"none", "pair", "twice", "one", "mixed", "table"}
MCFormals ==
  [p \in MCProcedures |->
     CASE p = "none" -> <<>> [] p = "pair" -> <<"a", "b">>
       [] p = "twice" -> <<"a", "a">> [] p = "one" -> <<"b">>
       [] p = "mixed" -> <<"a", "t">> [] p = "table" -> <<"b", "m">>]
MCConstant == [k \in {"1", "word"} |-> IF k = "1" THEN 1 ELSE Text]
MCArguments ==
  {<<>>, <<"a">>, <<"word">>, <<"b", "a">>, <<"1", "a">>, <<"a", "word">>, <<Bad>>}
Calls == INSTANCE Locals WITH
  Variables <- CallVariables, Fast <- CallFast, Values <- CallValues, Zero <- CallZero,
  pc <- callPc, result <- callResult

MCFrameSizes == {2, 6, 7, 8}
MCNestings == {6, 8}
Page == INSTANCE DataPage WITH buffer <- columns, Pushes <- FrameSizes

ASSUME MCStoreAssumption == Calls!LocalsAssumption /\ Page!DataPageAssumption

MCInit ==
  part \in {"memory", "calls", "page"} /\ Init /\ Calls!Init /\ Page!Init
MCNext ==
  /\ UNCHANGED part
  /\ \/ part = "memory" /\ Next /\ UNCHANGED <<callVars, pageVars>>
     \/ part = "calls" /\ Calls!Next /\ UNCHANGED <<vars, pageVars>>
     \/ part = "page" /\ Page!Next /\ UNCHANGED <<vars, callVars>>
MCSpec == MCInit /\ [][MCNext]_<<part, vars, callVars, pageVars>>

----------------------------------------------------------------------------
(* Properties.  Each part stands still while another one moves. *)

\* Records, copied names and array blocks do not overlap (variable.asm,
\* dim.asm); a call in progress has names and arguments left and its frame on
\* the stack (procedure.asm).
StoreSound ==
  /\ part = "memory" => TypeOK /\ StoreTiled
  /\ part = "calls" => Calls!TypeOK

\* Every statement, whether it ends well or in an error, changes at most the
\* variable it is about, as an expression would find it through the chains
\* (variable.asm, dim.asm, let.asm).
ImplementsVariableStore ==
  V!Init /\ [][part = "memory" => [V!Next]_contentsBar]_vars

\* Arguments arrive as they were at the call and ENDPROC gives back what was
\* there, also after calls that failed half way (procedure.asm, local.asm).
ImplementsScopes ==
  /\ Calls!Store!Init
  /\ [][part = "calls" => [Calls!Store!Next]_(Calls!Store!vars)]_callVars

\* What is on the BASIC stack, the frame included that NEXT has taken off and
\* will read, is out of reach of the expression (expression.asm:24-28).
FramesKept == Page!FramesKept

\* procedure.asm:108-111: "the parameter values (from caller) are evaluated and
\* stored in that buffer", and in the second phase "the buffer data is stored in
\* those addresses".
ParametersArrive == Page!ParametersArrive
=============================================================================
