---------------------------- MODULE MCEmulator ----------------------------
(* A small program for Emulator: a loop with a call, a branch to a NOP and *)
(* a branch to the COP that ends it; the subroutine calls once more.       *)
(* One of two users: one with the keys that run, step and set breakpoints, *)
(* one with those that reset and edit the address of a program that was    *)
(* started from the command line.                                          *)
EXTENDS Emulator

VARIABLE user

I(op, to) == [op |-> op, to |-> to]
Program ==
  [a \in {0, 1, 4, 5, 6, 10, 14, 20} |->
     CASE a = 0 -> I("other", {1})
       [] a = 1 -> I("jsr", {10})          \* returns to 4
       [] a = 4 -> I("other", {0, 5, 6})
       [] a = 5 -> I("nop", {0})
       [] a = 6 -> I("cop", {0})
       [] a = 10 -> I("jsl", {20})         \* returns to 14
       [] OTHER -> I("rts", {0})]
ProgramAddrs == DOMAIN Program

DebugKeys == {RUN, BREAK, STEP, STEPOVER, SETBREAK}
EditKeys == {HOME, BREAK, RESET, LSHIFT, SHIFT, 49}
Edit == INSTANCE Emulator WITH Keys <- EditKeys, AutoStart <- TRUE

MCInit ==
  \/ user = "debug" /\ Init
  \/ user = "edit" /\ Edit!Init
MCNext ==
  /\ \/ Handler
     \/ user = "debug" /\ User
     \/ user = "edit" /\ Edit!User
  /\ UNCHANGED user
MCSpec == MCInit /\ [][MCNext]_<<vars, user>> /\ WF_vars(Handler)
=============================================================================
