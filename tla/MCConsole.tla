----------------------------- MODULE MCConsole -----------------------------
(* A page of 2 rows of 4 cells with tab stops every 2 cells: each call      *)
(* meets the end of a row and the end of the page within a few characters.  *)
(* One key stands for the letters: with Ctrl they make every control code.  *)
(* The quote comes before them in the host's scan; with Shift and Ctrl it   *)
(* makes no character.                                                      *)
EXTENDS Console

MCChars == {"a", "_"}
MCKeys == {"quote", "letter"}
MCCode == [k \in MCKeys |-> IF k = "quote" THEN 64 ELSE 97]
MCShows == [k \in MCKeys |-> {"a"} \cup IF k = "quote" THEN {None} ELSE Controls]
=============================================================================
