--------------------------- MODULE MCLineEditor ---------------------------
(* Small instances of LineEditor: the bodies the .cfg file names.  Words   *)
(* of 300 and more are plain tokens; <<4, 0>> is the empty string and      *)
(* <<6, 0, 301>> a string whose first word of data is zero.                *)
EXTENDS LineEditor

MixedBodies == {<< >>, <<300>>, <<6, 0, 301, 300>>}
=============================================================================
