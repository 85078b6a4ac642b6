--------------------------- MODULE MCStringHeap ---------------------------
(* Small instances of StringHeap: the constants the .cfg files name.      *)
EXTENDS StringHeap

Str(n, t) == [len |-> n, txt |-> t]
ShortStrings == {Empty, Str(1, "a"), Str(2, "b")}
LongStrings == {Empty, Str(1, "a"), Str(4, "b")}
AnyStrings == {Empty, Str(1, "b"), Str(3, "a")}
VarSymmetry == Permutations(Vars)
NoClones == {0}
=============================================================================
