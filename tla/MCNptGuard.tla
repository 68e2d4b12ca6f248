----------------------------- MODULE MCNptGuard -----------------------------
(* Small guests for NptGuard: the table takes cells 1 and 2, kernel text   *)
(* starts on the next page.                                                *)
EXTENDS NptGuard

SevenCells == 0 .. 6
ThreeCells == 1 .. 3
Striped == [c \in Cells |-> c % 2]
Text == <<[name |-> "kernel_text", gpa |-> 4, size |-> 3, critical |-> TRUE]>>
NoText == <<>>

Map == [name |-> "map", gpa |-> 3, size |-> 1, critical |-> FALSE]
OneMap == {Map}
MapAndEmpty == {Map, [name |-> "empty", gpa |-> 0, size |-> 0, critical |-> FALSE]}
=============================================================================
