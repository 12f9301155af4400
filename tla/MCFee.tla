------------------------------- MODULE MCFee -------------------------------
(* The flash store with pages of a few slots and two values, one of them 0xFFFF. *)
EXTENDS Fee

CONSTANT a

(* 0xFFFF is a value like another: a word of the use table may hold it. *)
Values == {a, Blank}
OneValue == {a}
FirstPair == {v \in 0 .. 2 * NumOfVar - 1 : v < NumOfVar}
SecondPair == {v \in 0 .. 2 * NumOfVar - 1 : v >= NumOfVar}
=============================================================================
