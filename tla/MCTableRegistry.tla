-------------------------- MODULE MCTableRegistry --------------------------
(* Instances of TableRegistry for TLC.                                     *)
EXTENDS TableRegistry, TLC

CONSTANTS rowA, rowB, plain, edited, none, uiThread, jobThread

OneRow == {rowA}
TwoRows == {rowA, rowB}
RowSymmetry == Permutations(TwoRows)
OneCaller  == {uiThread}
TwoCallers == {uiThread, jobThread}
CallerSymmetry == Permutations(TwoCallers)

(* Applications write `edited`; columns are added with the default `plain`. *)
TwoValues  == {plain, edited}
OnlyEdited == {edited}
OneColumn  == {1}

(* Wall clocks that stay at one reading.                                   *)
Stopped == [d \in Device |-> {0}]

FirstWrites == {1}
AllWrite    == Device
=============================================================================
