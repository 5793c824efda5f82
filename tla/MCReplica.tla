----------------------------- MODULE MCReplica -----------------------------
(* Instances of Replica for TLC.                                           *)
EXTENDS Replica

CONSTANTS rowA, plain, edited, none

OneRow    == {rowA}
TwoValues == {plain, edited}

(* Wall clocks that stay at one reading: the worst case for telling apart   *)
(* what happened first.                                                    *)
Stopped == [d \in Device |-> {0}]

AllWrite == Device
=============================================================================
