---------------------------- MODULE MCApplyLoop ----------------------------
(* Instances of ApplyLoop for TLC.                                         *)
EXTENDS ApplyLoop

CONSTANTS rowA, plain, edited, none

OneRow    == {rowA}
TwoValues == {plain, edited}

(* Records as replicas author them: one record per origin and stamp, and an *)
(* origin writes one value, the one that tells the origins apart.           *)
Written == {r \in Change : /\ r.col = None <=> r.val = None
                           /\ r.col # None => (r.val = plain <=> r.origin = 1)}

Histories(n) == {S \in SUBSET Written : Cardinality(S) <= n /\ OfOneHistory(S)}

UpToTwo   == Histories(2)
UpToThree == Histories(3)
=============================================================================
