--------------------------- MODULE MCAntiEntropy ---------------------------
(* Instances of AntiEntropy for TLC.                                       *)
EXTENDS AntiEntropy

(* A line: the devices at its ends never meet.                             *)
Line == {<<d, e>> \in Device \X Device : d + 1 = e}

(* The last device of a line may be a seed that only introduces others.    *)
AllButLast == Device \ {NDevices}

FirstAndThird == {1, 3}
FirstTwo      == {1, 2}

OnlyFirst  == {1}
OnlySecond == {2}
=============================================================================
