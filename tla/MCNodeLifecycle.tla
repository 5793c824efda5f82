---------------------------- MODULE MCNodeLifecycle ----------------------------
(* An instance of NodeLifecycle for TLC.                                   *)
EXTENDS NodeLifecycle, TLC

CONSTANTS a, b

TwoCalls == {a, b}
=============================================================================
