---------------------------- MODULE MCMembership ----------------------------
(* Instances of Membership for TLC.                                        *)
EXTENDS Membership

CONSTANTS ada, bob, cyd, seed, c1, c2

Ada == {ada}
Bob == {bob}
BobAndCyd == {bob, cyd}
NobodyElse == {}
OneConn == {c1}
TwoConns == {c1, c2}
=============================================================================
