----------------------------- MODULE MCLivePush -----------------------------
(* Instances of LivePush for TLC.                                          *)
EXTENDS LivePush

Pair == {<<1, 2>>}

OneAuthor == {1}
=============================================================================
