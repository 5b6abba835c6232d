-------------------------- MODULE MCPlayerControl --------------------------
(* Instances of PlayerControl for TLC.                                     *)
EXTENDS PlayerControl, TLC

NoPosition == -1
VideoOnDemand == {1}
LiveOrOnDemand == {0, 1}

Permute == Permutations(Callers)
=============================================================================
