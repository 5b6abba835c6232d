----------------------- MODULE MCPlayerMessageControl -----------------------
(* Instances of PlayerMessageControl for TLC.                              *)
EXTENDS PlayerMessageControl, TLC

Permute == Permutations(Callers) \cup Permutations(Url)
=============================================================================
