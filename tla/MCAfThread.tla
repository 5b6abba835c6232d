----------------------------- MODULE MCAfThread -----------------------------
(* Instances of AfThread for TLC.                                          *)
EXTENDS AfThread

(* mFunc may ask for the worker to be paused.                              *)
MayStop == {0, -1}
=============================================================================
