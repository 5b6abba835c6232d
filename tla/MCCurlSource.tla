---------------------------- MODULE MCCurlSource ----------------------------
(* An instance of CurlSource for TLC.                                      *)
EXTENDS CurlSource

CONSTANTS s1, h1
=============================================================================
