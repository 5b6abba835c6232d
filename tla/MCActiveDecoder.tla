--------------------------- MODULE MCActiveDecoder ---------------------------
(* A small decoder: what is held does not fit into the input queue.        *)
EXTENDS ActiveDecoder
=============================================================================
