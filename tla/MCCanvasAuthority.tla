--------------------------- MODULE MCCanvasAuthority ---------------------------
(* TLC instances of CanvasAuthority: every key is loaded with the same value.   *)
EXTENDS CanvasAuthority

CONSTANTS v0

AllLoaded == [k \in Key |-> v0]
===============================================================================
