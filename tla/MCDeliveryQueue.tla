--------------------------- MODULE MCDeliveryQueue ---------------------------
(* TLC instances of DeliveryQueue.  Msg = Plain \cup Board, so that the messages a
   restart brings back and those it may only expire are each alike.            *)
EXTENDS DeliveryQueue

CONSTANTS Plain

AllMsg == Plain \cup Board

Symmetry == Permutations(Plain) \cup Permutations(Board) \cup Permutations(Session)
===============================================================================
