-------------------------- MODULE MCCanvasOrderLink --------------------------
(* TLC instance of CanvasOrderLink: two keys, a FIFO record of two casts and one
   tombstone, so that both caps are reached.                                  *)
EXTENDS CanvasOrderLink, TLC

KeySymmetry == Permutations(Key \ OrderKey)
===============================================================================
