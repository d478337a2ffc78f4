------------------------------- MODULE Filtering -------------------------------
(* The entries of a list that are in a set, in their order: SelectSeq with its test
   given as a set, and written as a recursive function so that it can be proved about. *)
EXTENDS Naturals, Sequences

Only(q, A) ==
    LET upTo[i \in 0 .. Len(q)] == IF i = 0          THEN << >>
                                   ELSE IF q[i] \in A THEN Append(upTo[i - 1], q[i])
                                   ELSE upTo[i - 1]
    IN  upTo[Len(q)]
===============================================================================
