----------------------------- MODULE MCCanvasSync -----------------------------
(* TLC instances of CanvasSync.  Every key is loaded with the same value, so a
   remove, an edit and a re-creation of a key are all one step away.          *)
EXTENDS CanvasSync, TLC

CONSTANTS v0, n2

AllLoaded == [k \in Key |-> v0]

AllEdits == Key \X (Val \cup {Absent})

\* Every edit of the other keys; n2 only gets a value that is refused, and is put back.
RefusedOnN2 == {e \in AllEdits : IF e[1] = n2 THEN e[2] \in TooLarge \cup {v0} ELSE e[2] \notin TooLarge}

\* Where nobody drags, clients are alike, and so are the values nothing was loaded with.
Symmetry == Permutations(Client) \cup Permutations(Val \ ({v0} \cup TooLarge))

\* Where every edit may be of any key, keys are alike.
KeySymmetry == Permutations(Key)
===============================================================================
