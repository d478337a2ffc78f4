---------------------------- MODULE CanvasReplica ----------------------------
(* What canvas sync promises: one log of mutations, the same for everybody, and
   on every client's canvas, for every key it has no edit of its own outstanding
   on, exactly what the log says so far.

   The log's verdict on a key is canvas-order.ts's: the highest seq wins, and an
   upsert of a removed key is dropped iff its sender had not seen the remove.  A
   mutation's seq is its place in the log.                                    *)
EXTENDS Naturals, Sequences, SequencesExt

CONSTANTS Client, Key, Val, Absent,
          Loaded            \* the canvas every client loaded

VARIABLES log,              \* the mutations in the reflector's order
          pos,              \* how much of the log each client has heard
          shown,            \* each client's canvas
          mine              \* keys on which a client has an edit outstanding

vars == <<log, pos, shown, mine>>

\* One key's verdict so far: its value, and the place of the remove if it is gone.
Judge(scene, entry) ==
    LET k == entry.key
    IN  IF entry.val = Absent
        THEN [scene EXCEPT ![k] = [val |-> Absent, removed |-> entry.seq]]
        ELSE IF entry.seen < scene[k].removed
        THEN scene
        ELSE [scene EXCEPT ![k] = [val |-> entry.val, removed |-> 0]]

Verdict(n) ==
    LET upTo[i \in 0 .. n] == IF i = 0 THEN [k \in Key |-> [val |-> Loaded[k], removed |-> 0]]
                              ELSE Judge(upTo[i - 1], log[i])
    IN  upTo[n]

Shows(scene, verdict, own) == \A k \in Key \ own : scene[k] = verdict[k].val

Init == /\ log = << >>
        /\ pos = [c \in Client |-> 0]
        /\ shown = [c \in Client |-> Loaded]
        /\ mine = [c \in Client |-> {}]

\* Whatever c's canvas becomes, the others keep theirs.
OnlyOf(c) == /\ shown'[c] \in [Key -> Val \cup {Absent}] /\ mine'[c] \subseteq Key
             /\ shown' = [shown EXCEPT ![c] = shown'[c]]
             /\ mine' = [mine EXCEPT ![c] = mine'[c]]

\* A client edits: what it changes is its own until the log has answered, or is what
\* the log says anyway (an edit taken back).
Edit(c) ==
    /\ OnlyOf(c)
    /\ Shows(shown'[c], Verdict(pos[c]), mine'[c])
    /\ UNCHANGED <<log, pos>>

\* The log grows by one entry, in nobody's canvas yet.
Grow == /\ Len(log') = Len(log) + 1
        /\ IsPrefix(log, log')
        /\ UNCHANGED <<pos, shown, mine>>

\* A client hears the next entry.  What is not its own then shows the verdict, and
\* only an edit it casts in the same step may become its own.
Hear(c) ==
    /\ pos[c] < Len(log)
    /\ pos' = [pos EXCEPT ![c] = @ + 1]
    /\ OnlyOf(c)
    /\ mine'[c] \subseteq mine[c]
    /\ Shows(shown'[c], Verdict(pos[c] + 1), mine'[c])
    /\ UNCHANGED log

Next == Grow \/ \E c \in Client : Edit(c) \/ Hear(c)

Spec == Init /\ [][Next]_vars
===============================================================================
