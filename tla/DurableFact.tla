------------------------------ MODULE DurableFact ------------------------------
(* A durable fact's file: core/durable-state.ts, DurableFactFile.

   The owner hands `save` its whole list after every change.  Saves coalesce behind
   a short timer, one asynchronous write is in flight at a time and the latest
   snapshot wins.  One record is what a DurableFactFile closes over; an operator is
   one method, or one turn of the asynchronous `writeNow`.

   A snapshot is a sequence of records; `pending` and `writing` hold at most one.  *)
EXTENDS Naturals, Sequences

\* `waiting`: some writeNow is parked on the write in flight.  `failed`: the last write
\* that ended did not reach the disk (it is warned about and dropped).
FactFile(Rec) == [disk    : Seq(Rec),
                  pending : SUBSET Seq(Rec),
                  writing : SUBSET Seq(Rec),
                  timer   : BOOLEAN,
                  waiting : BOOLEAN,
                  failed  : BOOLEAN]

NewFile(records) == [disk |-> records, pending |-> {}, writing |-> {},
                     timer |-> FALSE, waiting |-> FALSE, failed |-> FALSE]

\* Nothing saved is still on its way.
Settled(f) == f.pending = {} /\ f.writing = {}

\* Mutant: a save inside the window is dropped, the first snapshot is the one written.
SaveKeepsFirst(f, records) ==
    [f EXCEPT !.pending = IF @ = {} THEN {records} ELSE @, !.timer = TRUE]

\* Mutant: a save takes the newest record for the whole list.
SaveNewest(f, records) ==
    [f EXCEPT !.pending = {records[i] : i \in {Len(records)} \ {0}}, !.timer = TRUE]

\* save: the latest snapshot replaces the one still pending; one timer.
Save(f, records) == [f EXCEPT !.pending = {records}, !.timer = TRUE]

\* The timer fires: write what is pending, or wait for the write in flight.
TimerFired(f) ==
    IF f.writing # {} THEN [f EXCEPT !.timer = FALSE, !.waiting = TRUE]
    ELSE [f EXCEPT !.timer = FALSE, !.writing = f.pending, !.pending = {}]

(* A write ends, by its rename or by an error.  It goes on with what is pending unless a
   timer is left to do so; if it does not, whoever waited for it does.             *)
WriteEnded(f, landed) ==
    LET goesOn == ~f.timer /\ f.pending # {}
        done   == [f EXCEPT !.disk    = IF landed THEN CHOOSE s \in f.writing : TRUE ELSE @,
                            !.writing = {},
                            !.waiting = f.waiting /\ goesOn,
                            !.failed  = ~landed]
    IN  IF goesOn \/ f.waiting THEN [done EXCEPT !.writing = f.pending, !.pending = {}]
        ELSE done

\* flushSync: what is pending is on disk now, and a write in flight keeps its hands off.
FlushedSync(f) ==
    IF f.pending = {} THEN f
    ELSE [f EXCEPT !.disk = CHOOSE s \in f.pending : TRUE,
                   !.pending = {}, !.writing = {}, !.timer = FALSE, !.failed = FALSE]
===============================================================================
