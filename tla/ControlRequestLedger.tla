------------------------- MODULE ControlRequestLedger -------------------------
(* Retried canvas-control calls (core/control-request-ledger.ts) on the hook server's
   route (core/agents/hook-server.ts), with the ledger's durable file (DurableFact),
   through crashes and restarts.

   A call names a key, its verified caller and its operation id, and a fingerprint of
   what it does.  The ledger's `rows` is a Map in claim order: a sequence of records.
   A run of the handler is a number; its row carries it, which stands both for the row
   object its claim closes over and for the reply it stores.  A row forgotten and
   claimed again under the same key carries another number.                       *)
EXTENDS DurableFact, Filtering, Integers, FiniteSets, SequencesExt

CONSTANTS Caller,           \* verified caller nodes
          Id,               \* operation ids
          Fingerprint,      \* what a call does
          Large,            \* runs whose reply is too large to store
          PerCallerMax,     \* REQUEST_LEDGER_PER_CALLER_MAX
          GlobalMax,        \* REQUEST_LEDGER_GLOBAL_MAX, and the file's maxRecords
          Ttl,              \* ttlMs
          Stale,            \* inFlightStaleMs
          MaxRuns,          \* bound on handler runs
          MaxNow,           \* bound on the clock
          MaxExits          \* bound on crashes and quits

ASSUME LedgerAssumption == /\ Large \subseteq 1 .. MaxRuns
                           /\ {PerCallerMax, GlobalMax} \subseteq Nat \ {0}
                           /\ {Ttl, Stale, MaxRuns, MaxNow, MaxExits} \subseteq Nat

Key == Caller \X Id
Run == 1 .. MaxRuns
NoReply == 0

\* A settled row, and only a settled one, has a reply.
RowOf(states, replies) ==
    [key : Key, fingerprint : Fingerprint, run : Run,
     claimedAt : 0 .. MaxNow, touchedAt : 0 .. MaxNow, state : states, reply : replies]

Row == RowOf({"settled"}, Run) \cup RowOf({"in-flight", "unknown"}, {NoReply})

VARIABLES up,               \* the process runs
          now,              \* the clock
          rows,             \* the ledger
          running,          \* runs whose handler is under way
          late,             \* runs given up on, whose answer may still come
          file,             \* the durable file
          ran,              \* history: the call each run was for, and when
          forgot,           \* history: runs whose row retention, a cap or a crash took
          cut,              \* history: runs whose row a clean quit left off the disk
          exits

vars == <<up, now, rows, running, late, file, ran, forgot, cut, exits>>

Call == [key : Key, fingerprint : Fingerprint]

TypeOK == /\ up \in BOOLEAN
          /\ now \in 0 .. MaxNow
          /\ rows \in Seq(Row)
          /\ running \subseteq Run /\ late \subseteq Run
          /\ file \in FactFile(Row)
          /\ ran \in Seq([call : Call, at : 0 .. MaxNow])
          /\ forgot \subseteq Run /\ cut \subseteq Run
          /\ exits \in 0 .. MaxExits

Init == /\ up = TRUE
        /\ now = 0
        /\ rows = << >>
        /\ running = {} /\ late = {}
        /\ file = NewFile(<< >>)
        /\ ran = << >>
        /\ forgot = {} /\ cut = {}
        /\ exits = 0

-------------------------------------------------------------------------------
(* The rows.                                                                   *)

RunsOf(q) == {q[i].run : i \in DOMAIN q}

Lapsed(r) == now - r.touchedAt > Ttl

\* prune.
Pruned(q) == Only(q, {r \in ToSet(q) : ~Lapsed(r)})

\* evictOldest: of the callers' rows, the oldest not in flight.
EvictOldest(q, callers) ==
    LET can == {i \in DOMAIN q : q[i].key[1] \in callers /\ q[i].state # "in-flight"}
    IN  IF can = {} THEN q ELSE RemoveAt(q, Min(can))

\* enforceCaps: the caller's cap, then the total.
Capped(q, caller) ==
    LET own == {i \in DOMAIN q : q[i].key[1] = caller}
        one == IF Cardinality(own) > PerCallerMax THEN EvictOldest(q, {caller}) ELSE q
    IN  IF Len(one) > GlobalMax THEN EvictOldest(one, Caller) ELSE one

\* Mutant: the reply too large to store is left out of its row, which stays settled.
ExportedReplyless(r) == IF r.state = "settled" /\ r.reply \in Large
                        THEN [r EXCEPT !.reply = NoReply] ELSE r

\* exportRows: a reply too large to store makes its row unknown.
Exported(r) == IF r.state = "settled" /\ r.reply \in Large
               THEN [r EXCEPT !.state = "unknown", !.reply = NoReply] ELSE r

\* onChange: the file keeps the last rows its bound allows.
Mirrored(q) ==
    file' = Save(file, LET all == [i \in DOMAIN q |-> Exported(q[i])]
                       IN  SubSeq(all, 1 + Len(all) - Min({Len(all), GlobalMax}), Len(all)))

\* restore, of one row.
Awoken(r) == IF r.state = "settled" THEN r ELSE [r EXCEPT !.state = "unknown"]

\* Mutant: only the rows that can replay come back.
ComesBackSettled(r) == ~Lapsed(r) /\ r.state = "settled"

ComesBack(r) == ~Lapsed(r)

Loaded(disk) == LET q == Only(disk, {r \in ToSet(disk) : ComesBack(r)})
                IN  [i \in DOMAIN q |-> Awoken(q[i])]

\* restore: row by row, the caps applied as on a claim.
Restored(q) ==
    LET upTo[i \in 0 .. Len(q)] ==
            IF i = 0 THEN << >> ELSE Capped(Append(upTo[i - 1], q[i]), q[i].key[1])
    IN  upTo[Len(q)]

-------------------------------------------------------------------------------
(* begin: prune, look the call up, and answer it or claim its key, in one step.  *)

AnswerFrom(r, call) ==
    IF r.fingerprint # call.fingerprint THEN "request-id-conflict"
    ELSE CASE r.state = "settled" -> "replay"
           [] r.state = "in-flight" /\ now - r.claimedAt <= Stale -> "request-in-flight"
           [] OTHER -> "request-outcome-unknown"

\* The rows a call finds under its key: at most one.
Found(call) == LET kept == Pruned(rows)
               IN  {kept[i] : i \in {j \in DOMAIN kept : kept[j].key = call.key}}

\* Answered from the row, whatever AnswerFrom says: only the pruning shows.
Answered(call) == /\ Found(call) # {}
                  /\ rows' = Pruned(rows)
                  /\ IF rows' = rows THEN UNCHANGED file ELSE Mirrored(rows')
                  /\ UNCHANGED <<running, ran>>

Claimed(call) ==
    LET kept == Pruned(rows)
        c    == Len(ran) + 1
        row  == [key |-> call.key, fingerprint |-> call.fingerprint, run |-> c,
                 claimedAt |-> now, touchedAt |-> now,
                 state |-> "in-flight", reply |-> NoReply]
    IN  /\ c \in Run
        /\ Found(call) = {}
        /\ rows' = Capped(Append(kept, row), call.key[1])
        /\ Mirrored(rows')
        /\ running' = running \cup {c}
        /\ ran' = Append(ran, [call |-> call, at |-> now])

Begin(call) ==
    /\ up
    /\ Answered(call) \/ Claimed(call)
    /\ forgot' = forgot \cup ({rows[i].run : i \in {j \in DOMAIN rows :
                                 Lapsed(rows[j]) \/ rows[j].state # "in-flight"}}
                             \ RunsOf(rows'))
    /\ UNCHANGED <<up, now, late, cut, exits>>

-------------------------------------------------------------------------------
(* The claim: what the handler's end does to its own row.                      *)

\* Mutant: the claim finds its row by key, whoever holds the key now.
OwnRowByKey(c) == {i \in DOMAIN rows : rows[i].key = ran[c].call.key}

OwnRow(c) == {i \in DOMAIN rows : rows[i].run = c}

\* The claim's row becomes s if it was `from`; a forgotten row is nobody's to read.
Moves(c, from, s, reply) ==
    /\ rows' = [i \in DOMAIN rows |->
                    IF i \in OwnRow(c) /\ rows[i].state = from
                    THEN [rows[i] EXCEPT !.state = s, !.reply = reply, !.touchedAt = now]
                    ELSE rows[i]]
    /\ Mirrored(rows')

\* settle, with the handler's reply.
HandlerReplies(c) ==
    /\ up /\ c \in running
    /\ running' = running \ {c}
    /\ Moves(c, "in-flight", "settled", c)
    /\ UNCHANGED <<up, now, late, ran, forgot, cut, exits>>

\* settle with an indeterminate reply, whose answer may still come.
HandlerGivesUp(c) ==
    /\ up /\ c \in running
    /\ running' = running \ {c}
    /\ late' = late \cup {c}
    /\ Moves(c, "in-flight", "unknown", NoReply)
    /\ UNCHANGED <<up, now, ran, forgot, cut, exits>>

\* settleUnknown.
HandlerThrows(c) ==
    /\ up /\ c \in running
    /\ running' = running \ {c}
    /\ Moves(c, "in-flight", "unknown", NoReply)
    /\ UNCHANGED <<up, now, late, ran, forgot, cut, exits>>

\* settleLate.
LateAnswer(c) ==
    /\ up /\ c \in late
    /\ late' = late \ {c}
    /\ Moves(c, "unknown", "settled", c)
    /\ UNCHANGED <<up, now, running, ran, forgot, cut, exits>>

-------------------------------------------------------------------------------
(* The clock, the file, and the process.                                       *)

Tick == /\ now < MaxNow
        /\ now' = now + 1
        /\ UNCHANGED <<up, rows, running, late, file, ran, forgot, cut, exits>>

SaveTimer == /\ up /\ file.timer
             /\ file' = TimerFired(file)
             /\ UNCHANGED <<up, now, rows, running, late, ran, forgot, cut, exits>>

SaveEnds == /\ up /\ file.writing # {}
            /\ \E landed \in BOOLEAN : file' = WriteEnded(file, landed)
            /\ UNCHANGED <<up, now, rows, running, late, ran, forgot, cut, exits>>

Gone(disk) == /\ up /\ exits < MaxExits
              /\ up' = FALSE
              /\ exits' = exits + 1
              /\ file' = NewFile(disk)
              /\ rows' = << >> /\ running' = {} /\ late' = {}
              /\ UNCHANGED <<now, ran>>

\* A crash takes the rows no landed write holds.
Crash == /\ Gone(file.disk)
         /\ forgot' = forgot \cup (RunsOf(rows) \ RunsOf(file.disk))
         /\ UNCHANGED cut

\* What flushSync leaves on disk is the last snapshot: it has one to write, or the last
\* one was written.  It has none, and returns, while that one is still being written, and
\* after its write failed.
Flushes == file.pending # {} \/ (file.writing = {} /\ ~file.failed)

\* The rows a quit leaves off its disk for want of a flush, or, in a full ledger all in
\* flight, for want of room in the file.
LeftOut(disk) ==
    {rows[i].run : i \in {j \in DOMAIN rows : j + GlobalMax <= Len(rows) \/ ~Flushes}}
    \ RunsOf(disk)

\* stop: dispose flushes; a write it found no snapshot to replace by may still land.
Quit == LET flushed == FlushedSync(file)
        IN  \E disk \in {flushed.disk} \cup flushed.writing :
                /\ Gone(disk)
                /\ cut' = cut \cup LeftOut(disk)
                /\ UNCHANGED forgot

\* attachRequestLedgerFile.
Start == LET q == Loaded(file.disk)
         IN  /\ ~up
             /\ up' = TRUE
             /\ rows' = Restored(q)
             /\ forgot' = forgot \cup (RunsOf(q) \ RunsOf(rows'))
                                 \cup {file.disk[i].run : i \in
                                         {j \in DOMAIN file.disk : Lapsed(file.disk[j])}}
             /\ UNCHANGED <<now, running, late, file, ran, cut, exits>>

Next == \/ \E call \in Call : Begin(call)
        \/ \E c \in Run : \/ HandlerReplies(c) \/ HandlerGivesUp(c)
                          \/ HandlerThrows(c) \/ LateAnswer(c)
        \/ Tick \/ SaveTimer \/ SaveEnds
        \/ Crash \/ Quit \/ Start

Spec == Init /\ [][Next]_vars

-------------------------------------------------------------------------------
(* Properties.                                                                 *)

(* Forgotten first: a key runs a second time only after every row an earlier run of it
   left was taken by retention, by a cap, by a crash before it was on disk, or by a quit
   that left it off the disk.  A row the disk holds survives every exit, one whose save
   is pending survives a quit, and restarts, saves, late answers and settlements take
   none ("the same id never runs twice", control-request-ledger.ts:22).          *)
ForgottenFirst ==
    \A c, d \in DOMAIN ran :
        c < d /\ ran[c].call.key = ran[d].call.key => c \in forgot \cup cut

(* One at a time: while a key's handler is under way no cap makes room for a second
   run of it; only the retention time can.                                       *)
OneAtATime ==
    \A c, d \in running :
        c < d /\ ran[c].call.key = ran[d].call.key => ran[d].at - ran[c].at > Ttl

\* A call runs once: again only when its row was lost as said, never beside itself.
RunsOnce == ForgottenFirst /\ OneAtATime

(* The header's claim: "A crash inside the save window loses the rows claimed in it; a
   clean quit flushes synchronously" (control-request-ledger.ts:42-43), so no key runs
   again for want of what a quit did not write.                                  *)
RunsOnceOverQuits ==
    \A c, d \in DOMAIN ran :
        c < d /\ ran[c].call.key = ran[d].call.key => c \in forgot

(* "An in-flight row is never evicted by a cap (evicting it would let its own retry run a
   second time)" (control-request-ledger.ts:27-28): nor, then, from the file.    *)
InFlightStored ==
    up /\ Settled(file) /\ ~file.failed =>
        \A i \in DOMAIN rows : rows[i].state = "in-flight" => rows[i].run \in RunsOf(file.disk)

(* True answers: a replay is the reply of a run of that very call, never of another call
   that used the id, and "in flight" is said only of a call some handler is working on,
   never of one a restart cut off.                                               *)
AnswersAreTrue ==
    \A call \in Call : \A r \in Found(call) :
        /\ AnswerFrom(r, call) = "replay" => ran[r.reply].call = call
        /\ AnswerFrom(r, call) = "request-in-flight" =>
               \E c \in running : ran[c].call = call
===============================================================================
