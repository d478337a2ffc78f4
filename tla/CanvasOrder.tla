----------------------------- MODULE CanvasOrder -----------------------------
(* The per-client ordering state of canvas sync: shared/canvas-order.ts.

   One record is what `createCanvasOrder(src)` closes over; one operator is one
   method.  The operators have no state of their own: CanvasOrderLink drives
   one record against a connection, CanvasSync one per client, CanvasAuthority
   the server's.

   A key is what `mutationKey` returns; nodes, edges and board items share one
   key space and one set of rules, so a key is a model value.  OrderKey holds
   the keys of a board's two whole-list order ops, whose echo is special.

   `removed` is a Map in insertion order, capped by evicting its oldest entry: a
   function from key to seq (0 for no entry) and, in `noted`, the entries' order. *)
EXTENDS Naturals, Integers, Sequences, FiniteSets

CONSTANTS Key,            \* mutation keys
          OrderKey,       \* the keys of board order ops
          RemovedMax,     \* REMOVED_MAX
          LocalCastsMax   \* LOCAL_CASTS_MAX

ASSUME KeyAssumption == IsFiniteSet(Key) /\ OrderKey \subseteq Key
ASSUME CapAssumption == RemovedMax \in Nat \ {0} /\ LocalCastsMax \in Nat \ {0}

Unstamped == -1           \* a mutation that carries no `seen`

Cast == [key : Key, remove : BOOLEAN]

(* What the order keeps.  An entry of `pending` is a positive count; `stale`
   holds the keys whose suppression has outlived PENDING_TTL_MS.              *)
Order == [seen           : [Key -> Nat],
          pending        : [Key -> Nat],
          stale          : SUBSET Key,
          superseded     : SUBSET Key,
          removed        : [Key -> Nat],
          noted          : Seq(Key),
          pendingRemoves : [Key -> Nat],
          casts          : Seq(Cast),
          forgotten      : [Key -> Nat],
          rebase         : BOOLEAN,
          lastSeq        : Nat]

NewOrder == [seen           |-> [k \in Key |-> 0],
             pending        |-> [k \in Key |-> 0],
             stale          |-> {},
             superseded     |-> {},
             removed        |-> [k \in Key |-> 0],
             noted          |-> << >>,
             pendingRemoves |-> [k \in Key |-> 0],
             casts          |-> << >>,
             forgotten      |-> [k \in Key |-> 0],
             rebase         |-> FALSE,
             lastSeq        |-> 0]

-------------------------------------------------------------------------------
(* Small parts of the methods.                                                *)

Less(n, d) == IF d >= n THEN 0 ELSE n - d

\* What `stamp` puts in `seen`: the causal position, whatever was applied.
StampSeen(o) == o.lastSeq

HasPendingRemove(o, k) == o.pendingRemoves[k] > 0

\* How many of the first n recorded casts are removes of k.
RemovesAmong(casts, n, k) ==
    Cardinality({i \in 1 .. n : casts[i].key = k /\ casts[i].remove})

\* ... and which of them all are, for the properties.
RemovesOf(casts, k) == {i \in DOMAIN casts : casts[i].key = k /\ casts[i].remove}

\* releaseRemove, for each remove among the first n recorded casts.
ReleaseFirst(o, n) ==
    [k \in Key |-> Less(o.pendingRemoves[k], RemovesAmong(o.casts, n, k))]

\* The insertion order without k's entry.
Without(noted, k) ==
    LET at == CHOOSE i \in DOMAIN noted : noted[i] = k
    IN  IF \E i \in DOMAIN noted : noted[i] = k
        THEN SubSeq(noted, 1, at - 1) \o SubSeq(noted, at + 1, Len(noted))
        ELSE noted

\* noteRemoved: record the tombstone last, evict the oldest beyond the cap.
NoteRemoved(o, k, s) ==
    LET all  == Append(Without(o.noted, k), k)
        over == Len(all) > RemovedMax
        dead == [o.removed EXCEPT ![k] = s]
    IN  [o EXCEPT !.noted   = IF over THEN Tail(all) ELSE all,
                  !.removed = IF over THEN [dead EXCEPT ![Head(all)] = 0] ELSE dead]

\* The tombstone a deliberate re-creation clears.
Revived(o, k) == [o EXCEPT !.noted = Without(@, k), !.removed[k] = 0]

\* Mutant: no rule 4.
NoRuleFour(o, m) == FALSE

\* Rule 4: an upsert whose sender had not applied the remove.
SupersededByRemove(o, m) ==
    /\ ~m.remove
    /\ o.removed[m.key] > 0
    /\ m.seen # Unstamped
    /\ m.seen < o.removed[m.key]

\* Rule 2 holds a peer's edit off: an unacked cast, its TTL not lapsed.
Suppressing(o, k) == o.pending[k] > 0 /\ k \notin o.stale

\* Is m above everything seen for its key (or outside the order altogether)?
Current(o, m) == m.seq = 0 \/ m.seq > o.seen[m.key]

-------------------------------------------------------------------------------
\* Mutant: a flag, not a count, of what is pending.
OnLocalFlag(o, m) ==
    LET k == m.key
    IN  [o EXCEPT !.pending[k] = 1,
                  !.stale      = @ \ {k},
                  !.superseded = @ \ {k},
                  !.casts      = Append(@, [key |-> k, remove |-> m.remove]),
                  !.pendingRemoves[k] = IF m.remove THEN @ + 1 ELSE @]

(* onLocal: a cast we make is pending until its echo.  Past LOCAL_CASTS_MAX the
   oldest recorded cast is forgotten; a remove among them opens its gate.     *)
OnLocal(o, m) ==
    LET k    == m.key
        all  == Append(o.casts, [key |-> k, remove |-> m.remove])
        over == Len(all) > LocalCastsMax
        old  == Head(all)
        up   == IF m.remove THEN [o.pendingRemoves EXCEPT ![k] = @ + 1]
                            ELSE o.pendingRemoves
    IN  [o EXCEPT !.pending[k] = @ + 1,
                  !.stale      = @ \ {k},
                  !.superseded = @ \ {k},
                  !.casts      = IF over THEN Tail(all) ELSE all,
                  !.pendingRemoves =
                      IF over /\ old.remove THEN [up EXCEPT ![old.key] = Less(@, 1)]
                                            ELSE up,
                  !.forgotten = IF over THEN [o.forgotten EXCEPT ![old.key] = @ + 1] ELSE @]

\* The clock passes PENDING_TTL_MS for k's entry: its suppression is over.
Lapse(o, k) == [o EXCEPT !.stale = @ \cup {k}]

\* Everything `accept` records before it judges: seen, position, tombstones.
Heard(o, m) ==
    LET s       == m.seq
        rebased == IF o.rebase /\ s > 0 /\ s <= o.lastSeq THEN s ELSE o.lastSeq
        judged  == IF ~Current(o, m)                 THEN o
                   ELSE IF m.remove                  THEN NoteRemoved(o, m.key, s)
                   ELSE IF ~SupersededByRemove(o, m) THEN Revived(o, m.key)
                   ELSE o
    IN  [judged EXCEPT !.seen[m.key] = IF s > @ THEN s ELSE @,
                       !.rebase      = @ /\ s = 0,
                       !.lastSeq     = IF s > rebased THEN s ELSE rebased]

\* Mutant: every echo is taken for a forgotten cast's.
MatchEchoForgotten(o, k) == [o EXCEPT !.forgotten[k] = @ - 1]

\* Mutant: the echo is matched to the last cast of its key, not the first.
MatchEchoLast(o, k) ==
    LET ats == {i \in DOMAIN o.casts : o.casts[i].key = k}
        at  == CHOOSE i \in ats : \A j \in ats : i >= j
    IN  IF ats = {} THEN o
        ELSE [o EXCEPT !.casts          = SubSeq(@, at + 1, Len(@)),
                       !.pendingRemoves = ReleaseFirst(o, at)]

(* The re-creation gate's release: the echo is the first recorded cast of its
   key, and by FIFO every cast recorded before it has lost its echo.          *)
MatchEcho(o, k) ==
    LET ats == {i \in DOMAIN o.casts : o.casts[i].key = k}
        at  == CHOOSE i \in ats : \A j \in ats : i <= j
    IN  IF o.forgotten[k] > 0 THEN [o EXCEPT !.forgotten[k] = @ - 1]
        ELSE IF ats = {}      THEN o
        ELSE [o EXCEPT !.casts          = SubSeq(@, at + 1, Len(@)),
                       !.pendingRemoves = ReleaseFirst(o, at),
                       !.forgotten      = [j \in Key |-> 0]]

\* Our echo draws down its pending entry; the last one settles the key.
Ack(o, k) ==
    IF o.pending[k] > 1 THEN [o EXCEPT !.pending[k] = @ - 1]
    ELSE IF o.pending[k] = 1
         THEN [o EXCEPT !.pending[k]  = 0,
                        !.stale       = @ \ {k},
                        !.superseded  = @ \ {k}]
    ELSE o

(* accept, for a client whose publisher tag is `me`: the order afterwards and
   the verdict ("apply it to the canvas").                                    *)
OwnEcho(o, m, me) == m.src = me

Accepted(o, m, me) ==
    LET h == Heard(o, m)
        k == m.key
        applied == /\ Current(o, m)
                   /\ ~SupersededByRemove(o, m)
                   /\ m.remove \/ ~Suppressing(o, k)
    IN  IF OwnEcho(o, m, me) THEN MatchEcho(Ack(h, k), k)
        ELSE IF applied /\ o.pending[k] > 0
             THEN [h EXCEPT !.superseded = @ \cup {k}]
        ELSE h

\* Mutant: no rule 3, every echo of ours is only an ack.
AppliesNoRepair(o, m, me) ==
    /\ ~OwnEcho(o, m, me)
    /\ Current(o, m)
    /\ ~SupersededByRemove(o, m)
    /\ m.remove \/ ~Suppressing(o, m.key)

\* Mutant: rule 2 holds a remove off too.
AppliesHoldsRemoves(o, m, me) ==
    IF OwnEcho(o, m, me)
    THEN m.key \in o.superseded /\ Current(o, m) /\ ~SupersededByRemove(o, m)
    ELSE Current(o, m) /\ ~SupersededByRemove(o, m) /\ ~Suppressing(o, m.key)

Applies(o, m, me) ==
    LET k == m.key
        repair  == /\ k \in o.superseded
                   /\ Current(o, m)
                   /\ ~SupersededByRemove(o, m)
        settled == o.pending[k] = 1
    IN  IF OwnEcho(o, m, me)
        THEN repair \/ (settled /\ Current(o, m) /\ k \in OrderKey)
        ELSE /\ Current(o, m)
             /\ ~SupersededByRemove(o, m)
             /\ m.remove \/ ~Suppressing(o, k)

\* Mutant: a reset that keeps the seqs.
ResetKeepsSeen(o) == [NewOrder EXCEPT !.seen = o.seen, !.rebase = TRUE]

\* reset, on a genuine reconnect: everything but our causal position.
Reset(o) == [NewOrder EXCEPT !.lastSeq = o.lastSeq, !.rebase = TRUE]
===============================================================================
