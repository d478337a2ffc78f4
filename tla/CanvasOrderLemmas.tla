--------------------------- MODULE CanvasOrderLemmas ---------------------------
(* What each method of canvas-order.ts does to an order, field by field, for any keys
   and caps: the facts the proofs of the order's owners cite.                  *)
EXTENDS CanvasOrder, IndexLemmas, SequenceTheorems

-------------------------------------------------------------------------------
(* Counting indices.                                                          *)

\* How many of the first n casts are removes of k is a number, and no more than n.
LEMMA RemovesAmongType ==
    ASSUME NEW casts, NEW n \in Nat, NEW k
    PROVE  RemovesAmong(casts, n, k) \in Nat
<1> DEFINE S == {i \in 1 .. n : casts[i].key = k /\ casts[i].remove}
<1>1. IsFiniteSet(1 .. n)
  BY FS_Interval
<1>2. S \in SUBSET (1 .. n)
  OBVIOUS
<1> HIDE DEF S
<1>3. IsFiniteSet(S) /\ Cardinality(S) \in Nat
  BY <1>1, <1>2, FS_Subset, FS_CardinalityType
<1> QED
  BY <1>3 DEF RemovesAmong, S

LEMMA ReleaseFirstType ==
    ASSUME NEW o \in Order, NEW n \in Nat
    PROVE  ReleaseFirst(o, n) \in [Key -> Nat]
<1>1. \A k \in Key : RemovesAmong(o.casts, n, k) \in Nat /\ o.pendingRemoves[k] \in Nat
  BY RemovesAmongType DEF Order
<1> QED
  BY <1>1 DEF ReleaseFirst, Less

-------------------------------------------------------------------------------
(* The methods of canvas-order.ts, field by field.                            *)

\* Without drops one element of a sequence, if it is there.
LEMMA WithoutType ==
    ASSUME NEW k, NEW noted \in Seq(Key)
    PROVE  Without(noted, k) \in Seq(Key)
<1> DEFINE at == CHOOSE i \in DOMAIN noted : noted[i] = k
<1>1. CASE \E i \in DOMAIN noted : noted[i] = k
  <2>1. at \in 1 .. Len(noted)
    BY <1>1
  <2> HIDE DEF at
  <2>2. SubSeq(noted, 1, at - 1) \in Seq(Key)
    BY <2>1, SubSeqProperties, ElementOfSeq
  <2>3. SubSeq(noted, at + 1, Len(noted)) \in Seq(Key)
    BY <2>1, SubSeqProperties, ElementOfSeq
  <2> QED
    BY <1>1, <2>2, <2>3, ConcatProperties DEF Without, at
<1>2. CASE ~\E i \in DOMAIN noted : noted[i] = k
  BY <1>2 DEF Without
<1> QED
  BY <1>1, <1>2

\* What every delivery leaves alone until it is judged: all that concerns our casts.
Keeps(o, n) == /\ n.pending = o.pending
               /\ n.stale = o.stale
               /\ n.superseded = o.superseded
               /\ n.pendingRemoves = o.pendingRemoves
               /\ n.casts = o.casts
               /\ n.forgotten = o.forgotten

\* ... and, for the tombstones' part of it, the seqs too.
KeepsSeqs(o, n) == /\ Keeps(o, n)
                   /\ n.seen = o.seen
                   /\ n.rebase = o.rebase
                   /\ n.lastSeq = o.lastSeq

\* noteRemoved touches the tombstones alone: k's becomes s, an evicted one goes.
LEMMA NoteRemovedFields ==
    ASSUME NEW o \in Order, NEW k \in Key, NEW s \in Nat
    PROVE  LET n == NoteRemoved(o, k, s)
           IN  /\ n \in Order
               /\ KeepsSeqs(o, n)
               /\ \A j \in Key : n.removed[j] # o.removed[j] =>
                                   n.removed[j] = 0 \/ (j = k /\ n.removed[j] = s)
<1> DEFINE all     == Append(Without(o.noted, k), k)
           over    == Len(all) > RemovedMax
           dead    == [o.removed EXCEPT ![k] = s]
           noted   == IF over THEN Tail(all) ELSE all
           removed == IF over THEN [dead EXCEPT ![Head(all)] = 0] ELSE dead
<1>1. all \in Seq(Key) /\ all # << >>
  <2>1. Without(o.noted, k) \in Seq(Key)
    BY WithoutType DEF Order
  <2> QED
    BY <2>1, AppendProperties
<1>2. Head(all) \in Key /\ Tail(all) \in Seq(Key)
  BY <1>1, HeadTailProperties
<1>3. NoteRemoved(o, k, s) = [o EXCEPT !.noted = noted, !.removed = removed]
  BY DEF NoteRemoved
<1> HIDE DEF all
<1>4. dead \in [Key -> Nat]
  BY DEF Order
<1>5. removed \in [Key -> Nat] /\ noted \in Seq(Key)
  BY <1>1, <1>2, <1>4
<1>6. \A j \in Key : removed[j] # o.removed[j] => removed[j] = 0 \/ (j = k /\ removed[j] = s)
  BY <1>2 DEF Order
<1> HIDE DEF noted, removed
<1> QED
  BY <1>3, <1>5, <1>6 DEF Order, KeepsSeqs, Keeps

\* A re-creation clears its tombstone and touches nothing else.
LEMMA RevivedFields ==
    ASSUME NEW o \in Order, NEW k \in Key
    PROVE  LET n == Revived(o, k)
           IN  /\ n \in Order
               /\ KeepsSeqs(o, n)
               /\ \A j \in Key : n.removed[j] \in {0, o.removed[j]}
<1>1. Without(o.noted, k) \in Seq(Key)
  BY WithoutType DEF Order
<1> DEFINE noted   == Without(o.noted, k)
           removed == [o.removed EXCEPT ![k] = 0]
<1>2. Revived(o, k) = [o EXCEPT !.noted = noted, !.removed = removed]
  BY DEF Revived, Order
<1>3. /\ noted \in Seq(Key)
      /\ removed \in [Key -> Nat]
      /\ \A j \in Key : removed[j] \in {0, o.removed[j]}
  BY <1>1 DEF Order
<1> HIDE DEF noted, removed
<1> QED
  BY <1>2, <1>3 DEF Order, KeepsSeqs, Keeps

\* What Heard leaves of an order: seen, the position and the tombstones move; a
\* tombstone is an old one or the delivery's own.
LEMMA HeardFields ==
    ASSUME NEW o \in Order, NEW m, m.key \in Key, m.seq \in Nat \ {0}
    PROVE  LET h == Heard(o, m)
           IN  /\ h \in Order
               /\ Keeps(o, h)
               /\ h.seen = [o.seen EXCEPT ![m.key] = IF m.seq > @ THEN m.seq ELSE @]
               /\ h.rebase = FALSE
               /\ h.lastSeq = IF o.rebase \/ m.seq > o.lastSeq THEN m.seq ELSE o.lastSeq
               /\ \A j \in Key : h.removed[j] # o.removed[j] =>
                                   h.removed[j] = 0 \/ (j = m.key /\ h.removed[j] = m.seq)
<1> DEFINE judged == IF ~Current(o, m)                 THEN o
                     ELSE IF m.remove                  THEN NoteRemoved(o, m.key, m.seq)
                     ELSE IF ~SupersededByRemove(o, m) THEN Revived(o, m.key)
                     ELSE o
           based  == IF o.rebase /\ m.seq > 0 /\ m.seq <= o.lastSeq THEN m.seq ELSE o.lastSeq
<1>1. /\ judged \in Order
      /\ KeepsSeqs(o, judged)
      /\ \A j \in Key : judged.removed[j] # o.removed[j] =>
                          judged.removed[j] = 0 \/ (j = m.key /\ judged.removed[j] = m.seq)
  <2>1. m.key \in Key /\ m.seq \in Nat
    OBVIOUS
  <2>2. CASE judged = o
    BY <2>2 DEF KeepsSeqs, Keeps
  <2>3. CASE judged = NoteRemoved(o, m.key, m.seq)
    BY <2>1, <2>3, NoteRemovedFields
  <2>4. CASE judged = Revived(o, m.key)
    BY <2>1, <2>4, RevivedFields
  <2> QED
    BY <2>2, <2>3, <2>4
<1> DEFINE seen    == [o.seen EXCEPT ![m.key] = IF m.seq > @ THEN m.seq ELSE @]
           lastSeq == IF o.rebase \/ m.seq > o.lastSeq THEN m.seq ELSE o.lastSeq
<1>2. m.seq \in Nat \ {0} /\ m.key \in Key /\ o.lastSeq \in Nat /\ o.rebase \in BOOLEAN
      /\ o.seen \in [Key -> Nat]
  BY DEF Order
<1>3. Heard(o, m) = [judged EXCEPT !.seen[m.key] = IF m.seq > @ THEN m.seq ELSE @,
                                   !.rebase      = @ /\ m.seq = 0,
                                   !.lastSeq     = IF m.seq > based THEN m.seq ELSE based]
  BY DEF Heard
<1> HIDE DEF judged
<1>4. Heard(o, m) = [judged EXCEPT !.seen = seen, !.rebase = FALSE, !.lastSeq = lastSeq]
  <2>1. judged.seen = o.seen /\ judged.lastSeq = o.lastSeq /\ judged.rebase = o.rebase
    BY <1>1 DEF KeepsSeqs
  <2>2. (judged.rebase /\ m.seq = 0) = FALSE
    BY <1>2
  <2>3. (IF m.seq > based THEN m.seq ELSE based) = lastSeq
    BY <1>2
  <2>4. [judged.seen EXCEPT ![m.key] = IF m.seq > @ THEN m.seq ELSE @] = seen
    BY <2>1
  <2> HIDE DEF based, lastSeq, seen
  <2> QED
    BY <1>3, <2>2, <2>3, <2>4
<1>5. seen \in [Key -> Nat] /\ lastSeq \in Nat
  BY <1>2
<1> HIDE DEF seen, lastSeq
<1>6. /\ Heard(o, m) \in Order
      /\ Keeps(judged, Heard(o, m))
      /\ Heard(o, m).removed = judged.removed
      /\ Heard(o, m).seen = seen
      /\ Heard(o, m).rebase = FALSE
      /\ Heard(o, m).lastSeq = lastSeq
  BY <1>1, <1>4, <1>5 DEF Order, Keeps
<1> QED
  BY <1>1, <1>6 DEF KeepsSeqs, Keeps, seen, lastSeq

\* The part of an order our own casts and echoes leave alone: the seqs, the tombstones.
KeepsOrder(o, n) == /\ n.seen = o.seen
                    /\ n.removed = o.removed
                    /\ n.noted = o.noted
                    /\ n.rebase = o.rebase
                    /\ n.lastSeq = o.lastSeq

\* Acking an echo draws its key's count down by one and clears the marks of a key
\* that settles.
AckOutcome(o, k, n) ==
    /\ n \in Order
    /\ KeepsOrder(o, n)
    /\ n.pending = [o.pending EXCEPT ![k] = Less(@, 1)]
    /\ n.stale \cup n.superseded \subseteq o.stale \cup o.superseded
    /\ o.pending[k] = 1 => k \notin n.stale \cup n.superseded
    /\ n.casts = o.casts
    /\ n.pendingRemoves = o.pendingRemoves
    /\ n.forgotten = o.forgotten

LEMMA AckFields ==
    ASSUME NEW o \in Order, NEW k \in Key
    PROVE  AckOutcome(o, k, Ack(o, k))
<1> DEFINE pending == [o.pending EXCEPT ![k] = Less(@, 1)]
<1>1. o.pending \in [Key -> Nat] /\ pending \in [Key -> Nat]
  BY DEF Order, Less
<1>2. CASE o.pending[k] > 1
  <2>1. Ack(o, k) = [o EXCEPT !.pending = pending]
    <3>1. [o.pending EXCEPT ![k] = @ - 1] = pending
      BY <1>1, <1>2 DEF Less
    <3>2. Ack(o, k) = [o EXCEPT !.pending = [o.pending EXCEPT ![k] = @ - 1]]
      BY <1>2 DEF Ack
    <3> QED
      BY <3>1, <3>2
  <2> HIDE DEF pending
  <2>2. /\ Ack(o, k) \in Order
        /\ KeepsOrder(o, Ack(o, k))
        /\ Ack(o, k).pending = pending
        /\ Ack(o, k).stale = o.stale /\ Ack(o, k).superseded = o.superseded
        /\ Ack(o, k).casts = o.casts
        /\ Ack(o, k).pendingRemoves = o.pendingRemoves
        /\ Ack(o, k).forgotten = o.forgotten
    BY <1>1, <2>1 DEF Order, KeepsOrder
  <2> QED
    BY <1>2, <2>2 DEF pending, AckOutcome
<1>3. CASE o.pending[k] = 1
  <2> DEFINE stale  == o.stale \ {k}
             marked == o.superseded \ {k}
  <2>1. Ack(o, k) = [o EXCEPT !.pending = pending, !.stale = stale, !.superseded = marked]
    <3>1. [o.pending EXCEPT ![k] = 0] = pending
      BY <1>1, <1>3 DEF Less
    <3>2. Ack(o, k) = [o EXCEPT !.pending = [o.pending EXCEPT ![k] = 0],
                                !.stale = stale, !.superseded = marked]
      BY <1>3 DEF Ack
    <3> QED
      BY <3>1, <3>2
  <2>2. stale \in SUBSET Key /\ marked \in SUBSET Key
    BY DEF Order
  <2> HIDE DEF pending, stale, marked
  <2>3. /\ Ack(o, k) \in Order
        /\ KeepsOrder(o, Ack(o, k))
        /\ Ack(o, k).pending = pending
        /\ Ack(o, k).stale = stale /\ Ack(o, k).superseded = marked
        /\ Ack(o, k).casts = o.casts
        /\ Ack(o, k).pendingRemoves = o.pendingRemoves
        /\ Ack(o, k).forgotten = o.forgotten
    BY <1>1, <2>1, <2>2 DEF Order, KeepsOrder
  <2> QED
    BY <1>3, <2>3 DEF pending, stale, marked, AckOutcome
<1>4. CASE o.pending[k] = 0
  <2>1. Ack(o, k) = o /\ pending = o.pending
    BY <1>1, <1>4 DEF Ack, Less
  <2> QED
    BY <1>4, <2>1 DEF KeepsOrder, AckOutcome
<1> QED
  BY <1>1, <1>2, <1>3, <1>4

\* A lapse only marks.
LEMMA LapseFields ==
    ASSUME NEW o \in Order, NEW k \in Key
    PROVE  LET n == Lapse(o, k)
           IN  /\ n \in Order
               /\ KeepsOrder(o, n)
               /\ n.pending = o.pending /\ n.superseded = o.superseded /\ n.casts = o.casts
               /\ n.pendingRemoves = o.pendingRemoves /\ n.forgotten = o.forgotten
<1> DEFINE stale == o.stale \cup {k}
           n     == [o EXCEPT !.stale = stale]
<1>1. stale \in SUBSET Key /\ Lapse(o, k) = n
  BY DEF Lapse, Order
<1> HIDE DEF stale
<1>2. n \in Order
  BY <1>1 DEF Order
<1>3. /\ n.seen = o.seen /\ n.removed = o.removed /\ n.noted = o.noted
      /\ n.rebase = o.rebase /\ n.lastSeq = o.lastSeq
      /\ n.pending = o.pending /\ n.superseded = o.superseded /\ n.casts = o.casts
      /\ n.pendingRemoves = o.pendingRemoves /\ n.forgotten = o.forgotten
  BY DEF Order
<1> QED
  BY <1>1, <1>2, <1>3 DEF KeepsOrder

\* The first recorded cast of a key.
FirstAt(o, k, at) == /\ at \in 1 .. Len(o.casts)
                     /\ o.casts[at].key = k
                     /\ \A i \in 1 .. Len(o.casts) : o.casts[i].key = k => at <= i

\* Matching an echo: to a forgotten cast, to none, or to the first recorded one.
MatchOutcome(o, k, n) ==
    /\ n \in Order
    /\ KeepsOrder(o, n)
    /\ n.pending = o.pending
    /\ n.stale = o.stale
    /\ n.superseded = o.superseded
    /\ \/ /\ o.forgotten[k] > 0
          /\ n.forgotten = [o.forgotten EXCEPT ![k] = @ - 1]
          /\ n.casts = o.casts
          /\ n.pendingRemoves = o.pendingRemoves
       \/ /\ o.forgotten[k] = 0
          /\ \A i \in 1 .. Len(o.casts) : o.casts[i].key # k
          /\ n = o
       \/ \E at \in 1 .. Len(o.casts) :
             /\ o.forgotten[k] = 0
             /\ FirstAt(o, k, at)
             /\ n.casts = SubSeq(o.casts, at + 1, Len(o.casts))
             /\ n.pendingRemoves = ReleaseFirst(o, at)
             /\ n.forgotten = [j \in Key |-> 0]

LEMMA MatchEchoFields ==
    ASSUME NEW o \in Order, NEW k \in Key
    PROVE  MatchOutcome(o, k, MatchEcho(o, k))
<1> DEFINE ats == {i \in DOMAIN o.casts : o.casts[i].key = k}
           at  == CHOOSE i \in ats : \A j \in ats : i <= j
<1>1. /\ o.forgotten \in [Key -> Nat]
      /\ o.pendingRemoves \in [Key -> Nat]
      /\ o.casts \in Seq(Cast)
      /\ Len(o.casts) \in Nat
      /\ DOMAIN o.casts = 1 .. Len(o.casts)
  BY LenProperties DEF Order
<1>2. CASE o.forgotten[k] > 0
  <2> DEFINE forgotten == [o.forgotten EXCEPT ![k] = @ - 1]
  <2>1. MatchEcho(o, k) = [o EXCEPT !.forgotten = forgotten]
    BY <1>2 DEF MatchEcho, Order
  <2>2. forgotten \in [Key -> Nat]
    BY <1>1, <1>2
  <2> HIDE DEF forgotten
  <2>3. MatchEcho(o, k) \in Order /\ MatchEcho(o, k).forgotten = forgotten
    BY <2>1, <2>2 DEF Order
  <2> QED
    BY <1>2, <2>1, <2>3 DEF Order, KeepsOrder, forgotten, MatchOutcome
<1>3. CASE o.forgotten[k] = 0 /\ ats = {}
  <2>1. MatchEcho(o, k) = o
    BY <1>3 DEF MatchEcho
  <2> QED
    BY <1>1, <1>3, <2>1 DEF KeepsOrder, MatchOutcome
<1>4. CASE o.forgotten[k] = 0 /\ ats # {}
  <2>1. at \in ats /\ \A j \in ats : at <= j
    <3>1. \E i \in ats : \A j \in ats : i <= j
      <4>1. PICK i \in ats : TRUE
        BY <1>4
      <4> QED
        BY <1>1, <1>4, LeastIndex
    <3> QED
      BY <3>1
  <2> DEFINE casts   == SubSeq(o.casts, at + 1, Len(o.casts))
             removes == ReleaseFirst(o, at)
             forgot  == [j \in Key |-> 0]
  <2>2. MatchEcho(o, k) = [o EXCEPT !.casts = casts, !.pendingRemoves = removes, !.forgotten = forgot]
    BY <1>4 DEF MatchEcho
  <2>3. FirstAt(o, k, at)
    BY <1>1, <2>1 DEF FirstAt
  <2> HIDE DEF at
  <2>4. casts \in Seq(Cast)
    BY <1>1, <2>3, SubSeqProperties, ElementOfSeq DEF FirstAt
  <2>5. removes \in [Key -> Nat]
    BY <1>1, <2>3, ReleaseFirstType DEF FirstAt
  <2> HIDE DEF casts, removes, forgot
  <2>6. /\ MatchEcho(o, k) \in Order
        /\ KeepsOrder(o, MatchEcho(o, k))
        /\ MatchEcho(o, k).pending = o.pending
        /\ MatchEcho(o, k).stale = o.stale
        /\ MatchEcho(o, k).superseded = o.superseded
        /\ MatchEcho(o, k).casts = casts
        /\ MatchEcho(o, k).pendingRemoves = removes
        /\ MatchEcho(o, k).forgotten = forgot
    <3>1. forgot \in [Key -> Nat]
      BY DEF forgot
    <3> QED
      BY <2>2, <2>4, <2>5, <3>1 DEF Order, KeepsOrder
  <2> QED
    BY <1>4, <2>3, <2>6 DEF casts, removes, forgot, FirstAt, MatchOutcome
<1> QED
  BY <1>1, <1>2, <1>3, <1>4

\* The record of a cast, and the one LOCAL_CASTS_MAX then makes the order forget.
Recorded(o, k, remove) == Append(o.casts, [key |-> k, remove |-> remove])

GateRaised(o, k, remove) == IF remove THEN [o.pendingRemoves EXCEPT ![k] = @ + 1]
                                      ELSE o.pendingRemoves

\* A cast of ours: pending, unmarked, recorded; past the cap the oldest is forgotten.
CastOutcome(o, k, remove, n) ==
    LET all  == Recorded(o, k, remove)
        up   == GateRaised(o, k, remove)
        over == Len(all) > LocalCastsMax
    IN  /\ n \in Order
        /\ KeepsOrder(o, n)
        /\ n.pending = [o.pending EXCEPT ![k] = @ + 1]
        /\ n.stale = o.stale \ {k}
        /\ n.superseded = o.superseded \ {k}
        /\ n.casts = IF over THEN Tail(all) ELSE all
        /\ n.pendingRemoves =
             IF over /\ Head(all).remove THEN [up EXCEPT ![Head(all).key] = Less(@, 1)]
                                         ELSE up
        /\ n.forgotten =
             IF over THEN [o.forgotten EXCEPT ![Head(all).key] = @ + 1] ELSE o.forgotten

LEMMA OnLocalFields ==
    ASSUME NEW o \in Order, NEW k \in Key, NEW remove \in BOOLEAN
    PROVE  CastOutcome(o, k, remove, OnLocal(o, [key |-> k, remove |-> remove]))
<1> DEFINE all     == Recorded(o, k, remove)
           up      == GateRaised(o, k, remove)
           over    == Len(all) > LocalCastsMax
           pending == [o.pending EXCEPT ![k] = @ + 1]
           casts   == IF over THEN Tail(all) ELSE all
           removes == IF over /\ Head(all).remove THEN [up EXCEPT ![Head(all).key] = Less(@, 1)]
                                                  ELSE up
           forgot  == IF over THEN [o.forgotten EXCEPT ![Head(all).key] = @ + 1] ELSE o.forgotten
<1>1. all \in Seq(Cast) /\ all # << >>
  <2>1. o.casts \in Seq(Cast) /\ [key |-> k, remove |-> remove] \in Cast
    BY DEF Order, Cast
  <2> QED
    BY <2>1, AppendProperties DEF Recorded
<1>2. Head(all) \in Cast /\ Tail(all) \in Seq(Cast)
  BY <1>1, HeadTailProperties
<1>3. OnLocal(o, [key |-> k, remove |-> remove])
        = [o EXCEPT !.pending = pending, !.stale = @ \ {k}, !.superseded = @ \ {k},
                    !.casts = casts, !.pendingRemoves = removes, !.forgotten = forgot]
  <2> DEFINE stale  == o.stale \ {k}
             marked == o.superseded \ {k}
             c      == [key |-> k, remove |-> remove]
  <2>1. c.key = k /\ c.remove = remove
    OBVIOUS
  <2> HIDE DEF c
  <2> DEFINE rec    == Append(o.casts, [key |-> c.key, remove |-> c.remove])
             raised == IF c.remove THEN [o.pendingRemoves EXCEPT ![c.key] = @ + 1]
                                   ELSE o.pendingRemoves
             large  == Len(rec) > LocalCastsMax
             casts2 == IF large THEN Tail(rec) ELSE rec
             remov2 == IF large /\ Head(rec).remove
                       THEN [raised EXCEPT ![Head(rec).key] = Less(@, 1)] ELSE raised
             forgo2 == IF large THEN [o.forgotten EXCEPT ![Head(rec).key] = @ + 1]
                                ELSE o.forgotten
  <2>2. rec = all /\ raised = up
    BY <2>1 DEF Recorded, GateRaised
  <2>3. OnLocal(o, c) = [o EXCEPT !.pending[c.key] = @ + 1,
                                  !.stale          = @ \ {c.key},
                                  !.superseded     = @ \ {c.key},
                                  !.casts          = casts2,
                                  !.pendingRemoves = remov2,
                                  !.forgotten      = forgo2]
    BY DEF OnLocal
  <2> HIDE DEF rec, raised, all, up
  <2>4. casts2 = casts /\ remov2 = removes /\ forgo2 = forgot
    BY <2>2
  <2> HIDE DEF casts, removes, forgot, casts2, remov2, forgo2
  <2> QED
    BY <2>1, <2>3, <2>4 DEF c
<1> HIDE DEF all
<1>4. up \in [Key -> Nat]
  BY DEF GateRaised, Order
<1> HIDE DEF up, over
<1>5. pending \in [Key -> Nat] /\ casts \in Seq(Cast)
  BY <1>1, <1>2 DEF Order
<1>6. removes \in [Key -> Nat]
  BY <1>2, <1>4 DEF Cast, Less
<1>7. forgot \in [Key -> Nat]
  <2>1. o.forgotten \in [Key -> Nat] /\ Head(all).key \in Key
    BY <1>2 DEF Cast, Order
  <2> QED
    BY <2>1
<1> DEFINE stale == o.stale \ {k}
           marked == o.superseded \ {k}
<1>8. stale \in SUBSET Key /\ marked \in SUBSET Key
  BY DEF Order
<1>9. OnLocal(o, [key |-> k, remove |-> remove])
        = [o EXCEPT !.pending = pending, !.stale = stale, !.superseded = marked,
                    !.casts = casts, !.pendingRemoves = removes, !.forgotten = forgot]
  BY <1>3
<1> HIDE DEF pending, casts, removes, forgot, stale, marked
<1>10. LET n == OnLocal(o, [key |-> k, remove |-> remove])
       IN  /\ n \in Order
           /\ KeepsOrder(o, n)
           /\ n.pending = pending /\ n.casts = casts /\ n.pendingRemoves = removes
           /\ n.forgotten = forgot /\ n.stale = stale /\ n.superseded = marked
  BY <1>5, <1>6, <1>7, <1>8, <1>9 DEF Order, KeepsOrder
<1> QED
  BY <1>10 DEF pending, casts, removes, forgot, stale, marked, over, all, up, CastOutcome

\* A delivery: heard, then, if it is our echo, acked and matched; a peer's may mark
\* its key overwritten, if it is pending.
AcceptedOutcome(o, m, me, n) ==
    /\ n \in Order
    /\ KeepsOrder(Heard(o, m), n)
    /\ m.src = me => n = MatchEcho(Ack(Heard(o, m), m.key), m.key)
    /\ m.src # me => /\ n.pending = o.pending
                     /\ n.stale = o.stale
                     /\ n.pendingRemoves = o.pendingRemoves
                     /\ n.casts = o.casts
                     /\ n.forgotten = o.forgotten
                     /\ \/ n.superseded = o.superseded
                        \/ /\ o.pending[m.key] > 0
                           /\ n.superseded = o.superseded \cup {m.key}

LEMMA AcceptedFields ==
    ASSUME NEW o \in Order, NEW m, m.key \in Key, m.seq \in Nat \ {0}, NEW me
    PROVE  AcceptedOutcome(o, m, me, Accepted(o, m, me))
<1> DEFINE h == Heard(o, m)
           marked == h.superseded \cup {m.key}
<1>1. h \in Order /\ Keeps(o, h) /\ m.key \in Key
  BY HeardFields
<1> HIDE DEF h
<1>2. CASE m.src = me
  <2>1. Accepted(o, m, me) = MatchEcho(Ack(h, m.key), m.key)
    BY <1>2 DEF Accepted, OwnEcho, h
  <2>2. Ack(h, m.key) \in Order /\ KeepsOrder(h, Ack(h, m.key))
    BY <1>1, AckFields DEF AckOutcome
  <2> DEFINE a == Ack(h, m.key)
  <2> HIDE DEF a
  <2>3. MatchEcho(a, m.key) \in Order /\ KeepsOrder(a, MatchEcho(a, m.key))
    BY <1>1, <2>2, MatchEchoFields DEF a, MatchOutcome
  <2>4. KeepsOrder(h, MatchEcho(a, m.key))
    BY <2>2, <2>3 DEF KeepsOrder, a
  <2> QED
    BY <1>2, <2>1, <2>3, <2>4 DEF h, a, AcceptedOutcome
<1>3. CASE m.src # me /\ Accepted(o, m, me) = h
  BY <1>1, <1>3 DEF Keeps, KeepsOrder, h, AcceptedOutcome
<1>4. CASE m.src # me /\ o.pending[m.key] > 0
           /\ Accepted(o, m, me) = [h EXCEPT !.superseded = marked]
  <2>1. marked \in SUBSET Key
    BY <1>1 DEF Order
  <2>2. marked = o.superseded \cup {m.key}
    BY <1>1 DEF Keeps
  <2> HIDE DEF marked
  <2> QED
    BY <1>1, <1>4, <2>1, <2>2 DEF Order, Keeps, KeepsOrder, h, AcceptedOutcome
<1> QED
  BY <1>2, <1>3, <1>4 DEF Accepted, OwnEcho, h

\* The empty order, and what a reset leaves.
LEMMA NewOrderType ==
    /\ NewOrder \in Order
    /\ \A o \in Order : /\ Reset(o) \in Order
                        /\ Reset(o).seen = [k \in Key |-> 0]
                        /\ Reset(o).removed = [k \in Key |-> 0]
                        /\ Reset(o).pending = [k \in Key |-> 0]
                        /\ Reset(o).pendingRemoves = [k \in Key |-> 0]
                        /\ Reset(o).forgotten = [k \in Key |-> 0]
                        /\ Reset(o).casts = << >>
                        /\ Reset(o).stale = {} /\ Reset(o).superseded = {}
                        /\ Reset(o).rebase = TRUE
                        /\ Reset(o).lastSeq = o.lastSeq
<1>1. << >> \in Seq(Key) /\ << >> \in Seq(Cast)
  BY EmptySeq
<1> QED
  BY <1>1 DEF NewOrder, Reset, Order

-------------------------------------------------------------------------------
(* The re-creation gate: a key's count is its recorded removes.               *)

GateHolds(o) == \A k \in Key : o.pendingRemoves[k] = Cardinality(RemovesOf(o.casts, k))

\* One more cast on the record.
LEMMA RemovesAppended ==
    ASSUME NEW casts \in Seq(Cast), NEW c \in Cast, NEW k
    PROVE  /\ Cardinality(RemovesOf(casts, k)) \in Nat
           /\ Cardinality(RemovesOf(Append(casts, c), k))
                = IF c.key = k /\ c.remove THEN Cardinality(RemovesOf(casts, k)) + 1
                                           ELSE Cardinality(RemovesOf(casts, k))
<1> DEFINE all == Append(casts, c)
           n   == Len(casts)
           S   == RemovesOf(casts, k)
           T   == RemovesOf(all, k)
<1>1. /\ n \in Nat /\ Len(all) = n + 1 /\ all[n + 1] = c
      /\ \A i \in 1 .. n : all[i] = casts[i]
      /\ DOMAIN casts = 1 .. n /\ DOMAIN all = 1 .. n + 1
  BY LenProperties, AppendProperties
<1> HIDE DEF all, n
<1>2. S \in SUBSET (1 .. n) /\ T \in SUBSET (1 .. n + 1)
  BY <1>1 DEF RemovesOf
<1>3. \A i \in 1 .. n : i \in T <=> i \in S
  BY <1>1 DEF RemovesOf
<1>4. n + 1 \in T <=> c.key = k /\ c.remove
  BY <1>1 DEF RemovesOf
<1> HIDE DEF S, T
<1>5. /\ Cardinality(S) \in Nat
      /\ Cardinality(T) = IF n + 1 \in T THEN Cardinality(S) + 1 ELSE Cardinality(S)
  BY <1>1, <1>2, <1>3, AppendCount
<1> QED
  BY <1>4, <1>5 DEF S, T, all

\* The oldest cast off the record.
LEMMA RemovesTailed ==
    ASSUME NEW casts \in Seq(Cast), casts # << >>, NEW k
    PROVE  /\ Cardinality(RemovesOf(casts, k)) \in Nat
           /\ Cardinality(RemovesOf(Tail(casts), k)) \in Nat
           /\ Cardinality(RemovesOf(Tail(casts), k))
                = IF Head(casts).key = k /\ Head(casts).remove
                  THEN Cardinality(RemovesOf(casts, k)) - 1 ELSE Cardinality(RemovesOf(casts, k))
<1> DEFINE tail == Tail(casts)
           n    == Len(casts)
           S    == RemovesOf(casts, k)
           T    == RemovesOf(tail, k)
<1>1. tail \in Seq(Cast) /\ Len(tail) = n - 1 /\ \A i \in 1 .. n - 1 : tail[i] = casts[i + 1]
  BY HeadTailProperties
<1>2. n \in Nat \ {0} /\ Head(casts) = casts[1]
  BY EmptySeq
<1>3. DOMAIN casts = 1 .. n /\ DOMAIN tail = 1 .. n - 1
  BY <1>1, LenProperties
<1> HIDE DEF tail, n
<1>4. S \in SUBSET (1 .. n) /\ T \in SUBSET (1 .. n - 1)
  BY <1>3 DEF RemovesOf
<1>5. \A i \in 1 .. n - 1 : i \in T <=> i + 1 \in S
  BY <1>1, <1>2, <1>3 DEF RemovesOf
<1>6. 1 \in S <=> Head(casts).key = k /\ Head(casts).remove
  BY <1>2, <1>3 DEF RemovesOf
<1> HIDE DEF S, T
<1>7. /\ Cardinality(T) \in Nat /\ Cardinality(S) \in Nat
      /\ Cardinality(T) = IF 1 \in S THEN Cardinality(S) - 1 ELSE Cardinality(S)
  BY <1>2, <1>4, <1>5, TailCount
<1> QED
  BY <1>6, <1>7 DEF S, T, tail

\* The first `at` casts off the record: their removes are what ReleaseFirst draws down.
LEMMA RemovesDropped ==
    ASSUME NEW casts \in Seq(Cast), NEW at \in 1 .. Len(casts), NEW k
    PROVE  /\ RemovesAmong(casts, at, k) \in Nat
           /\ Cardinality(RemovesOf(SubSeq(casts, at + 1, Len(casts)), k)) \in Nat
           /\ Cardinality(RemovesOf(casts, k))
                = RemovesAmong(casts, at, k)
                  + Cardinality(RemovesOf(SubSeq(casts, at + 1, Len(casts)), k))
<1> DEFINE rest == SubSeq(casts, at + 1, Len(casts))
           n    == Len(casts)
           S    == RemovesOf(casts, k)
           T    == RemovesOf(rest, k)
           U    == {i \in 1 .. at : casts[i].key = k /\ casts[i].remove}
<1>1. n \in Nat /\ at \in 0 .. n /\ DOMAIN casts = 1 .. n
  BY LenProperties
<1>2. /\ rest \in Seq(Cast) /\ Len(rest) = n - at
      /\ \A i \in 1 .. n - at : rest[i] = casts[at + i]
  <2>1. /\ at + 1 \in Int /\ n \in Int
        /\ \A i \in at + 1 .. n : casts[i] \in Cast
    BY <1>1, ElementOfSeq
  <2>2. /\ rest \in Seq(Cast)
        /\ Len(rest) = IF at + 1 <= n THEN n - (at + 1) + 1 ELSE 0
        /\ \A i \in 1 .. n - (at + 1) + 1 : rest[i] = casts[at + 1 + i - 1]
    BY <2>1, SubSeqProperties
  <2> HIDE DEF rest, n, S, T, U
  <2>3. n - (at + 1) + 1 = n - at /\ \A i \in 1 .. n - at : at + 1 + i - 1 = at + i
    BY <1>1
  <2>4. Len(rest) = n - at
    BY <1>1, <2>2, <2>3
  <2> QED
    BY <2>2, <2>3, <2>4
<1>3. DOMAIN rest = 1 .. n - at
  BY <1>2, LenProperties
<1> HIDE DEF rest, n
<1>4. S \in SUBSET (1 .. n) /\ T \in SUBSET (1 .. n - at) /\ U \in SUBSET (1 .. at)
  BY <1>1, <1>3 DEF RemovesOf
<1>5. /\ \A i \in 1 .. n - at : i \in T <=> i + at \in S
      /\ \A i \in 1 .. at : i \in U <=> i \in S
  BY <1>1, <1>2, <1>3 DEF RemovesOf
<1> HIDE DEF S, T, U
<1>6. /\ Cardinality(S) \in Nat /\ Cardinality(U) \in Nat /\ Cardinality(T) \in Nat
      /\ Cardinality(S) = Cardinality(U) + Cardinality(T)
  <2>1. Splits(n, at, S, T, U)
    BY <1>1, <1>4, <1>5 DEF Splits
  <2> QED
    BY <2>1, DropCount
<1> QED
  BY <1>6 DEF S, T, U, rest, n, RemovesAmong

\* The record with one more cast.
LEMMA RecordedFields ==
    ASSUME NEW o \in Order, NEW k \in Key, NEW remove \in BOOLEAN
    PROVE  LET all == Recorded(o, k, remove)
               len == Len(o.casts)
           IN  /\ all \in Seq(Cast) /\ Len(all) = len + 1 /\ len \in Nat
               /\ all[len + 1] = [key |-> k, remove |-> remove]
               /\ \A i \in 1 .. len : all[i] = o.casts[i]
               /\ all # << >>
<1> DEFINE c == [key |-> k, remove |-> remove]
           casts == o.casts
<1>1. casts \in Seq(Cast) /\ c \in Cast
  BY DEF Order, Cast
<1>2. Recorded(o, k, remove) = Append(casts, c)
  BY DEF Recorded
<1> HIDE DEF c, casts
<1>3. /\ Append(casts, c) \in Seq(Cast)
      /\ Len(Append(casts, c)) = Len(casts) + 1
      /\ \A i \in 1 .. Len(casts) : Append(casts, c)[i] = casts[i]
      /\ Append(casts, c)[Len(casts) + 1] = c
      /\ Append(casts, c) # << >>
  BY <1>1, AppendProperties
<1>4. Len(casts) \in Nat
  BY <1>1, LenProperties
<1> QED
  BY <1>2, <1>3, <1>4 DEF c, casts

\* A cast raises its key's gate with the record, and the one the cap forgets lowers it.
LEMMA OnLocalGate ==
    ASSUME NEW o \in Order, GateHolds(o), NEW k \in Key, NEW remove \in BOOLEAN
    PROVE  GateHolds(OnLocal(o, [key |-> k, remove |-> remove]))
<1> DEFINE n    == OnLocal(o, [key |-> k, remove |-> remove])
           c    == [key |-> k, remove |-> remove]
           all  == Recorded(o, k, remove)
           up   == GateRaised(o, k, remove)
           over == Len(all) > LocalCastsMax
<1>1. /\ n.casts = IF over THEN Tail(all) ELSE all
      /\ n.pendingRemoves =
           IF over /\ Head(all).remove THEN [up EXCEPT ![Head(all).key] = Less(@, 1)] ELSE up
  <2>1. CastOutcome(o, k, remove, n)
    BY OnLocalFields
  <2> QED
    BY <2>1 DEF CastOutcome
<1>2. o.casts \in Seq(Cast) /\ c \in Cast /\ o.pendingRemoves \in [Key -> Nat]
  BY DEF Order, Cast
<1>3. all \in Seq(Cast) /\ all # << >> /\ Head(all) \in Cast
  <2>1. all \in Seq(Cast) /\ all # << >>
    BY <1>2, AppendProperties DEF Recorded
  <2> QED
    BY <2>1, HeadTailProperties
<1>4. ASSUME NEW j \in Key PROVE up[j] = Cardinality(RemovesOf(all, j)) /\ up[j] \in Nat
  <2>1. /\ Cardinality(RemovesOf(o.casts, j)) \in Nat
        /\ Cardinality(RemovesOf(all, j))
             = IF c.key = j /\ c.remove THEN Cardinality(RemovesOf(o.casts, j)) + 1
                                        ELSE Cardinality(RemovesOf(o.casts, j))
    BY <1>2, RemovesAppended DEF Recorded
  <2>2. up[j] = IF k = j /\ remove THEN o.pendingRemoves[j] + 1 ELSE o.pendingRemoves[j]
    BY <1>2 DEF GateRaised
  <2>3. o.pendingRemoves[j] = Cardinality(RemovesOf(o.casts, j))
    BY DEF GateHolds
  <2> QED
    BY <2>1, <2>2, <2>3
<1>5. DOMAIN up = Key /\ Head(all).key \in Key /\ Head(all).remove \in BOOLEAN
  BY <1>2, <1>3 DEF GateRaised, Cast
<1> HIDE DEF n, c, all, up, over
<1>6. ASSUME NEW j \in Key PROVE n.pendingRemoves[j] = Cardinality(RemovesOf(n.casts, j))
  <2>1. /\ Cardinality(RemovesOf(all, j)) \in Nat
        /\ Cardinality(RemovesOf(Tail(all), j)) \in Nat
        /\ Cardinality(RemovesOf(Tail(all), j))
             = IF Head(all).key = j /\ Head(all).remove
               THEN Cardinality(RemovesOf(all, j)) - 1 ELSE Cardinality(RemovesOf(all, j))
    BY <1>3, RemovesTailed
  <2>2. n.pendingRemoves[j] = IF over /\ Head(all).remove /\ Head(all).key = j
                              THEN Less(up[j], 1) ELSE up[j]
    BY <1>1, <1>5
  <2>3. up[j] = Cardinality(RemovesOf(all, j))
    BY <1>4
  <2> QED
    BY <1>1, <2>1, <2>2, <2>3 DEF Less
<1> QED
  BY <1>6 DEF GateHolds, n

\* An echo opens the gates of exactly the casts it takes off the record.
LEMMA MatchEchoGate ==
    ASSUME NEW o \in Order, GateHolds(o), NEW k \in Key
    PROVE  GateHolds(MatchEcho(o, k))
<1> DEFINE n == MatchEcho(o, k)
<1>1. CASE n.casts = o.casts /\ n.pendingRemoves = o.pendingRemoves
  BY <1>1 DEF GateHolds
<1>2. ASSUME NEW at \in 1 .. Len(o.casts),
             n.casts = SubSeq(o.casts, at + 1, Len(o.casts)),
             n.pendingRemoves = ReleaseFirst(o, at)
      PROVE  GateHolds(n)
  <2> HIDE DEF n
  <2>1. ASSUME NEW j \in Key PROVE n.pendingRemoves[j] = Cardinality(RemovesOf(n.casts, j))
    <3>1. o.casts \in Seq(Cast)
      BY DEF Order
    <3>2. /\ RemovesAmong(o.casts, at, j) \in Nat
          /\ Cardinality(RemovesOf(n.casts, j)) \in Nat
          /\ Cardinality(RemovesOf(o.casts, j))
               = RemovesAmong(o.casts, at, j) + Cardinality(RemovesOf(n.casts, j))
      BY <1>2, <3>1, RemovesDropped
    <3>3. n.pendingRemoves[j] = Less(o.pendingRemoves[j], RemovesAmong(o.casts, at, j))
      BY <1>2 DEF ReleaseFirst
    <3>4. o.pendingRemoves[j] = Cardinality(RemovesOf(o.casts, j))
      BY DEF GateHolds
    <3> QED
      BY <3>2, <3>3, <3>4 DEF Less
  <2> QED
    BY <2>1 DEF GateHolds
<1> HIDE DEF n
<1>3. \/ n.casts = o.casts /\ n.pendingRemoves = o.pendingRemoves
      \/ \E at \in 1 .. Len(o.casts) : /\ n.casts = SubSeq(o.casts, at + 1, Len(o.casts))
                                       /\ n.pendingRemoves = ReleaseFirst(o, at)
  <2>1. MatchOutcome(o, k, n)
    BY MatchEchoFields DEF n
  <2> QED
    BY <2>1 DEF MatchOutcome
<1> QED
  BY <1>1, <1>2, <1>3 DEF n

-------------------------------------------------------------------------------
(* Tombstones.                                                                 *)

\* An order that has noted each key once, and has room for all, never evicts.
LEMMA OncePerKey ==
    ASSUME NEW noted \in Seq(Key), IsInjective(noted)
    PROVE  Len(noted) <= Cardinality(Key)
<1>1. Len(noted) \in Nat /\ DOMAIN noted = 1 .. Len(noted) /\ \A i \in 1 .. Len(noted) : noted[i] \in Key
  BY LenProperties, ElementOfSeq
<1>2. IsFiniteSet(1 .. Len(noted)) /\ Cardinality(1 .. Len(noted)) = Len(noted)
  <2> DEFINE n == Len(noted)
  <2> HIDE DEF n
  <2>1. n \in Int /\ 1 \in Int /\ n >= 0
    BY <1>1 DEF n
  <2>2. IsFiniteSet(1 .. n) /\ Cardinality(1 .. n) = IF 1 > n THEN 0 ELSE n - 1 + 1
    BY <2>1, FS_Interval
  <2>3. Cardinality(1 .. n) = n
    BY <2>1, <2>2
  <2> QED
    BY <2>2, <2>3 DEF n
<1> DEFINE f == [i \in 1 .. Len(noted) |-> noted[i]]
<1>3. f \in Injection(1 .. Len(noted), Key)
  BY <1>1 DEF IsInjective, Injection
<1> QED
  BY <1>2, <1>3, KeyAssumption, FS_Injection DEF ExistsInjection

LEMMA WithoutKey ==
    ASSUME NEW k, NEW noted \in Seq(Key), IsInjective(noted)
    PROVE  /\ Without(noted, k) \in Seq(Key) /\ IsInjective(Without(noted, k))
           /\ k \notin ToSet(Without(noted, k))
           /\ \A j \in DOMAIN Without(noted, k) : Without(noted, k)[j] # k
<1> DEFINE at == CHOOSE i \in DOMAIN noted : noted[i] = k
           w  == Without(noted, k)
<1>0. Len(noted) \in Nat /\ DOMAIN noted = 1 .. Len(noted)
  BY LenProperties
<1>1. CASE \E i \in DOMAIN noted : noted[i] = k
  <2>1. at \in 1 .. Len(noted) /\ noted[at] = k
    BY <1>0, <1>1
  <2> HIDE DEF at
  <2> DEFINE a == SubSeq(noted, 1, at - 1)
             b == SubSeq(noted, at + 1, Len(noted))
  <2>2. w = a \o b
    BY <1>1 DEF Without, at
  <2>3. at - 1 \in 0 .. Len(noted) /\ at \in 0 .. Len(noted)
    BY <1>0, <2>1
  <2>4. /\ a \in Seq(Key) /\ DOMAIN a = 1 .. at - 1 /\ \A i \in 1 .. at - 1 : a[i] = noted[i]
        /\ InOrder(a, noted)
    BY <2>3, TakeList
  <2>5. /\ b \in Seq(Key) /\ DOMAIN b = 1 .. Len(noted) - at
        /\ \A i \in 1 .. Len(noted) - at : b[i] = noted[at + i]
        /\ InOrder(b, noted)
    BY <2>3, RestList
  <2>6. IsInjective(a) /\ IsInjective(b)
    BY <2>4, <2>5, InOrderIsSub
  <2> HIDE DEF a, b
  <2>7. ToSet(a) \cap ToSet(b) = {} /\ k \notin ToSet(a) /\ k \notin ToSet(b)
    <3>1. ASSUME NEW i \in DOMAIN a, NEW j \in DOMAIN b, a[i] = b[j] PROVE FALSE
      <4>1. i \in 1 .. Len(noted) /\ at + j \in 1 .. Len(noted) /\ i # at + j
        BY <1>0, <2>1, <2>4, <2>5
      <4> QED
        BY <1>0, <2>4, <2>5, <3>1, <4>1 DEF IsInjective
    <3>2. ASSUME NEW i \in DOMAIN a, a[i] = k PROVE FALSE
      <4>1. i \in 1 .. Len(noted) /\ i # at
        BY <1>0, <2>1, <2>4
      <4> QED
        BY <1>0, <2>1, <2>4, <3>2, <4>1 DEF IsInjective
    <3>3. ASSUME NEW i \in DOMAIN b, b[i] = k PROVE FALSE
      <4>1. at + i \in 1 .. Len(noted) /\ at + i # at
        BY <1>0, <2>1, <2>5
      <4> QED
        BY <1>0, <2>1, <2>5, <3>3, <4>1 DEF IsInjective
    <3> QED
      BY <3>1, <3>2, <3>3 DEF ToSet
  <2>8. /\ w \in Seq(Key) /\ ToSet(w) = ToSet(a) \cup ToSet(b) /\ IsInjective(w)
    BY <2>2, <2>4, <2>5, <2>6, <2>7, BothLists
  <2> QED
    BY <2>7, <2>8 DEF ToSet
<1>2. CASE ~\E i \in DOMAIN noted : noted[i] = k
  <2>1. w = noted
    BY <1>2 DEF Without
  <2> QED
    BY <1>2, <2>1 DEF ToSet
<1> QED
  BY <1>1, <1>2

\* The tombstones after a delivery that is above everything seen for its key, where none
\* is ever evicted: the verdict's.
Buried(o, m) == IF m.remove THEN [o.removed EXCEPT ![m.key] = m.seq]
                ELSE IF m.seen < o.removed[m.key] THEN o.removed
                ELSE [o.removed EXCEPT ![m.key] = 0]

LEMMA HeardTombs ==
    ASSUME Cardinality(Key) <= RemovedMax,
           NEW o \in Order, IsInjective(o.noted),
           NEW m, m.key \in Key, m.seq \in Nat \ {0}, m.seen \in Nat, m.seq > o.seen[m.key]
    PROVE  IsInjective(Heard(o, m).noted) /\ Heard(o, m).removed = Buried(o, m)
<1> DEFINE judged == IF ~Current(o, m)                 THEN o
                     ELSE IF m.remove                  THEN NoteRemoved(o, m.key, m.seq)
                     ELSE IF ~SupersededByRemove(o, m) THEN Revived(o, m.key)
                     ELSE o
           k == m.key
           w == Without(o.noted, k)
           all == Append(w, k)
<1>1. Heard(o, m).noted = judged.noted /\ Heard(o, m).removed = judged.removed
  BY DEF Heard
<1>2. /\ o.noted \in Seq(Key) /\ o.removed \in [Key -> Nat] /\ o.seen \in [Key -> Nat]
      /\ Cardinality(Key) \in Nat
  BY KeyAssumption, FS_CardinalityType DEF Order
<1>3. /\ w \in Seq(Key) /\ IsInjective(w) /\ k \notin ToSet(w)
  BY <1>2, WithoutKey
<1> HIDE DEF w
<1>4. all \in Seq(Key) /\ IsInjective(all) /\ Len(all) <= Cardinality(Key) /\ Len(all) \in Nat
  <2>1. all \in Seq(Key) /\ IsInjective(all)
    BY <1>3, AppendList
  <2> HIDE DEF all
  <2> QED
    BY <2>1, OncePerKey, LenProperties
<1>5. Current(o, m) /\ Unstamped \notin Nat
  BY <1>2 DEF Current, Unstamped
<1>6. SupersededByRemove(o, m) <=> ~m.remove /\ m.seen < o.removed[k]
  BY <1>2, <1>5 DEF SupersededByRemove
<1>7. CASE m.remove
  <2>1. judged = NoteRemoved(o, k, m.seq)
    BY <1>5, <1>7
  <2> DEFINE over == Len(all) > RemovedMax
             dead == [o.removed EXCEPT ![k] = m.seq]
  <2>2. NoteRemoved(o, k, m.seq)
          = [o EXCEPT !.noted   = IF over THEN Tail(all) ELSE all,
                      !.removed = IF over THEN [dead EXCEPT ![Head(all)] = 0] ELSE dead]
    BY DEF NoteRemoved, w
  <2>3. ~over
    BY <1>2, <1>4, CapAssumption
  <2> HIDE DEF all, dead
  <2>4. judged.noted = all /\ judged.removed = dead
    BY <2>1, <2>2, <2>3 DEF Order
  <2> QED
    BY <1>1, <1>4, <1>7, <2>4 DEF dead, Buried
<1>8. CASE ~m.remove /\ m.seen < o.removed[k]
  <2>1. judged = o
    BY <1>5, <1>6, <1>8
  <2> QED
    BY <1>1, <1>8, <2>1 DEF Buried
<1>9. CASE ~m.remove /\ ~(m.seen < o.removed[k])
  <2>1. judged = Revived(o, k)
    BY <1>5, <1>6, <1>9
  <2>2. Revived(o, k).noted = w /\ Revived(o, k).removed = [o.removed EXCEPT ![k] = 0]
    BY DEF Revived, Order, w
  <2> QED
    BY <1>1, <1>3, <1>9, <2>1, <2>2 DEF Buried
<1> QED
  BY <1>7, <1>8, <1>9
===============================================================================
