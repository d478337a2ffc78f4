--------------------------- MODULE CanvasSyncProofs ---------------------------
(* Canvas sync, for any clients, keys, values and number of casts: what a client's pending
   counts say of the bus, what is owed and never forgotten, and that the canvases are a
   replica of the log.                                                         *)
EXTENDS CanvasSync, CanvasOrderLemmas

-------------------------------------------------------------------------------
(* What a publisher sends.                                                     *)

PublisherRec == [base     : Scene,
                 owed     : SUBSET Key,
                 throttle : {"idle", "armed", "frame"},
                 order    : Order,
                 up       : Seq(Mutation)]

\* The mutation that castFor makes of a key.
CastOf(c, scene, o, k) == [key |-> k, val |-> scene[k], remove |-> scene[k] = Absent,
                           src |-> c, seen |-> StampSeen(o), seq |-> 0]

\* ... read field by field.
LEMMA CastOfFields ==
    ASSUME NEW c, NEW scene, NEW o, NEW k
    PROVE  LET m == CastOf(c, scene, o, k)
           IN  /\ m.key = k /\ m.val = scene[k] /\ (m.remove <=> scene[k] = Absent)
               /\ m.src = c /\ m.seen = o.lastSeq
  BY DEF CastOf, StampSeen

\* The record of casts has dropped none, as long as no more than LocalCastsMax are out.
Unforgotten(o) == \A k \in Key : o.forgotten[k] = 0

\* u and o are the bus and the order of the publisher p after casting the first i keys of a batch.
CastsUpTo(c, scene, p, o, u, batch, i) ==
    /\ KeepsOrder(p.order, o)
    /\ Len(u) = Len(p.up) + i
    /\ \A j \in 1 .. Len(p.up) : u[j] = p.up[j]
    /\ \A j \in 1 .. i : u[Len(p.up) + j] = CastOf(c, scene, p.order, batch[j])
    /\ \A k \in Key : o.pending[k] = p.order.pending[k] + (IF \E j \in 1 .. i : batch[j] = k
                                                                 THEN 1 ELSE 0)
    /\ \A k \in Key : k \in o.superseded <=> /\ k \in p.order.superseded
                                                   /\ \A j \in 1 .. i : batch[j] # k
    /\ GateHolds(p.order) => GateHolds(o)
    /\ Unforgotten(o) =>
           /\ Unforgotten(p.order)
           /\ Len(o.casts) = Len(p.order.casts) + i
           /\ \A j \in 1 .. Len(p.order.casts) : o.casts[j] = p.order.casts[j]
           /\ \A j \in 1 .. i : o.casts[Len(p.order.casts) + j]
                                  = [key |-> batch[j], remove |-> scene[batch[j]] = Absent]
    /\ Unforgotten(p.order) /\ Len(p.order.casts) + i <= LocalCastsMax => Unforgotten(o)

\* e is the publisher p after it has.
SentUpTo(c, scene, p, e, batch, i) ==
    /\ e \in PublisherRec
    /\ e.base = p.base /\ e.owed = p.owed /\ e.throttle = p.throttle
    /\ CastsUpTo(c, scene, p, e.order, e.up, batch, i)

\* The types of what a publisher holds.
LEMMA PublisherFields ==
    ASSUME NEW p \in PublisherRec
    PROVE  /\ p.base \in Scene /\ p.owed \in SUBSET Key
           /\ p.throttle \in {"idle", "armed", "frame"}
           /\ p.order \in Order /\ p.up \in Seq(Mutation)
           /\ Len(p.up) \in Nat /\ DOMAIN p.up = 1 .. Len(p.up)
           /\ p.order.casts \in Seq(Cast) /\ Len(p.order.casts) \in Nat
           /\ DOMAIN p.order.casts = 1 .. Len(p.order.casts)
           /\ p.order.pending \in [Key -> Nat] /\ p.order.superseded \in SUBSET Key
           /\ p.order.forgotten \in [Key -> Nat] /\ p.order.lastSeq \in Nat
<1>1. p.up \in Seq(Mutation) /\ p.order \in Order
  BY DEF PublisherRec
<1>2. p.order.casts \in Seq(Cast)
  BY <1>1 DEF Order
<1> QED
  BY <1>1, <1>2, LenProperties DEF PublisherRec, Order

\* onLocal reads the key of a cast, and whether it is a remove.
LEMMA OnLocalReads ==
    ASSUME NEW o, NEW m, NEW n, m.key = n.key, m.remove = n.remove
    PROVE  OnLocal(o, m) = OnLocal(o, n)
  BY DEF OnLocal

\* One cast adds to what is on the bus, pending and recorded.
LEMMA CastForIs ==
    ASSUME NEW c \in Client, NEW scene \in Scene, NEW p \in PublisherRec, NEW k \in Key
    PROVE  LET e == CastFor(c, scene, p, k)
               m == CastOf(c, scene, p.order, k)
           IN  /\ m \in Mutation
               /\ e \in PublisherRec
               /\ e.base = p.base /\ e.owed = p.owed /\ e.throttle = p.throttle
               /\ e.up = Append(p.up, m)
               /\ CastOutcome(p.order, k, scene[k] = Absent, e.order)
               /\ GateHolds(p.order) => GateHolds(e.order)
<1> DEFINE m == CastOf(c, scene, p.order, k)
           e == CastFor(c, scene, p, k)
           o == OnLocal(p.order, m)
           r == scene[k] = Absent
<1>1. p.order \in Order /\ p.order.lastSeq \in Nat /\ p.up \in Seq(Mutation)
  BY PublisherFields
<1>2. r \in BOOLEAN /\ scene[k] \in Val \cup {Absent}
  BY DEF Scene
<1>3. m \in Mutation /\ m.key = k /\ m.remove = r
  BY <1>1, <1>2 DEF CastOf, Mutation, StampSeen
<1> HIDE DEF m, r
<1>4. o = OnLocal(p.order, [key |-> k, remove |-> r])
  BY <1>3, OnLocalReads
<1>5. CastOutcome(p.order, k, r, o) /\ (GateHolds(p.order) => GateHolds(o))
  BY <1>1, <1>2, <1>4, OnLocalFields, OnLocalGate
<1>6. o \in Order
  BY <1>5 DEF CastOutcome
<1>7. e = [p EXCEPT !.order = o, !.up = Append(@, m)]
  BY DEF CastFor, CastOf, m, o
<1>8. Append(p.up, m) \in Seq(Mutation)
  BY <1>1, <1>3, AppendProperties
<1> HIDE DEF o, e
<1>9. /\ e \in PublisherRec /\ e.order = o /\ e.up = Append(p.up, m)
      /\ e.base = p.base /\ e.owed = p.owed /\ e.throttle = p.throttle
  BY <1>6, <1>7, <1>8 DEF PublisherRec
<1> QED
  BY <1>3, <1>5, <1>9 DEF m, e, r

\* ... and where nothing is forgotten the record is one longer.
RecordedOutcome(o, k, r, n) ==
    /\ n.superseded = o.superseded \ {k}
    /\ n.pending = [o.pending EXCEPT ![k] = @ + 1]
    /\ KeepsOrder(o, n)
    /\ Unforgotten(n) => /\ Unforgotten(o)
                         /\ n.casts = Append(o.casts, [key |-> k, remove |-> r])
    /\ Unforgotten(o) /\ Len(o.casts) < LocalCastsMax => Unforgotten(n)

LEMMA RecordedCast ==
    ASSUME NEW o \in Order, NEW k \in Key, NEW r \in BOOLEAN, NEW n, CastOutcome(o, k, r, n)
    PROVE  RecordedOutcome(o, k, r, n)
<1> DEFINE all  == Recorded(o, k, r)
           over == Len(all) > LocalCastsMax
<1>1. /\ n.superseded = o.superseded \ {k}
      /\ n.pending = [o.pending EXCEPT ![k] = @ + 1]
      /\ KeepsOrder(o, n)
      /\ n.casts = IF over THEN Tail(all) ELSE all
      /\ n.forgotten = IF over THEN [o.forgotten EXCEPT ![Head(all).key] = @ + 1] ELSE o.forgotten
  BY DEF CastOutcome
<1>2. ASSUME Unforgotten(n), over PROVE FALSE
  <2>1. all \in Seq(Cast) /\ all # << >>
    BY RecordedFields
  <2>2. Head(all).key \in Key
    <3> HIDE DEF all
    <3>1. Head(all) \in Cast
      BY <2>1, HeadTailProperties
    <3> QED
      BY <3>1 DEF Cast
  <2>3. o.forgotten[Head(all).key] \in Nat
    BY <2>2 DEF Order
  <2>4. n.forgotten[Head(all).key] = o.forgotten[Head(all).key] + 1
    <3> HIDE DEF all
    <3> QED
      BY <1>1, <1>2, <2>2 DEF Order
  <2> QED
    BY <1>2, <2>2, <2>3, <2>4 DEF Unforgotten
<1>3. ASSUME Unforgotten(n) PROVE Unforgotten(o) /\ n.casts = all
  BY <1>1, <1>2, <1>3 DEF Unforgotten
<1>4. ASSUME Unforgotten(o), Len(o.casts) < LocalCastsMax PROVE Unforgotten(n)
  <2>1. Len(all) = Len(o.casts) + 1 /\ Len(o.casts) \in Nat /\ LocalCastsMax \in Nat
    BY RecordedFields, CapAssumption
  <2> HIDE DEF all
  <2> QED
    BY <1>1, <1>4, <2>1 DEF Unforgotten
<1> QED
  BY <1>1, <1>3, <1>4 DEF Recorded, RecordedOutcome

\* One more of the batch.
LEMMA SentOneMore ==
    ASSUME NEW c \in Client, NEW scene \in Scene, NEW p \in PublisherRec,
           NEW batch \in Seq(Key), IsInjective(batch), NEW i \in 1 .. Len(batch),
           NEW e, SentUpTo(c, scene, p, e, batch, i - 1)
    PROVE  SentUpTo(c, scene, p, CastFor(c, scene, e, batch[i]), batch, i)
<1> DEFINE k == batch[i]
           n == CastFor(c, scene, e, k)
           m == CastOf(c, scene, e.order, k)
           r == scene[k] = Absent
           lu == Len(p.up)
           lc == Len(p.order.casts)
<1>1. /\ i \in Nat /\ i - 1 \in Nat /\ (i - 1) + 1 = i /\ k \in Key /\ r \in BOOLEAN
      /\ DOMAIN batch = 1 .. Len(batch) /\ Len(batch) \in Nat
  BY LenProperties, ElementOfSeq
<1>2. \A j \in 1 .. i - 1 : batch[j] # k
  <2>1. ASSUME NEW j \in 1 .. i - 1, batch[j] = k PROVE FALSE
    <3>1. j \in DOMAIN batch /\ i \in DOMAIN batch /\ j # i
      BY <1>1
    <3> QED
      BY <2>1, <3>1 DEF IsInjective
  <2> QED
    BY <2>1
<1> HIDE DEF k, n, m, r
<1>3. /\ e \in PublisherRec
      /\ e.base = p.base /\ e.owed = p.owed /\ e.throttle = p.throttle
      /\ KeepsOrder(p.order, e.order)
      /\ Len(e.up) = lu + (i - 1)
      /\ \A j \in 1 .. lu : e.up[j] = p.up[j]
      /\ \A j \in 1 .. i - 1 : e.up[lu + j] = CastOf(c, scene, p.order, batch[j])
      /\ \A x \in Key : e.order.pending[x] = p.order.pending[x] + (IF \E j \in 1 .. i - 1 : batch[j] = x
                                                                   THEN 1 ELSE 0)
      /\ \A x \in Key : x \in e.order.superseded <=> /\ x \in p.order.superseded
                                                     /\ \A j \in 1 .. i - 1 : batch[j] # x
      /\ GateHolds(p.order) => GateHolds(e.order)
  BY DEF SentUpTo, CastsUpTo
<1>4. Unforgotten(e.order) =>
           /\ Unforgotten(p.order)
           /\ Len(e.order.casts) = lc + (i - 1)
           /\ \A j \in 1 .. lc : e.order.casts[j] = p.order.casts[j]
           /\ \A j \in 1 .. i - 1 : e.order.casts[lc + j]
                                  = [key |-> batch[j], remove |-> scene[batch[j]] = Absent]
  BY DEF SentUpTo, CastsUpTo
<1>5. /\ e.order \in Order /\ e.up \in Seq(Mutation) /\ lu \in Nat /\ lc \in Nat
      /\ e.order.pending \in [Key -> Nat] /\ p.order.pending \in [Key -> Nat]
      /\ e.order.casts \in Seq(Cast) /\ Len(e.order.casts) \in Nat
      /\ Len(e.up) \in Nat
  BY <1>3, PublisherFields
<1> HIDE DEF lu, lc
<1>6. /\ m \in Mutation
      /\ n \in PublisherRec
      /\ n.base = e.base /\ n.owed = e.owed /\ n.throttle = e.throttle
      /\ n.up = Append(e.up, m)
      /\ CastOutcome(e.order, k, r, n.order)
      /\ GateHolds(e.order) => GateHolds(n.order)
  BY <1>1, <1>3, CastForIs DEF k, n, m, r
<1>c. CastOutcome(e.order, k, r, n.order)
  BY <1>6
<1>o. k \in Key /\ r \in BOOLEAN /\ e.order \in Order
  BY <1>1, <1>5
<1>7. /\ n.order.superseded = e.order.superseded \ {k}
      /\ n.order.pending = [e.order.pending EXCEPT ![k] = @ + 1]
      /\ KeepsOrder(e.order, n.order)
      /\ Unforgotten(n.order) => /\ Unforgotten(e.order)
                                 /\ n.order.casts = Append(e.order.casts, [key |-> k, remove |-> r])
      /\ Unforgotten(e.order) /\ Len(e.order.casts) < LocalCastsMax => Unforgotten(n.order)
  <2>1. RecordedOutcome(e.order, k, r, n.order)
    BY <1>c, <1>o, RecordedCast
  <2> QED
    BY <2>1 DEF RecordedOutcome
<1>8. m = CastOf(c, scene, p.order, k)
  BY <1>3 DEF m, CastOf, StampSeen, KeepsOrder
<1>9. KeepsOrder(p.order, n.order)
  BY <1>3, <1>7 DEF KeepsOrder
<1>10. /\ Len(n.up) = lu + i
       /\ \A j \in 1 .. lu : n.up[j] = p.up[j]
       /\ \A j \in 1 .. i : n.up[lu + j] = CastOf(c, scene, p.order, batch[j])
  <2>1. /\ Len(n.up) = Len(e.up) + 1 /\ n.up[Len(e.up) + 1] = m
        /\ \A j \in 1 .. Len(e.up) : n.up[j] = e.up[j]
    <3>1. e.up \in Seq(Mutation) /\ m \in Mutation /\ n.up = Append(e.up, m)
      BY <1>5, <1>6
    <3> QED
      BY <3>1, AppendProperties
  <2>2. Len(e.up) + 1 = lu + i
    BY <1>1, <1>3, <1>5
  <2>3. ASSUME NEW j \in 1 .. i PROVE n.up[lu + j] = CastOf(c, scene, p.order, batch[j])
    <3>1. CASE j = i
      BY <1>8, <2>1, <2>2, <3>1 DEF k
    <3>2. CASE j # i
      <4>1. j \in 1 .. i - 1 /\ lu + j \in 1 .. Len(e.up)
        BY <1>1, <1>3, <1>5, <3>2
      <4> QED
        BY <1>3, <2>1, <4>1
    <3> QED
      BY <3>1, <3>2
  <2>4. ASSUME NEW j \in 1 .. lu PROVE n.up[j] = p.up[j]
    <3>1. j \in 1 .. Len(e.up)
      BY <1>1, <1>3, <1>5
    <3> QED
      BY <1>3, <2>1, <3>1
  <2> QED
    BY <2>1, <2>2, <2>3, <2>4
<1>11. ASSUME NEW x \in Key
       PROVE  /\ n.order.pending[x] = p.order.pending[x] + (IF \E j \in 1 .. i : batch[j] = x THEN 1 ELSE 0)
              /\ x \in n.order.superseded <=> /\ x \in p.order.superseded
                                              /\ \A j \in 1 .. i : batch[j] # x
  <2>1. i \in 1 .. i /\ \A j \in 1 .. i : j \in 1 .. i - 1 \/ j = i
    BY <1>1
  <2>2. 1 .. i - 1 \subseteq 1 .. i
    BY <1>1
  <2>3. CASE x = k
    <3>1. (\E j \in 1 .. i : batch[j] = x) /\ ~\E j \in 1 .. i - 1 : batch[j] = x
      BY <1>2, <2>1, <2>3 DEF k
    <3>2. ~\A j \in 1 .. i : batch[j] # x
      BY <3>1
    <3>3. n.order.pending[x] = e.order.pending[x] + 1 /\ x \notin n.order.superseded
      BY <1>5, <1>7, <2>3
    <3>4. e.order.pending[x] = p.order.pending[x] + 0
      BY <1>3, <3>1
    <3>5. p.order.pending[x] \in Nat
      BY <1>5
    <3> QED
      BY <3>1, <3>2, <3>3, <3>4, <3>5
  <2>4. CASE x # k
    <3>1. (\E j \in 1 .. i : batch[j] = x) <=> \E j \in 1 .. i - 1 : batch[j] = x
      BY <2>1, <2>2, <2>4 DEF k
    <3> QED
      BY <1>3, <1>5, <1>7, <2>4, <3>1
  <2> QED
    BY <2>3, <2>4
<1>12. ASSUME Unforgotten(n.order)
       PROVE  /\ Unforgotten(p.order)
              /\ Len(n.order.casts) = lc + i
              /\ \A j \in 1 .. lc : n.order.casts[j] = p.order.casts[j]
              /\ \A j \in 1 .. i : n.order.casts[lc + j]
                                  = [key |-> batch[j], remove |-> scene[batch[j]] = Absent]
  <2> DEFINE rec == [key |-> k, remove |-> r]
             from == e.order.casts
             to   == n.order.casts
  <2>0. rec \in Cast /\ rec = [key |-> batch[i], remove |-> scene[batch[i]] = Absent]
    BY <1>1 DEF Cast, k, r
  <2>1. to = Append(from, rec) /\ from \in Seq(Cast)
    BY <1>5, <1>7, <1>12
  <2> HIDE DEF rec, from, to
  <2>2. /\ Len(to) = Len(from) + 1 /\ to[Len(from) + 1] = rec
        /\ \A j \in 1 .. Len(from) : to[j] = from[j]
    BY <2>0, <2>1, AppendProperties
  <2>3. /\ Unforgotten(p.order)
        /\ Len(from) = lc + (i - 1)
        /\ \A j \in 1 .. lc : from[j] = p.order.casts[j]
        /\ \A j \in 1 .. i - 1 : from[lc + j]
                                  = [key |-> batch[j], remove |-> scene[batch[j]] = Absent]
    BY <1>4, <1>7, <1>12 DEF from
  <2>4. Len(from) + 1 = lc + i
    BY <1>1, <1>5, <2>3
  <2>5. ASSUME NEW j \in 1 .. i
        PROVE  to[lc + j] = [key |-> batch[j], remove |-> scene[batch[j]] = Absent]
    <3>1. CASE j = i
      BY <2>0, <2>2, <2>4, <3>1
    <3>2. CASE j # i
      <4>1. j \in 1 .. i - 1 /\ lc + j \in 1 .. Len(from)
        BY <1>1, <1>5, <2>3, <3>2
      <4> QED
        BY <2>2, <2>3, <4>1
    <3> QED
      BY <3>1, <3>2
  <2>6. ASSUME NEW j \in 1 .. lc PROVE to[j] = p.order.casts[j]
    <3>1. j \in 1 .. Len(from)
      BY <1>1, <1>5, <2>3
    <3> QED
      BY <2>2, <2>3, <3>1
  <2> QED
    BY <2>2, <2>3, <2>4, <2>5, <2>6 DEF to
<1>13. ASSUME Unforgotten(p.order), lc + i <= LocalCastsMax PROVE Unforgotten(n.order)
  <2>1. LocalCastsMax \in Nat
    BY CapAssumption
  <2>2. Unforgotten(p.order) /\ lc + (i - 1) <= LocalCastsMax => Unforgotten(e.order)
    BY DEF SentUpTo, CastsUpTo, lc
  <2>3. Unforgotten(e.order)
    BY <1>1, <1>5, <1>13, <2>1, <2>2
  <2>4. Len(e.order.casts) = lc + (i - 1)
    BY <1>4, <2>3
  <2>5. Len(e.order.casts) < LocalCastsMax
    BY <1>1, <1>5, <1>13, <2>1, <2>4
  <2> QED
    BY <1>7, <2>3, <2>5
<1> QED
  BY <1>3, <1>6, <1>9, <1>10, <1>11, <1>12, <1>13 DEF SentUpTo, CastsUpTo, n, k, lu, lc

\* A batch that holds each key once: that many casts, in its order.
LEMMA CastAllIs ==
    ASSUME NEW c \in Client, NEW scene \in Scene, NEW p \in PublisherRec,
           NEW batch \in Seq(Key), IsInjective(batch)
    PROVE  SentUpTo(c, scene, p, CastAll(c, scene, p, batch), batch, Len(batch))
<1> DEFINE n == Len(batch)
           X == PublisherRec
           step(e, i) == CastFor(c, scene, e, batch[i])
           g == [i \in 1 .. n |-> [e \in X |-> step(e, i)]]
           along(f) == [i \in 0 .. n |-> IF i = 0 THEN p ELSE step(f[i - 1], i)]
           F == CHOOSE f : f = along(f)
<1>1. n \in Nat /\ p \in X /\ \A i \in 1 .. n : \A e \in X : step(e, i) \in X
  <2>1. n \in Nat /\ \A i \in 1 .. n : batch[i] \in Key
    BY LenProperties, ElementOfSeq
  <2> QED
    BY <2>1, CastForIs
<1>2. CastAll(c, scene, p, batch) = F[n]
  BY DEF CastAll
<1> HIDE DEF X, step
<1>3. g \in Steps(n, X)
  BY <1>1 DEF Steps
<1>4. PICK f : IsWay(f, n, X, p, g)
  <2> HIDE DEF g, n
  <2> QED
    BY <1>1, <1>3, Iterates
<1>5. f \in [0 .. n -> X] /\ f[0] = p /\ \A i \in 1 .. n : f[i] = g[i][f[i - 1]]
  BY <1>4 DEF IsWay
<1>6. \A i \in 1 .. n : f[i - 1] \in X /\ f[i] = step(f[i - 1], i)
  <2> HIDE DEF n
  <2> QED
    BY <1>1, <1>5
<1>7. f = along(f)
  <2>1. \A i \in 0 .. n : f[i] = along(f)[i]
    BY <1>1, <1>5, <1>6
  <2> QED
    BY <2>1, <1>5
<1>8. F = along(F)
  <2> HIDE DEF along
  <2> QED
    BY <1>7
<1> HIDE DEF F
<1>9. F[0] = p /\ \A i \in 1 .. n : F[i] = step(F[i - 1], i)
  <2>1. \A i \in 0 .. n : F[i] = along(F)[i]
    BY <1>8
  <2>2. \A i \in 0 .. n : F[i] = IF i = 0 THEN p ELSE step(F[i - 1], i)
    BY <2>1
  <2> QED
    BY <2>2, <1>1
<1> DEFINE G == {i \in 0 .. n : SentUpTo(c, scene, p, F[i], batch, i)}
<1>10. 0 \in G
  <2>1. SentUpTo(c, scene, p, p, batch, 0)
    <3>1. Len(p.up) \in Nat /\ Len(p.order.casts) \in Nat /\ p.order.pending \in [Key -> Nat]
      BY PublisherFields
    <3> QED
      BY <3>1 DEF SentUpTo, CastsUpTo, KeepsOrder
  <2> QED
    BY <1>1, <1>9, <2>1
<1>11. ASSUME NEW i \in 1 .. n, i - 1 \in G PROVE i \in G
  <2>1. SentUpTo(c, scene, p, F[i - 1], batch, i - 1)
    BY <1>11
  <2>2. SentUpTo(c, scene, p, step(F[i - 1], i), batch, i)
    BY <2>1, SentOneMore DEF step
  <2> QED
    BY <1>1, <1>9, <2>2
<1>12. n \in G
  <2>1. G \in SUBSET (0 .. n)
    OBVIOUS
  <2> HIDE DEF G, n
  <2>2. G = 0 .. n
    BY <1>1, <1>10, <1>11, <2>1, Along
  <2> QED
    BY <1>1, <2>2
<1> QED
  BY <1>2, <1>12

-------------------------------------------------------------------------------
(* What emit does.                                                             *)

\* The keys it casts, and those whose cast is refused.
SentKeys(scene, p) == {k \in Key : scene[k] # p.base[k] /\ Castable(p.order, k, scene[k])}
HeldKeys(scene, p) == {k \in Key : scene[k] # p.base[k] /\ ~Castable(p.order, k, scene[k])}

EmitOutcome(c, scene, p, e) ==
    /\ e \in PublisherRec
    /\ e.throttle = p.throttle
    /\ e.base = [k \in Key |-> IF k \in HeldKeys(scene, p) THEN p.base[k] ELSE scene[k]]
    /\ e.owed = {k \in (p.owed \ SentKeys(scene, p)) \cup HeldKeys(scene, p) : scene[k] # Absent}
    /\ \E batch \in Seq(Key) : /\ IsInjective(batch) /\ ToSet(batch) = SentKeys(scene, p)
                               /\ CastsUpTo(c, scene, p, e.order, e.up, batch, Len(batch))

\* That is what emit does.
LEMMA EmitIs ==
    ASSUME NEW c \in Client, NEW scene \in Scene, NEW p \in PublisherRec
    PROVE  EmitOutcome(c, scene, p, Emit(c, scene, p))
<1> DEFINE diff    == {k \in Key : scene[k] # p.base[k]}
           sent    == {k \in diff : Castable(p.order, k, scene[k])}
           refused == diff \ sent
           gone    == {k \in sent : scene[k] = Absent}
           first   == SetToSeq(sent \ gone)
           second  == SetToSeq(gone)
           batch   == first \o second
           cast    == CastAll(c, scene, p, batch)
           based   == [k \in Key |-> IF k \in refused THEN p.base[k] ELSE scene[k]]
           due     == {k \in (p.owed \ sent) \cup refused : scene[k] # Absent \/ k \in refused}
           e       == Emit(c, scene, p)
<1>1. sent = SentKeys(scene, p) /\ refused = HeldKeys(scene, p)
  BY DEF SentKeys, HeldKeys
<1>2. IsFiniteSet(sent) /\ IsFiniteSet(gone) /\ IsFiniteSet(sent \ gone)
  <2>1. sent \subseteq Key /\ gone \subseteq Key /\ sent \ gone \subseteq Key
    OBVIOUS
  <2> QED
    BY <2>1, KeyAssumption, FS_Subset
<1>3. /\ first \in Seq(Key) /\ ToSet(first) = sent \ gone /\ IsInjective(first)
      /\ second \in Seq(Key) /\ ToSet(second) = gone /\ IsInjective(second)
  <2>1. sent \ gone \in SUBSET Key /\ gone \in SUBSET Key
    OBVIOUS
  <2> HIDE DEF sent, gone
  <2> QED
    BY <1>2, <2>1, ListOfSet
<1>4. batch \in Seq(Key) /\ ToSet(batch) = sent /\ IsInjective(batch)
  <2>1. (sent \ gone) \cap gone = {} /\ (sent \ gone) \cup gone = sent
    OBVIOUS
  <2> HIDE DEF sent, gone, first, second
  <2> QED
    <3>1. batch \in Seq(Key) /\ ToSet(batch) = ToSet(first) \cup ToSet(second)
      BY <1>3, BothLists
    <3>2. ToSet(first) \cap ToSet(second) = {}
      BY <1>3, <2>1
    <3>3. IsInjective(batch)
      BY <1>3, <3>2, BothLists
    <3> QED
      BY <1>3, <2>1, <3>1, <3>3
<1> HIDE DEF batch
<1>5. SentUpTo(c, scene, p, cast, batch, Len(batch))
  BY <1>4, CastAllIs
<1>6. cast \in PublisherRec /\ cast.base = p.base /\ cast.owed = p.owed
      /\ cast.throttle = p.throttle /\ CastsUpTo(c, scene, p, cast.order, cast.up, batch, Len(batch))
  BY <1>5 DEF SentUpTo
<1> HIDE DEF cast
<1>7. e = [cast EXCEPT !.base = based, !.owed = due]
  <2>1. e = [cast EXCEPT
           !.base = [k \in Key |-> IF k \in refused THEN @[k] ELSE scene[k]],
           !.owed = {k \in (@ \ sent) \cup refused : scene[k] # Absent \/ k \in refused}]
    BY DEF Emit, cast, batch, first, second
  <2> HIDE DEF diff, sent, refused, gone, e
  <2> QED
    BY <1>6, <2>1
<1>8. based \in Scene /\ due \in SUBSET Key
  BY PublisherFields DEF Scene
<1>9. due = {k \in (p.owed \ sent) \cup refused : scene[k] # Absent}
  <2>1. \A k \in refused : scene[k] # Absent
    BY DEF Castable
  <2> QED
    BY <2>1
<1> HIDE DEF based, due, e
<1>10. /\ e \in PublisherRec /\ e.throttle = p.throttle /\ e.base = based /\ e.owed = due
       /\ e.order = cast.order /\ e.up = cast.up
  BY <1>6, <1>7, <1>8 DEF PublisherRec
<1>11. CastsUpTo(c, scene, p, e.order, e.up, batch, Len(batch))
  BY <1>6, <1>10
<1> HIDE DEF sent, refused
<1>12. \E b \in Seq(Key) : /\ IsInjective(b) /\ ToSet(b) = SentKeys(scene, p)
                           /\ CastsUpTo(c, scene, p, e.order, e.up, b, Len(b))
  BY <1>1, <1>4, <1>11
<1> QED
  BY <1>1, <1>9, <1>10, <1>12 DEF EmitOutcome, based, e

-------------------------------------------------------------------------------
(* What is always right about a publisher: n is how much of the log its client has heard,
   due[k] how many of its own casts of k are in the rest of it.                *)

\* A mutation that c may send, or have sent, at position n.
WellCast(m, c, n) == /\ m.src = c
                     /\ (m.remove <=> m.val = Absent)
                     /\ m.val \notin TooLarge
                     /\ m.seen <= n

CastsIn(u, k) == {i \in DOMAIN u : u[i].key = k}

PublisherRight(c, p, n, due) ==
    /\ p \in PublisherRec
    /\ p.order.rebase = FALSE /\ p.order.lastSeq = n
    /\ \A k \in Key : p.order.seen[k] <= n
    /\ \A i \in DOMAIN p.up : WellCast(p.up[i], c, n)
    /\ \A k \in Key : p.order.pending[k] = Cardinality(CastsIn(p.up, k)) + due[k]

\* A bus that a batch is put on has one more cast of each of the batch's keys.
Grown(u, w, batch) == /\ Len(w) = Len(u) + Len(batch)
                      /\ \A j \in 1 .. Len(u) : w[j] = u[j]
                      /\ \A j \in 1 .. Len(batch) : w[Len(u) + j].key = batch[j]

CountGrows(u, w, batch, k) ==
    /\ Cardinality(CastsIn(u, k)) \in Nat /\ Cardinality(CastsIn(w, k)) \in Nat
    /\ Cardinality(CastsIn(w, k)) = Cardinality(CastsIn(u, k))
          + (IF \E j \in 1 .. Len(batch) : batch[j] = k THEN 1 ELSE 0)

\* A batch's keys are counted once more each.
LEMMA GrownCount ==
    ASSUME NEW S, NEW u \in Seq(S), NEW w \in Seq(S), NEW batch \in Seq(Key),
           IsInjective(batch), Grown(u, w, batch), NEW k
    PROVE  CountGrows(u, w, batch, k)
<1> DEFINE U == CastsIn(u, k)
           W == CastsIn(w, k)
           lu == Len(u)
           lb == Len(batch)
<1>1. /\ lu \in Nat /\ lb \in Nat /\ DOMAIN u = 1 .. lu /\ DOMAIN w = 1 .. lu + lb
      /\ DOMAIN batch = 1 .. lb
  BY LenProperties DEF Grown
<1>2. U \in SUBSET (1 .. lu) /\ W \in SUBSET (1 .. lu + lb)
  BY <1>1 DEF CastsIn
<1>3. /\ \A j \in 1 .. lu : j \in U <=> j \in W
      /\ \A j \in 1 .. lb : lu + j \in W <=> batch[j] = k
  <2>1. \A j \in 1 .. lu : w[j] = u[j] /\ j \in DOMAIN u /\ j \in DOMAIN w
    BY <1>1 DEF Grown
  <2>2. \A j \in 1 .. lb : w[lu + j].key = batch[j] /\ lu + j \in DOMAIN w
    BY <1>1 DEF Grown
  <2> HIDE DEF lu, lb
  <2> QED
    BY <2>1, <2>2 DEF CastsIn
<1>4. \A i \in W : i \in 1 .. lu \/ (i - lu \in 1 .. lb /\ lu + (i - lu) = i)
  BY <1>1, <1>2
<1>5. IsFiniteSet(U) /\ Cardinality(U) \in Nat /\ IsFiniteSet(W) /\ Cardinality(W) \in Nat
  <2> HIDE DEF U, W, lu, lb
  <2>1. lu + lb \in Nat
    BY <1>1
  <2> QED
    BY <1>1, <1>2, <2>1, CountType
<1> HIDE DEF U, W, lu
<1>6. ASSUME \E j \in 1 .. lb : batch[j] = k PROVE Cardinality(W) = Cardinality(U) + 1
  <2>1. PICK j \in 1 .. lb : batch[j] = k
    BY <1>6
  <2>2. lu + j \in W /\ lu + j \notin U
    BY <1>1, <1>2, <1>3, <2>1
  <2>3. \A i \in 1 .. lb : batch[i] = k => i = j
    BY <1>1, <2>1 DEF IsInjective
  <2>4. ASSUME NEW i \in W PROVE i \in U \cup {lu + j}
    <3>1. CASE i \in 1 .. lu
      BY <1>3, <3>1
    <3>2. CASE i - lu \in 1 .. lb /\ lu + (i - lu) = i
      <4>1. batch[i - lu] = k
        BY <1>3, <3>2
      <4>2. i - lu = j
        BY <2>3, <3>2, <4>1
      <4> QED
        BY <3>2, <4>2
    <3> QED
      BY <1>4, <3>1, <3>2
  <2>5. W = U \cup {lu + j}
    BY <1>2, <1>3, <2>2, <2>4
  <2> QED
    BY <1>5, <2>2, <2>5, FS_AddElement
<1>7. ASSUME ~\E j \in 1 .. lb : batch[j] = k PROVE Cardinality(W) = Cardinality(U) + 0
  <2>1. ASSUME NEW i \in W PROVE i \in U
    <3>1. CASE i \in 1 .. lu
      BY <1>3, <3>1
    <3>2. CASE i - lu \in 1 .. lb /\ lu + (i - lu) = i
      BY <1>3, <1>7, <3>2
    <3> QED
      BY <1>4, <3>1, <3>2
  <2>2. W = U
    BY <1>2, <1>3, <2>1
  <2> QED
    BY <1>5, <2>2
<1>8. CountGrows(u, w, batch, k)
  BY <1>5, <1>6, <1>7 DEF CountGrows, U, W, lb
<1> QED
  BY <1>8

\* Emitting keeps a publisher right.
LEMMA EmitRight ==
    ASSUME NEW c \in Client, NEW scene \in Scene, NEW p, NEW n \in Nat, NEW due \in [Key -> Nat],
           PublisherRight(c, p, n, due), NEW e, EmitOutcome(c, scene, p, e)
    PROVE  PublisherRight(c, e, n, due)
<1>1. /\ p \in PublisherRec
      /\ p.order.rebase = FALSE /\ p.order.lastSeq = n
      /\ \A k \in Key : p.order.seen[k] <= n
      /\ \A i \in DOMAIN p.up : WellCast(p.up[i], c, n)
      /\ \A k \in Key : p.order.pending[k] = Cardinality(CastsIn(p.up, k)) + due[k]
  BY DEF PublisherRight
<1>2. PICK batch \in Seq(Key) : /\ IsInjective(batch) /\ ToSet(batch) = SentKeys(scene, p)
                                /\ CastsUpTo(c, scene, p, e.order, e.up, batch, Len(batch))
  BY DEF EmitOutcome
<1> DEFINE lu == Len(p.up)
           lb == Len(batch)
<1>3. /\ e \in PublisherRec /\ p.up \in Seq(Mutation) /\ e.up \in Seq(Mutation)
      /\ lu \in Nat /\ lb \in Nat
      /\ DOMAIN p.up = 1 .. lu /\ DOMAIN e.up = 1 .. Len(e.up) /\ DOMAIN batch = 1 .. lb
      /\ p.order.pending \in [Key -> Nat]
  BY <1>1, PublisherFields, LenProperties DEF EmitOutcome
<1>4. /\ KeepsOrder(p.order, e.order)
      /\ Len(e.up) = lu + lb
      /\ \A j \in 1 .. lu : e.up[j] = p.up[j]
      /\ \A j \in 1 .. lb : e.up[lu + j] = CastOf(c, scene, p.order, batch[j])
      /\ \A k \in Key : e.order.pending[k] = p.order.pending[k] + (IF \E j \in 1 .. lb : batch[j] = k
                                                                   THEN 1 ELSE 0)
  BY <1>2 DEF CastsUpTo
<1> HIDE DEF lu, lb
<1>5. /\ e.order.rebase = FALSE /\ e.order.lastSeq = n
      /\ \A k \in Key : e.order.seen[k] <= n
  BY <1>1, <1>4 DEF KeepsOrder
<1>6. ASSUME NEW i \in DOMAIN e.up PROVE WellCast(e.up[i], c, n)
  <2>1. CASE i \in 1 .. lu
    BY <1>1, <1>3, <1>4, <2>1
  <2>2. CASE i - lu \in 1 .. lb
    <3>1. batch[i - lu] \in SentKeys(scene, p)
      BY <1>2, <1>3, <2>2 DEF ToSet
    <3>2. scene[batch[i - lu]] \notin TooLarge
      BY <3>1, SyncAssumption DEF SentKeys, Castable
    <3>3. e.up[i] = CastOf(c, scene, p.order, batch[i - lu])
      <4>1. lu + (i - lu) = i
        BY <1>3
      <4> QED
        BY <1>4, <2>2, <4>1
    <3> QED
      BY <1>1, <3>2, <3>3, CastOfFields DEF WellCast
  <2> QED
    BY <1>3, <1>4, <2>1, <2>2
<1>7. ASSUME NEW k \in Key PROVE e.order.pending[k] = Cardinality(CastsIn(e.up, k)) + due[k]
  <2>1. \A j \in 1 .. lb : e.up[lu + j].key = batch[j]
    BY <1>4, CastOfFields
  <2>2. /\ Cardinality(CastsIn(p.up, k)) \in Nat /\ Cardinality(CastsIn(e.up, k)) \in Nat
        /\ Cardinality(CastsIn(e.up, k)) = Cardinality(CastsIn(p.up, k))
                 + (IF \E j \in 1 .. lb : batch[j] = k THEN 1 ELSE 0)
    <3>1. Grown(p.up, e.up, batch)
      BY <1>3, <1>4, <2>1 DEF Grown, lu, lb
    <3>2. CountGrows(p.up, e.up, batch, k)
      BY <1>2, <1>3, <3>1, GrownCount
    <3> QED
      BY <3>2 DEF CountGrows, lb
  <2>3. /\ p.order.pending[k] = Cardinality(CastsIn(p.up, k)) + due[k]
        /\ p.order.pending[k] \in Nat /\ due[k] \in Nat
    BY <1>1, <1>3
  <2>4. CASE \E j \in 1 .. lb : batch[j] = k
    BY <1>4, <2>2, <2>3, <2>4
  <2>5. CASE ~\E j \in 1 .. lb : batch[j] = k
    <3>1. e.order.pending[k] = p.order.pending[k] + 0
      BY <1>4, <2>5
    <3>2. Cardinality(CastsIn(e.up, k)) = Cardinality(CastsIn(p.up, k)) + 0
      BY <2>2, <2>5
    <3> QED
      BY <2>2, <2>3, <3>1, <3>2
  <2> QED
    BY <2>4, <2>5
<1> QED
  BY <1>3, <1>5, <1>6, <1>7 DEF PublisherRight

\* Publishing, adopting and releasing, then, keep a publisher right.
LEMMA PublishRight ==
    ASSUME NEW c \in Client, NEW scene \in Scene, NEW p, NEW n \in Nat, NEW due \in [Key -> Nat],
           PublisherRight(c, p, n, due), NEW throttled \in BOOLEAN
    PROVE  PublisherRight(c, Publish(c, scene, throttled, p), n, due)
<1>1. p \in PublisherRec
  BY DEF PublisherRight
<1> DEFINE e == Emit(c, scene, p)
<1>2. PublisherRight(c, e, n, due)
  BY <1>1, EmitIs, EmitRight
<1> HIDE DEF e
<1>3. \A q : PublisherRight(c, q, n, due) =>
        \A t \in {"idle", "armed", "frame"} : PublisherRight(c, [q EXCEPT !.throttle = t], n, due)
  BY DEF PublisherRight, PublisherRec
<1> QED
  BY <1>2, <1>3 DEF Publish, e

\* Adopting casts nothing.
LEMMA AdoptRight ==
    ASSUME NEW c \in Client, NEW scene \in Scene, NEW p, NEW n \in Nat, NEW due \in [Key -> Nat],
           PublisherRight(c, p, n, due)
    PROVE  PublisherRight(c, Adopt(scene, p), n, due)
<1> DEFINE keep  == {k \in p.owed : scene[k] # Absent}
           based == [k \in Key |-> IF k \in keep THEN p.base[k] ELSE scene[k]]
           timer == IF p.throttle = "frame" THEN "armed" ELSE p.throttle
<1>1. p \in PublisherRec
  BY DEF PublisherRight
<1>2. based \in Scene /\ timer \in {"idle", "armed", "frame"}
  BY <1>1, PublisherFields DEF Scene
<1>3. Adopt(scene, p) = [p EXCEPT !.base = based, !.throttle = timer]
  BY <1>1 DEF Adopt, PublisherRec
<1> HIDE DEF based, timer
<1> QED
  BY <1>2, <1>3 DEF PublisherRight, PublisherRec

\* Releasing is publishing, or nothing.
LEMMA ReleaseRight ==
    ASSUME NEW c \in Client, NEW scene \in Scene, NEW p, NEW n \in Nat, NEW due \in [Key -> Nat],
           PublisherRight(c, p, n, due), NEW before
    PROVE  PublisherRight(c, ReleaseHeld(c, scene, before, p), n, due)
  BY PublishRight DEF ReleaseHeld

\* Hearing the next entry of the log: our own echo is one fewer due.
Answered(m, c, k) == IF m.src = c /\ m.key = k THEN 1 ELSE 0

HeardBy(p, m, c) == [p EXCEPT !.order = Accepted(@, m, c)]

\* ... and the position is one further on.
LEMMA HeardRight ==
    ASSUME NEW c \in Client, NEW p, NEW n \in Nat, NEW due \in [Key -> Nat],
           PublisherRight(c, p, n, due),
           NEW m \in Mutation, m.seq = n + 1,
           NEW left \in [Key -> Nat], \A k \in Key : due[k] = left[k] + Answered(m, c, k)
    PROVE  PublisherRight(c, HeardBy(p, m, c), n + 1, left)
<1> DEFINE o == p.order
           h == Heard(o, m)
           q == Accepted(o, m, c)
<1>1. /\ p \in PublisherRec
      /\ o.rebase = FALSE /\ o.lastSeq = n
      /\ \A k \in Key : o.seen[k] <= n
      /\ \A i \in DOMAIN p.up : WellCast(p.up[i], c, n)
      /\ \A k \in Key : o.pending[k] = Cardinality(CastsIn(p.up, k)) + due[k]
  BY DEF PublisherRight
<1>2. /\ o \in Order /\ p.up \in Seq(Mutation) /\ o.pending \in [Key -> Nat]
      /\ DOMAIN p.up = 1 .. Len(p.up) /\ Len(p.up) \in Nat
  BY <1>1, PublisherFields
<1>3. /\ m.key \in Key /\ m.seq \in Nat \ {0} /\ n + 1 > n
      /\ \A i \in DOMAIN p.up : p.up[i] \in Mutation
  <2>1. \A i \in 1 .. Len(p.up) : p.up[i] \in Mutation
    BY <1>2, ElementOfSeq
  <2> QED
    BY <1>2, <2>1 DEF Mutation
<1> HIDE DEF o
<1>4. /\ h \in Order /\ Keeps(o, h) /\ h.rebase = FALSE
      /\ h.seen = [o.seen EXCEPT ![m.key] = IF m.seq > @ THEN m.seq ELSE @]
      /\ h.lastSeq = n + 1
  <2>1. o \in Order /\ m.key \in Key /\ m.seq \in Nat \ {0}
    BY <1>2, <1>3
  <2>2. /\ h \in Order /\ Keeps(o, h) /\ h.rebase = FALSE
        /\ h.seen = [o.seen EXCEPT ![m.key] = IF m.seq > @ THEN m.seq ELSE @]
        /\ h.lastSeq = IF o.rebase \/ m.seq > o.lastSeq THEN m.seq ELSE o.lastSeq
    BY <2>1, HeardFields
  <2> HIDE DEF h
  <2> QED
    BY <1>1, <1>3, <2>2
<1>5. AcceptedOutcome(o, m, c, q)
  BY <1>2, <1>3, AcceptedFields
<1> HIDE DEF h, q
<1>6. q \in Order /\ KeepsOrder(h, q)
  BY <1>5 DEF AcceptedOutcome, h
<1>7. q.rebase = FALSE /\ q.lastSeq = n + 1 /\ q.seen = h.seen
  BY <1>4, <1>6 DEF KeepsOrder
<1>8. ASSUME NEW k \in Key PROVE q.seen[k] <= n + 1
  <2>1. o.seen \in [Key -> Nat] /\ o.seen[k] <= n
    BY <1>1, <1>2 DEF Order
  <2> QED
    BY <1>4, <1>7, <2>1
<1>9. \A i \in DOMAIN p.up : WellCast(p.up[i], c, n + 1)
  <2>1. \A i \in DOMAIN p.up : p.up[i].seen \in Nat
    BY <1>3 DEF Mutation
  <2> QED
    BY <1>1, <2>1 DEF WellCast
<1>10. ASSUME NEW k \in Key PROVE q.pending[k] = Cardinality(CastsIn(p.up, k)) + left[k]
  <2>1. Cardinality(CastsIn(p.up, k)) \in Nat
    <3>1. CastsIn(p.up, k) \in SUBSET (1 .. Len(p.up))
      BY <1>2 DEF CastsIn
    <3> QED
      BY <1>2, <3>1, CountType
  <2>2. /\ o.pending[k] = Cardinality(CastsIn(p.up, k)) + due[k]
        /\ due[k] = left[k] + Answered(m, c, k) /\ left[k] \in Nat
    BY <1>1
  <2>3. CASE m.src = c
    <3>1. q = MatchEcho(Ack(h, m.key), m.key)
      BY <1>5, <2>3 DEF AcceptedOutcome, h
    <3> DEFINE a == Ack(h, m.key)
    <3>2. a \in Order /\ a.pending = [h.pending EXCEPT ![m.key] = Less(@, 1)]
      BY <1>3, <1>4, AckFields DEF AckOutcome
    <3> HIDE DEF a
    <3>3. q.pending = a.pending
      BY <1>3, <3>1, <3>2, MatchEchoFields DEF MatchOutcome, a
    <3>4. q.pending[k] = IF k = m.key THEN Less(o.pending[k], 1) ELSE o.pending[k]
      BY <1>2, <1>3, <1>4, <3>2, <3>3 DEF Keeps
    <3> QED
      BY <2>1, <2>2, <2>3, <3>4 DEF Answered, Less
  <2>4. CASE m.src # c
    <3>1. q.pending = o.pending
      BY <1>5, <2>4 DEF AcceptedOutcome
    <3> QED
      BY <2>1, <2>2, <2>4, <3>1 DEF Answered
  <2> QED
    BY <2>3, <2>4
<1>11. HeardBy(p, m, c) = [p EXCEPT !.order = q]
  BY DEF HeardBy, q, o
<1>12. HeardBy(p, m, c) \in PublisherRec /\ HeardBy(p, m, c).order = q /\ HeardBy(p, m, c).up = p.up
  BY <1>1, <1>6, <1>11 DEF PublisherRec
<1> QED
  BY <1>7, <1>8, <1>9, <1>10, <1>12 DEF PublisherRight

-------------------------------------------------------------------------------
(* The state: every publisher is right about where its client stands in the log. *)

\* Where in the rest of the log c's own casts of k are, and how many.
OwnAhead(c, k) == {i \in pos[c] + 1 .. Len(log) : log[i].src = c /\ log[i].key = k}
Due(c) == [k \in Key |-> Cardinality(OwnAhead(c, k))]

\* What the reflector has stamped.
LogRight ==
    \A i \in DOMAIN log : /\ log[i].seq = i /\ log[i].seen < i
                          /\ (log[i].remove <=> log[i].val = Absent)
                          /\ log[i].val \notin TooLarge

BusInv == /\ TypeOK
          /\ LogRight
          /\ \A c \in Client : PublisherRight(c, Publisher(c), pos[c], Due(c))

\* The types of what a client holds ...
LEMMA PublisherType ==
    ASSUME TypeOK, NEW c \in Client
    PROVE  Publisher(c) \in PublisherRec /\ canvas[c] \in Scene
  BY DEF TypeOK, Publisher, PublisherRec

\* ... of the log and the positions ...
LEMMA LogType ==
    ASSUME TypeOK
    PROVE  /\ log \in Seq(Mutation) /\ Len(log) \in Nat /\ DOMAIN log = 1 .. Len(log)
           /\ \A i \in 1 .. Len(log) : log[i] \in Mutation
           /\ pos \in [Client -> 0 .. Len(log)] /\ \A c \in Client : pos[c] \in Nat
<1>1. log \in Seq(Mutation) /\ pos \in [Client -> 0 .. Len(log)]
  BY DEF TypeOK
<1>2. Len(log) \in Nat /\ DOMAIN log = 1 .. Len(log) /\ \A i \in 1 .. Len(log) : log[i] \in Mutation
  BY <1>1, LenProperties, ElementOfSeq
<1> QED
  BY <1>1, <1>2

\* ... and of what is due.
LEMMA DueType ==
    ASSUME TypeOK, NEW c \in Client
    PROVE  /\ Due(c) \in [Key -> Nat]
           /\ \A k \in Key : /\ OwnAhead(c, k) \in SUBSET (1 .. Len(log))
                             /\ Due(c)[k] = Cardinality(OwnAhead(c, k))
                             /\ Cardinality(OwnAhead(c, k)) \in Nat
                             /\ IsFiniteSet(OwnAhead(c, k))
<1>1. ASSUME NEW k \in Key
      PROVE  /\ OwnAhead(c, k) \in SUBSET (1 .. Len(log))
             /\ Cardinality(OwnAhead(c, k)) \in Nat /\ IsFiniteSet(OwnAhead(c, k))
  <2>1. Len(log) \in Nat /\ pos[c] \in Nat
    BY LogType
  <2>2. OwnAhead(c, k) \in SUBSET (1 .. Len(log))
    BY <2>1 DEF OwnAhead
  <2> QED
    BY <2>1, <2>2, CountType
<1> QED
  BY <1>1 DEF Due

\* What a step of c that becomes a canvas and a publisher leaves everybody.
LEMMA BecomesIs ==
    ASSUME TypeOK, NEW c \in Client, NEW scene \in Scene, NEW p \in PublisherRec,
           Becomes(c, scene, p)
    PROVE  /\ canvas' = [canvas EXCEPT ![c] = scene] /\ canvas' \in [Client -> Scene]
           /\ base' \in [Client -> Scene] /\ owed' \in [Client -> SUBSET Key]
           /\ throttle' \in [Client -> {"idle", "armed", "frame"}]
           /\ order' \in [Client -> Order] /\ up' \in [Client -> Seq(Mutation)]
           /\ Publisher(c)' = p
           /\ \A d \in Client \ {c} : Publisher(d)' = Publisher(d)
<1>1. /\ canvas'   = [canvas EXCEPT ![c] = scene]
      /\ base'     = [base EXCEPT ![c] = p.base]
      /\ owed'     = [owed EXCEPT ![c] = p.owed]
      /\ throttle' = [throttle EXCEPT ![c] = p.throttle]
      /\ order'    = [order EXCEPT ![c] = p.order]
      /\ up'       = [up EXCEPT ![c] = p.up]
  BY DEF Becomes
<1>2. /\ canvas \in [Client -> Scene] /\ base \in [Client -> Scene]
      /\ owed \in [Client -> SUBSET Key] /\ throttle \in [Client -> {"idle", "armed", "frame"}]
      /\ order \in [Client -> Order] /\ up \in [Client -> Seq(Mutation)]
  BY DEF TypeOK
<1>3. p.base \in Scene /\ p.owed \in SUBSET Key /\ p.throttle \in {"idle", "armed", "frame"}
      /\ p.order \in Order /\ p.up \in Seq(Mutation)
  BY PublisherFields
<1>4. Publisher(c)' = [base |-> p.base, owed |-> p.owed, throttle |-> p.throttle,
                      order |-> p.order, up |-> p.up]
  BY <1>1, <1>2 DEF Publisher
<1>5. p = [base |-> p.base, owed |-> p.owed, throttle |-> p.throttle,
           order |-> p.order, up |-> p.up]
  BY DEF PublisherRec
<1>6. \A d \in Client \ {c} : Publisher(d)' = Publisher(d)
  BY <1>1, <1>2 DEF Publisher
<1> QED
  BY <1>1, <1>2, <1>3, <1>4, <1>5, <1>6

\* A step of c that the log has no part in.
LEMMA LocalStep ==
    ASSUME BusInv, NEW c \in Client, NEW scene \in Scene, NEW p, Becomes(c, scene, p),
           PublisherRight(c, p, pos[c], Due(c)),
           dragging' \in [Client -> BOOLEAN], log' = log, pos' = pos
    PROVE  BusInv'
<1>1. TypeOK /\ LogRight /\ \A d \in Client : PublisherRight(d, Publisher(d), pos[d], Due(d))
  BY DEF BusInv
<1>2. p \in PublisherRec
  BY DEF PublisherRight
<1>3. TypeOK'
  BY <1>1, <1>2, BecomesIs, LogType DEF TypeOK
<1>4. LogRight'
  BY <1>1 DEF LogRight
<1>5. \A d \in Client : Due(d)' = Due(d) /\ pos'[d] = pos[d]
  BY DEF Due, OwnAhead
<1>6. ASSUME NEW d \in Client PROVE PublisherRight(d, Publisher(d)', pos'[d], Due(d)')
  <2>1. CASE d = c
    BY <1>1, <1>2, <1>5, <2>1, BecomesIs
  <2>2. CASE d # c
    <3>1. Publisher(d)' = Publisher(d)
      BY <1>1, <1>2, <2>2, BecomesIs
    <3> QED
      BY <1>1, <1>5, <3>1
  <2> QED
    BY <2>1, <2>2
<1> QED
  BY <1>3, <1>4, <1>6 DEF BusInv

\* The mutation, the canvas and the publisher of Hear(c).
Entry(c) == log[pos[c] + 1]

HeardScene(c) ==
    IF Applies(order[c], Entry(c), c) THEN [canvas[c] EXCEPT ![Entry(c).key] = Entry(c).val]
    ELSE canvas[c]

Adopted(c) ==
    LET heard == HeardBy(Publisher(c), Entry(c), c)
    IN  IF HeardScene(c) # canvas[c] THEN Adopt(HeardScene(c), heard) ELSE heard

Freed(c) == ReleaseHeld(c, HeardScene(c), order[c], Adopted(c))

HeardPublisher(c) ==
    IF HeardScene(c) # canvas[c] THEN Publish(c, HeardScene(c), dragging[c], Freed(c)) ELSE Freed(c)

\* Hear(c) becomes them.
LEMMA HearIs ==
    ASSUME NEW c \in Client, Hear(c)
    PROVE  /\ pos[c] < Len(log) /\ pos' = [pos EXCEPT ![c] = @ + 1]
           /\ Becomes(c, HeardScene(c), HeardPublisher(c))
           /\ dragging' = dragging /\ log' = log
  BY DEF Hear, HeardScene, HeardPublisher, Freed, Adopted, HeardBy, Entry

\* The entry c hears, and what is due to it after.
LEMMA EntryIs ==
    ASSUME TypeOK, LogRight, NEW c \in Client, pos[c] < Len(log)
    PROVE  /\ pos[c] \in Nat /\ pos[c] + 1 \in 1 .. Len(log)
           /\ Entry(c) \in Mutation /\ Entry(c).seq = pos[c] + 1
           /\ Entry(c).key \in Key /\ Entry(c).val \in Val \cup {Absent}
           /\ Entry(c).val \notin TooLarge /\ Entry(c).seen \in Nat /\ Entry(c).seen < pos[c] + 1
           /\ (Entry(c).remove <=> Entry(c).val = Absent)
<1>1. pos[c] \in Nat /\ pos[c] + 1 \in 1 .. Len(log) /\ DOMAIN log = 1 .. Len(log)
      /\ log[pos[c] + 1] \in Mutation
  BY LogType
<1>2. /\ log[pos[c] + 1].seq = pos[c] + 1 /\ log[pos[c] + 1].seen < pos[c] + 1
      /\ (log[pos[c] + 1].remove <=> log[pos[c] + 1].val = Absent)
      /\ log[pos[c] + 1].val \notin TooLarge
  BY <1>1 DEF LogRight
<1> QED
  BY <1>1, <1>2 DEF Entry, Mutation

\* The canvas it leaves is one.
LEMMA HeardSceneType ==
    ASSUME TypeOK, LogRight, NEW c \in Client, pos[c] < Len(log)
    PROVE  HeardScene(c) \in Scene
  BY PublisherType, EntryIs DEF HeardScene, Scene

\* c's own casts of k in what is left of the log after the entry.
Beyond(c, k) == {i \in pos[c] + 2 .. Len(log) : log[i].src = c /\ log[i].key = k}
DueAfter(c)  == [k \in Key |-> Cardinality(Beyond(c, k))]

\* The publisher that has heard it.
LEMMA HeardPublisherRight ==
    ASSUME BusInv, NEW c \in Client, Hear(c)
    PROVE  /\ PublisherRight(c, HeardPublisher(c), pos[c] + 1, DueAfter(c))
           /\ HeardPublisher(c) \in PublisherRec
<1>1. TypeOK /\ LogRight /\ \A d \in Client : PublisherRight(d, Publisher(d), pos[d], Due(d))
  BY DEF BusInv
<1>2. /\ pos[c] < Len(log) /\ pos' = [pos EXCEPT ![c] = @ + 1]
      /\ Becomes(c, HeardScene(c), HeardPublisher(c))
      /\ dragging' = dragging /\ log' = log
  BY HearIs
<1>3. /\ pos[c] \in Nat /\ pos[c] + 1 \in 1 .. Len(log)
      /\ Entry(c) \in Mutation /\ Entry(c).seq = pos[c] + 1
      /\ HeardScene(c) \in Scene /\ Len(log) \in Nat
  BY <1>1, <1>2, EntryIs, HeardSceneType, LogType
<1> DEFINE n == pos[c]
           m == Entry(c)
           left == DueAfter(c)
<1>4. ASSUME NEW k \in Key
      PROVE  /\ Cardinality(Beyond(c, k)) \in Nat
             /\ Due(c)[k] = Cardinality(Beyond(c, k)) + Answered(m, c, k)
  <2> DEFINE R == Beyond(c, k)
             O == OwnAhead(c, k)
  <2>1. R \in SUBSET (1 .. Len(log))
    BY <1>3 DEF Beyond
  <2>2. IsFiniteSet(R) /\ Cardinality(R) \in Nat
    <3> HIDE DEF R
    <3> QED
      BY <1>3, <2>1, CountType
  <2>3. Due(c)[k] = Cardinality(O) /\ IsFiniteSet(O)
    BY <1>1, DueType
  <2>4. n + 1 \notin R
    BY <1>3 DEF Beyond
  <2>5. CASE m.src = c /\ m.key = k
    <3>1. O = R \cup {n + 1}
      BY <1>3, <2>5 DEF OwnAhead, Entry, Beyond
    <3>2. Cardinality(O) = Cardinality(R) + 1
      <4> HIDE DEF R, O
      <4> QED
        BY <2>2, <2>4, <3>1, FS_AddElement
    <3> QED
      BY <2>2, <2>3, <2>5, <3>2 DEF Answered
  <2>6. CASE ~(m.src = c /\ m.key = k)
    <3>1. O = R
      BY <1>3, <2>6 DEF OwnAhead, Entry, Beyond
    <3> HIDE DEF R, O
    <3>2. Answered(m, c, k) = 0
      BY <2>6 DEF Answered
    <3> QED
      BY <2>2, <2>3, <3>1, <3>2 DEF R
  <2> QED
    BY <2>2, <2>5, <2>6
<1>5. left \in [Key -> Nat] /\ \A k \in Key : Due(c)[k] = left[k] + Answered(m, c, k)
  BY <1>4 DEF DueAfter
<1> HIDE DEF left
<1>6. PublisherRight(c, HeardBy(Publisher(c), m, c), n + 1, left)
  <2>1. PublisherRight(c, Publisher(c), n, Due(c)) /\ Due(c) \in [Key -> Nat]
    BY <1>1, DueType
  <2> HIDE DEF m, n
  <2> QED
    BY <1>3, <1>5, <2>1, HeardRight DEF m, n
<1>7. PublisherRight(c, HeardPublisher(c), n + 1, left)
  <2>1. n + 1 \in Nat /\ dragging[c] \in BOOLEAN
    BY <1>1, <1>3 DEF TypeOK
  <2>2. PublisherRight(c, Adopted(c), n + 1, left)
    BY <1>3, <1>5, <1>6, <2>1, AdoptRight DEF Adopted
  <2>3. PublisherRight(c, Freed(c), n + 1, left)
    BY <1>3, <1>5, <2>1, <2>2, ReleaseRight DEF Freed
  <2> QED
    BY <1>3, <1>5, <2>1, <2>3, PublishRight DEF HeardPublisher
<1>8. HeardPublisher(c) \in PublisherRec
  BY <1>7 DEF PublisherRight
<1> QED
  BY <1>7, <1>8 DEF left

\* Everything c has been sent before, and one more.
LEMMA HearBusInv ==
    ASSUME BusInv, NEW c \in Client, Hear(c)
    PROVE  BusInv'
<1>1. TypeOK /\ LogRight /\ \A d \in Client : PublisherRight(d, Publisher(d), pos[d], Due(d))
  BY DEF BusInv
<1>2. /\ pos[c] < Len(log) /\ pos' = [pos EXCEPT ![c] = @ + 1]
      /\ Becomes(c, HeardScene(c), HeardPublisher(c))
      /\ dragging' = dragging /\ log' = log
  BY HearIs
<1>3. pos[c] \in Nat /\ pos[c] + 1 \in 1 .. Len(log) /\ HeardScene(c) \in Scene /\ Len(log) \in Nat
  BY <1>1, <1>2, EntryIs, HeardSceneType, LogType
<1> DEFINE n == pos[c]
           left == DueAfter(c)
<1>4. PublisherRight(c, HeardPublisher(c), n + 1, left)
  BY HeardPublisherRight
<1>5. HeardPublisher(c) \in PublisherRec
  BY HeardPublisherRight
<1>6. TypeOK'
  BY <1>1, <1>2, <1>3, <1>5, BecomesIs, LogType DEF TypeOK
<1>7. LogRight'
  BY <1>1, <1>2 DEF LogRight
<1>8. ASSUME NEW d \in Client PROVE PublisherRight(d, Publisher(d)', pos'[d], Due(d)')
  <2>1. pos \in [Client -> 0 .. Len(log)]
    BY <1>1, LogType
  <2>2. CASE d = c
    <3>1. pos'[c] = n + 1
      BY <1>2, <2>1
    <3>2. Due(c)' = left
      <4>1. (n + 1) + 1 = n + 2
        BY <1>3
      <4>2. \A k \in Key : OwnAhead(c, k)' = Beyond(c, k)
        BY <1>2, <3>1, <4>1 DEF OwnAhead, Beyond
      <4> QED
        BY <4>2 DEF Due, DueAfter
    <3>3. Publisher(c)' = HeardPublisher(c)
      BY <1>1, <1>2, <1>3, <1>5, BecomesIs
    <3> QED
      BY <1>4, <2>2, <3>1, <3>2, <3>3
  <2>3. CASE d # c
    <3>1. pos'[d] = pos[d]
      BY <1>2, <2>1, <2>3
    <3>2. Due(d)' = Due(d)
      <4>1. \A k \in Key : OwnAhead(d, k)' = OwnAhead(d, k)
        BY <1>2, <3>1 DEF OwnAhead
      <4> QED
        BY <4>1 DEF Due
    <3>3. Publisher(d)' = Publisher(d)
      BY <1>1, <1>2, <1>3, <1>5, <2>3, BecomesIs
    <3> QED
      BY <1>1, <3>1, <3>2, <3>3
  <2> QED
    BY <2>2, <2>3
<1> QED
  BY <1>6, <1>7, <1>8 DEF BusInv

\* The reflector's stamp.
Stamped(c) == [Head(up[c]) EXCEPT !.seq = Len(log) + 1,
                                  !.seen = IF @ >= Len(log) + 1 THEN (Len(log) + 1) - 1 ELSE @]

\* A stamped mutation is the one that was cast.
LEMMA StampedIs ==
    ASSUME BusInv, NEW c \in Client, up[c] # << >>
    PROVE  /\ Stamped(c) \in Mutation /\ Stamped(c).seq = Len(log) + 1
           /\ Stamped(c).key = up[c][1].key /\ Stamped(c).val = up[c][1].val
           /\ Stamped(c).seen = up[c][1].seen
           /\ Stamped(c).src = c /\ Stamped(c).seen < Len(log) + 1
           /\ (Stamped(c).remove <=> Stamped(c).val = Absent)
           /\ Stamped(c).val \notin TooLarge
           /\ up[c] \in Seq(Mutation) /\ 1 \in DOMAIN up[c]
<1>1. TypeOK /\ PublisherRight(c, Publisher(c), pos[c], Due(c))
  BY DEF BusInv
<1>2. /\ up[c] \in Seq(Mutation) /\ Head(up[c]) \in Mutation /\ Head(up[c]) = up[c][1]
      /\ 1 \in DOMAIN up[c]
  <2>1. up[c] \in Seq(Mutation)
    BY <1>1 DEF TypeOK
  <2>2. Head(up[c]) \in Mutation
    BY <2>1, HeadTailProperties
  <2>3. Len(up[c]) # 0 /\ Len(up[c]) \in Nat /\ DOMAIN up[c] = 1 .. Len(up[c])
    BY <2>1, EmptySeq, LenProperties
  <2> QED
    BY <2>1, <2>2, <2>3
<1>3. WellCast(Head(up[c]), c, pos[c])
  BY <1>1, <1>2 DEF PublisherRight, Publisher
<1>4. Len(log) \in Nat /\ pos[c] \in 0 .. Len(log)
  BY <1>1, LogType
<1> DEFINE m == Head(up[c])
           s == Len(log) + 1
<1>5. /\ m \in Mutation /\ m.src = c /\ (m.remove <=> m.val = Absent)
      /\ m.val \notin TooLarge /\ m.seen <= pos[c] /\ m = up[c][1]
  BY <1>2, <1>3 DEF WellCast
<1> HIDE DEF m
<1>6. m.seen \in Nat /\ ~(m.seen >= s)
  BY <1>4, <1>5 DEF Mutation
<1>7. Stamped(c) = [m EXCEPT !.seq = s, !.seen = m.seen]
  BY <1>5, <1>6 DEF Stamped, m, Mutation
<1>8. /\ Stamped(c) \in Mutation /\ Stamped(c).seq = s /\ Stamped(c).seen = m.seen
      /\ Stamped(c).key = m.key /\ Stamped(c).val = m.val /\ Stamped(c).src = m.src
      /\ Stamped(c).remove = m.remove
  <2>1. m.seq \in Nat /\ s \in Nat
    BY <1>4, <1>5 DEF Mutation
  <2> DEFINE e == [m EXCEPT !.seq = s, !.seen = m.seen]
  <2> HIDE DEF s
  <2>2. e \in Mutation
    BY <1>5, <1>6, <2>1 DEF Mutation
  <2>3. e.seq = s /\ e.seen = m.seen
    BY <1>5 DEF Mutation
  <2>4. e.key = m.key /\ e.val = m.val /\ e.src = m.src
    BY <1>5 DEF Mutation
  <2>5. e.remove = m.remove
    BY <1>5 DEF Mutation
  <2> QED
    BY <1>7, <2>2, <2>3, <2>4, <2>5
<1> QED
  BY <1>2, <1>4, <1>5, <1>6, <1>8

\* A cast goes from its client's bus to the end of the log, where it is still due to it.
LEMMA ReflectBusInv ==
    ASSUME BusInv, NEW c \in Client, Reflect(c)
    PROVE  BusInv'
<1>1. TypeOK /\ LogRight /\ \A d \in Client : PublisherRight(d, Publisher(d), pos[d], Due(d))
  BY DEF BusInv
<1> DEFINE m == Stamped(c)
           n == Len(log)
<1>2. /\ up[c] # << >> /\ log' = Append(log, m) /\ up' = [up EXCEPT ![c] = Tail(@)]
      /\ UNCHANGED <<canvas, base, owed, throttle, dragging, order, pos>>
  BY DEF Reflect, Stamped
<1>3. /\ m \in Mutation /\ m.seq = n + 1 /\ m.src = c /\ m.seen < n + 1 /\ m.key = up[c][1].key
      /\ (m.remove <=> m.val = Absent) /\ m.val \notin TooLarge
      /\ up[c] \in Seq(Mutation) /\ 1 \in DOMAIN up[c]
  BY <1>2, StampedIs
<1> HIDE DEF m
<1>4. /\ log' \in Seq(Mutation) /\ Len(log)' = n + 1 /\ log'[n + 1] = m
      /\ n \in Nat /\ DOMAIN log = 1 .. n /\ DOMAIN log' = 1 .. n + 1
      /\ \A i \in 1 .. n : log'[i] = log[i]
      /\ pos \in [Client -> 0 .. n] /\ pos' = pos
  <2>1. log \in Seq(Mutation) /\ n \in Nat /\ DOMAIN log = 1 .. n /\ pos \in [Client -> 0 .. n]
    BY <1>1, LogType
  <2>2. /\ log' \in Seq(Mutation) /\ Len(log') = n + 1 /\ log'[n + 1] = m
        /\ \A i \in 1 .. n : log'[i] = log[i]
    BY <1>2, <1>3, <2>1, AppendProperties
  <2>3. DOMAIN log' = 1 .. Len(log')
    BY <2>2, LenProperties
  <2> QED
    BY <1>2, <2>1, <2>2, <2>3
<1> HIDE DEF n
<1>5. /\ Tail(up[c]) \in Seq(Mutation) /\ Len(up[c]) \in Nat /\ DOMAIN up[c] = 1 .. Len(up[c])
      /\ DOMAIN Tail(up[c]) = 1 .. Len(up[c]) - 1
      /\ \A i \in 1 .. Len(up[c]) - 1 : Tail(up[c])[i] = up[c][i + 1]
  <2>1. /\ Tail(up[c]) \in Seq(Mutation) /\ Len(Tail(up[c])) = Len(up[c]) - 1
        /\ \A i \in 1 .. Len(up[c]) - 1 : Tail(up[c])[i] = up[c][i + 1]
    BY <1>2, <1>3, HeadTailProperties
  <2> QED
    BY <1>3, <2>1, LenProperties
<1>6. TypeOK'
  <2>1. up' \in [Client -> Seq(Mutation)]
    BY <1>1, <1>2, <1>5 DEF TypeOK
  <2>2. pos' \in [Client -> 0 .. Len(log)']
    BY <1>4
  <2> QED
    BY <1>1, <1>2, <1>4, <2>1, <2>2 DEF TypeOK
<1>7. LogRight'
  <2>1. ASSUME NEW i \in DOMAIN log'
        PROVE  /\ log'[i].seq = i /\ log'[i].seen < i
               /\ (log'[i].remove <=> log'[i].val = Absent)
               /\ log'[i].val \notin TooLarge
    <3>1. CASE i \in 1 .. n
      <4>1. log'[i] = log[i] /\ i \in DOMAIN log
        BY <1>4, <3>1
      <4> QED
        BY <1>1, <4>1 DEF LogRight
    <3>2. CASE i = n + 1
      BY <1>3, <1>4, <3>2
    <3> QED
      BY <1>4, <3>1, <3>2
  <2> QED
    BY <2>1 DEF LogRight
<1>8. ASSUME NEW d \in Client, d # c PROVE PublisherRight(d, Publisher(d)', pos'[d], Due(d)')
  <2>1. Publisher(d)' = Publisher(d)
    BY <1>1, <1>2, <1>8 DEF Publisher, TypeOK
  <2>2. \A k \in Key : OwnAhead(d, k)' = OwnAhead(d, k)
    <3>1. ASSUME NEW k \in Key PROVE OwnAhead(d, k)' = OwnAhead(d, k)
      <4>1. /\ OwnAhead(d, k)' = {i \in pos[d] + 1 .. n + 1 : log'[i].src = d /\ log'[i].key = k}
            /\ OwnAhead(d, k) = {i \in pos[d] + 1 .. n : log[i].src = d /\ log[i].key = k}
        BY <1>4 DEF OwnAhead, n
      <4>2. pos[d] \in 0 .. n
        BY <1>4
      <4>3. \A i \in pos[d] + 1 .. n + 1 : i \in 1 .. n \/ i = n + 1
        BY <1>4, <4>2
      <4>4. \A i \in pos[d] + 1 .. n : i \in 1 .. n /\ i \in pos[d] + 1 .. n + 1
        BY <1>4, <4>2
      <4>5. log'[n + 1].src # d
        BY <1>3, <1>4, <1>8
      <4>6. \A i \in pos[d] + 1 .. n + 1 : i # n + 1 => i \in pos[d] + 1 .. n
        BY <1>4, <4>2
      <4> QED
        BY <1>4, <4>1, <4>3, <4>4, <4>5, <4>6
    <3> QED
      BY <3>1
  <2>3. Due(d)' = Due(d)
    BY <2>2 DEF Due
  <2> QED
    BY <1>1, <1>4, <2>1, <2>3
<1>9. PublisherRight(c, Publisher(c)', pos'[c], Due(c)')
  <2> DEFINE p == Publisher(c)
             q == Publisher(c)'
  <2>1. /\ p \in PublisherRec
        /\ p.order.rebase = FALSE /\ p.order.lastSeq = pos[c]
        /\ \A k \in Key : p.order.seen[k] <= pos[c]
        /\ \A i \in DOMAIN p.up : WellCast(p.up[i], c, pos[c])
        /\ \A k \in Key : p.order.pending[k] = Cardinality(CastsIn(p.up, k)) + Due(c)[k]
    BY <1>1 DEF PublisherRight
  <2>2. /\ p.up = up[c] /\ q.up = Tail(up[c]) /\ q.order = p.order
        /\ q \in PublisherRec
    <3>1. q \in PublisherRec
      BY <1>6, PublisherType DEF TypeOK, Publisher, PublisherRec
    <3> QED
      BY <1>1, <1>2, <3>1 DEF Publisher, TypeOK
  <2> HIDE DEF p, q
  <2>3. \A i \in DOMAIN q.up : WellCast(q.up[i], c, pos[c])
    <3>1. ASSUME NEW i \in 1 .. Len(up[c]) - 1 PROVE i + 1 \in 1 .. Len(up[c])
      BY <1>5
    <3> QED
      BY <1>5, <2>1, <2>2, <3>1
  <2>4. ASSUME NEW k \in Key
        PROVE  p.order.pending[k] = Cardinality(CastsIn(q.up, k)) + Due(c)'[k]
    <3> DEFINE S == CastsIn(up[c], k)
               T == CastsIn(Tail(up[c]), k)
               O == OwnAhead(c, k)
               W == OwnAhead(c, k)'
    <3>1. /\ S \in SUBSET (1 .. Len(up[c])) /\ T \in SUBSET (1 .. Len(up[c]) - 1)
          /\ \A i \in 1 .. Len(up[c]) - 1 : i \in T <=> i + 1 \in S
      <4>1. \A i \in 1 .. Len(up[c]) - 1 : i + 1 \in 1 .. Len(up[c])
        BY <1>5
      <4> QED
        BY <1>5, <4>1 DEF CastsIn
    <3>2. 1 \in S <=> m.key = k
      BY <1>3 DEF CastsIn
    <3>3. /\ O \in SUBSET (1 .. n) /\ W \in SUBSET (1 .. n + 1)
          /\ \A i \in 1 .. n : i \in W <=> i \in O
          /\ n + 1 \in W <=> m.key = k
      <4>1. /\ W = {i \in pos[c] + 1 .. n + 1 : log'[i].src = c /\ log'[i].key = k}
            /\ O = {i \in pos[c] + 1 .. n : log[i].src = c /\ log[i].key = k}
        BY <1>4 DEF OwnAhead, n
      <4>2. pos[c] \in 0 .. n
        BY <1>4
      <4>3. \A i \in 1 .. n : i \in pos[c] + 1 .. n <=> i \in pos[c] + 1 .. n + 1
        BY <1>4, <4>2
      <4>4. n + 1 \in pos[c] + 1 .. n + 1
        BY <1>4, <4>2
      <4>5. pos[c] + 1 .. n \subseteq 1 .. n /\ pos[c] + 1 .. n + 1 \subseteq 1 .. n + 1
        BY <1>4, <4>2
      <4> QED
        BY <1>3, <1>4, <4>1, <4>3, <4>4, <4>5
    <3> HIDE DEF S, T, O, W
    <3>4. /\ Cardinality(T) \in Nat /\ Cardinality(S) \in Nat
          /\ Cardinality(T) = IF 1 \in S THEN Cardinality(S) - 1 ELSE Cardinality(S)
      BY <1>5, <3>1, TailCount
    <3>5. /\ Cardinality(W) \in Nat /\ Cardinality(O) \in Nat
          /\ Cardinality(W) = IF n + 1 \in W THEN Cardinality(O) + 1 ELSE Cardinality(O)
      BY <1>4, <3>3, AppendCount
    <3>6. /\ p.order.pending[k] = Cardinality(S) + Cardinality(O)
          /\ CastsIn(q.up, k) = T
      BY <2>1, <2>2 DEF S, T, O, Due
    <3>7. Due(c)'[k] = Cardinality(W)
      BY DEF Due, W
    <3> QED
      BY <3>2, <3>3, <3>4, <3>5, <3>6, <3>7
  <2>5. PublisherRight(c, q, pos[c], Due(c)')
    BY <2>1, <2>2, <2>3, <2>4 DEF PublisherRight
  <2> QED
    BY <1>4, <2>5 DEF q
<1> QED
  BY <1>6, <1>7, <1>8, <1>9 DEF BusInv

\* Lapse only marks.
LEMMA LapseRight ==
    ASSUME NEW c \in Client, NEW p, NEW n \in Nat, NEW due \in [Key -> Nat],
           PublisherRight(c, p, n, due), NEW k \in Key
    PROVE  PublisherRight(c, [p EXCEPT !.order = Lapse(@, k)], n, due)
<1> DEFINE o == Lapse(p.order, k)
           q == [p EXCEPT !.order = o]
<1>1. p \in PublisherRec /\ p.order \in Order
  BY DEF PublisherRight, PublisherRec
<1>2. o \in Order /\ KeepsOrder(p.order, o) /\ o.pending = p.order.pending
  BY <1>1, LapseFields
<1> HIDE DEF o
<1>3. q \in PublisherRec /\ q.order = o /\ q.up = p.up
  BY <1>1, <1>2 DEF PublisherRec
<1> HIDE DEF q
<1>4. PublisherRight(c, q, n, due)
  BY <1>2, <1>3 DEF PublisherRight, KeepsOrder
<1> QED
  BY <1>4 DEF q, o

\* At the start nothing is pending, and nothing is out.
LEMMA BusInvInit ==
    ASSUME Init
    PROVE  BusInv
<1> USE DEF Init
<1>1. << >> \in Seq(Mutation) /\ Len(<< >>) = 0 /\ Loaded \in Scene /\ NewOrder \in Order
  BY NewOrderType, SyncAssumption, EmptySeq DEF Scene
<1>2. TypeOK
  <2>1. pos \in [Client -> 0 .. Len(log)]
    BY <1>1
  <2> QED
    BY <1>1, <2>1 DEF TypeOK
<1>3. LogRight
  BY DEF LogRight
<1>4. ASSUME NEW c \in Client PROVE PublisherRight(c, Publisher(c), pos[c], Due(c))
  <2>1. Publisher(c) \in PublisherRec
    BY <1>2, PublisherType
  <2>2. Publisher(c).order = NewOrder /\ Publisher(c).up = << >> /\ pos[c] = 0
    BY DEF Publisher
  <2>3. \A k \in Key : CastsIn(<< >>, k) = {} /\ OwnAhead(c, k) = {}
    BY <1>1, <2>2 DEF CastsIn, OwnAhead
  <2>4. Cardinality({}) = 0
    BY FS_EmptySet
  <2>5. /\ NewOrder.rebase = FALSE /\ NewOrder.lastSeq = 0
        /\ \A k \in Key : NewOrder.seen[k] = 0 /\ NewOrder.pending[k] = 0
    BY DEF NewOrder
  <2>6. \A k \in Key : Due(c)[k] = 0
    BY <2>3, <2>4 DEF Due
  <2>7. \A i \in DOMAIN Publisher(c).up : WellCast(Publisher(c).up[i], c, 0)
    BY <2>2
  <2>8. \A k \in Key : Publisher(c).order.pending[k]
                         = Cardinality(CastsIn(Publisher(c).up, k)) + Due(c)[k]
    <3> HIDE DEF Init
    <3>1. ASSUME NEW k \in Key
          PROVE  Publisher(c).order.pending[k]
                     = Cardinality(CastsIn(Publisher(c).up, k)) + Due(c)[k]
      <4>1. CastsIn(Publisher(c).up, k) = {}
        BY <2>2, <2>3
      <4>2. Cardinality(CastsIn(Publisher(c).up, k)) = 0
        BY <4>1, <2>4
      <4>3. Publisher(c).order.pending[k] = 0 /\ Due(c)[k] = 0
        BY <2>2, <2>5, <2>6
      <4> QED
        BY <4>2, <4>3
    <3> QED
      BY <3>1
  <2>9. /\ Publisher(c).order.rebase = FALSE /\ Publisher(c).order.lastSeq = 0
        /\ \A k \in Key : Publisher(c).order.seen[k] <= 0
    BY <2>2, <2>5
  <2> QED
    BY <2>1, <2>2, <2>7, <2>8, <2>9 DEF PublisherRight
<1> QED
  BY <1>2, <1>3, <1>4 DEF BusInv

\* Every step keeps every publisher right.
LEMMA BusInvNext ==
    ASSUME BusInv, [Next]_vars
    PROVE  BusInv'
<1>1. TypeOK /\ \A c \in Client : PublisherRight(c, Publisher(c), pos[c], Due(c))
  BY DEF BusInv
<1>2. ASSUME NEW c \in Client, NEW k \in Key, NEW v \in Val \cup {Absent}, Edit(c, k, v)
      PROVE  BusInv'
  <2> DEFINE scene == [canvas[c] EXCEPT ![k] = v]
             p == Publish(c, scene, dragging[c], Publisher(c))
  <2>1. scene \in Scene /\ dragging[c] \in BOOLEAN
    BY <1>1 DEF TypeOK, Scene
  <2>2. Becomes(c, scene, p) /\ dragging' = dragging /\ log' = log /\ pos' = pos
    BY <1>2 DEF Edit
  <2> HIDE DEF scene
  <2>3. PublisherRight(c, p, pos[c], Due(c))
    BY <1>1, <2>1, PublishRight, LogType, DueType
  <2> HIDE DEF p
  <2> QED
    BY <1>1, <2>1, <2>2, <2>3, LocalStep DEF TypeOK
<1>3. ASSUME NEW c \in Client, NEW k \in Key, TtlLapses(c, k) PROVE BusInv'
  <2> DEFINE p == [Publisher(c) EXCEPT !.order = Lapse(@, k)]
  <2>1. Becomes(c, canvas[c], p)
    BY <1>1, <1>3 DEF TtlLapses, Becomes, Publisher, TypeOK
  <2>2. dragging' = dragging /\ log' = log /\ pos' = pos
    BY <1>3 DEF TtlLapses
  <2>3. PublisherRight(c, p, pos[c], Due(c))
    BY <1>1, LapseRight, LogType, DueType
  <2> HIDE DEF p
  <2> QED
    BY <1>1, <2>1, <2>2, <2>3, LocalStep, PublisherType DEF TypeOK
<1>4. ASSUME NEW c \in Client, DragStart(c) PROVE BusInv'
  <2>1. /\ dragging' \in [Client -> BOOLEAN]
        /\ UNCHANGED <<canvas, base, owed, throttle, order, up, log, pos>>
    BY <1>1, <1>4 DEF DragStart, TypeOK
  <2>2. TypeOK' /\ LogRight'
    BY <2>1 DEF BusInv, TypeOK, LogRight
  <2>3. \A d \in Client : Publisher(d)' = Publisher(d) /\ Due(d)' = Due(d)
    BY <2>1 DEF Publisher, Due, OwnAhead
  <2> QED
    BY <1>1, <2>1, <2>2, <2>3 DEF BusInv
<1>5. ASSUME NEW c \in Client, DragStop(c) PROVE BusInv'
  <2> DEFINE p == Publish(c, canvas[c], FALSE, Publisher(c))
  <2>1. Becomes(c, canvas[c], p) /\ dragging' \in [Client -> BOOLEAN] /\ log' = log /\ pos' = pos
    BY <1>1, <1>5 DEF DragStop, TypeOK
  <2>2. PublisherRight(c, p, pos[c], Due(c))
    BY <1>1, PublishRight, LogType, DueType, PublisherType
  <2> HIDE DEF p
  <2> QED
    BY <1>1, <2>1, <2>2, LocalStep, PublisherType
<1>6. ASSUME NEW c \in Client, TimerFires(c) PROVE BusInv'
  <2> DEFINE q == IF Publisher(c).throttle = "frame" THEN Emit(c, canvas[c], Publisher(c))
                  ELSE Publisher(c)
             p == [q EXCEPT !.throttle = "idle"]
  <2>1. Becomes(c, canvas[c], p) /\ dragging' = dragging /\ log' = log /\ pos' = pos
    BY <1>6 DEF TimerFires
  <2>2. PublisherRight(c, q, pos[c], Due(c))
    BY <1>1, EmitIs, EmitRight, LogType, DueType, PublisherType
  <2> HIDE DEF q
  <2>3. PublisherRight(c, p, pos[c], Due(c))
    BY <2>2 DEF PublisherRight, PublisherRec
  <2> HIDE DEF p
  <2> QED
    BY <1>1, <2>1, <2>3, LocalStep, PublisherType DEF TypeOK
<1>7. ASSUME NEW c \in Client, Reflect(c) PROVE BusInv'
  BY <1>7, ReflectBusInv
<1>8. ASSUME NEW c \in Client, Hear(c) PROVE BusInv'
  BY <1>8, HearBusInv
<1>9. ASSUME UNCHANGED vars PROVE BusInv'
  <2>1. TypeOK' /\ LogRight'
    BY <1>9 DEF BusInv, vars, TypeOK, LogRight
  <2>2. \A d \in Client : Publisher(d)' = Publisher(d) /\ Due(d)' = Due(d) /\ pos'[d] = pos[d]
    BY <1>9 DEF vars, Publisher, Due, OwnAhead
  <2> QED
    BY <1>1, <2>1, <2>2 DEF BusInv
<1> QED
  <2>1. \A e \in Edits : e[1] \in Key /\ e[2] \in Val \cup {Absent}
    BY SyncAssumption
  <2> QED
    BY <1>2, <1>3, <1>4, <1>5, <1>6, <1>7, <1>8, <1>9, <2>1 DEF Next

LEMMA BusInvAlways == Spec => []BusInv
  BY BusInvInit, BusInvNext, PTL DEF Spec

\* Every variable keeps its type: canvases, baselines, orders, buses and the log.
THEOREM TypeCorrect == Spec => []TypeOK
<1>1. BusInv => TypeOK
  BY DEF BusInv
<1> QED
  BY <1>1, BusInvAlways, PTL

\* PendingMatchesBus, for any clients, keys and edits, with drags, lapses and casts the record
\* has forgotten: a key is pending for exactly as many casts as are on the bus.
THEOREM PendingIsOnTheBus == Spec => []PendingMatchesBus
<1>1. ASSUME BusInv PROVE PendingMatchesBus
  <2>1. ASSUME NEW c \in Client, NEW k \in Key PROVE order[c].pending[k] = OnTheBus(c, k)
    <3>1. Publisher(c).order.pending[k] = Cardinality(CastsIn(Publisher(c).up, k)) + Due(c)[k]
      BY <1>1 DEF BusInv, PublisherRight
    <3> QED
      BY <3>1 DEF Publisher, CastsIn, Due, OwnAhead, OnTheBus
  <2> QED
    BY <2>1 DEF PendingMatchesBus
<1> QED
  BY <1>1, BusInvAlways, PTL

-------------------------------------------------------------------------------
(* What is refused.  A client that never drags never waits for a frame: what its canvas
   shows and its baseline does not is owed, and the baseline only holds what fits.
   (A dragger's frame may be dropped by an adopt that takes the dragged value for one the
   peers have: the run sync_drag.)                                             *)

LoadedFits == \A k \in Key : Loaded[k] \notin TooLarge

BaseFits(p) == LoadedFits => \A k \in Key : p.base[k] \notin TooLarge

\* scene is the canvas that the publisher p has last been shown.
PublisherFits(scene, p) ==
    /\ p \in PublisherRec
    /\ p.throttle = "idle"
    /\ BaseFits(p)
    /\ \A k \in Key \ p.owed : scene[k] = p.base[k]

\* What a publisher becomes is a publisher.
LEMMA PublishType ==
    ASSUME NEW c \in Client, NEW scene \in Scene, NEW p \in PublisherRec, NEW throttled \in BOOLEAN
    PROVE  Publish(c, scene, throttled, p) \in PublisherRec
<1> DEFINE e == Emit(c, scene, p)
<1>1. e \in PublisherRec
  BY EmitIs DEF EmitOutcome
<1>2. Publish(c, scene, throttled, p) =
          IF throttled /\ p.throttle # "idle" THEN [p EXCEPT !.throttle = "frame"]
          ELSE [e EXCEPT !.throttle = IF throttled THEN "armed" ELSE "idle"]
  BY DEF Publish
<1> HIDE DEF e
<1> QED
  BY <1>1, <1>2 DEF PublisherRec

\* Whatever it was shown before.
LEMMA PublishFits ==
    ASSUME NEW c \in Client, NEW scene \in Scene, NEW p \in PublisherRec, BaseFits(p)
    PROVE  PublisherFits(scene, Publish(c, scene, FALSE, p))
<1> DEFINE e == Emit(c, scene, p)
<1>1. EmitOutcome(c, scene, p, e)
  BY EmitIs
<1>2. Publish(c, scene, FALSE, p) = [e EXCEPT !.throttle = "idle"]
  BY DEF Publish
<1> HIDE DEF e
<1>3. /\ e \in PublisherRec
      /\ e.base = [k \in Key |-> IF k \in HeldKeys(scene, p) THEN p.base[k] ELSE scene[k]]
      /\ e.owed = {k \in (p.owed \ SentKeys(scene, p)) \cup HeldKeys(scene, p) : scene[k] # Absent}
  BY <1>1 DEF EmitOutcome
<1>4. ASSUME NEW k \in Key
      PROVE  (LoadedFits => e.base[k] \notin TooLarge) /\ (k \notin e.owed => scene[k] = e.base[k])
  <2>1. CASE k \in HeldKeys(scene, p)
    <3>1. e.base[k] = p.base[k] /\ scene[k] # Absent
      BY <1>3, <2>1 DEF HeldKeys, Castable
    <3> QED
      BY <1>3, <2>1, <3>1 DEF BaseFits
  <2>2. CASE k \notin HeldKeys(scene, p)
    <3>1. e.base[k] = scene[k]
      BY <1>3, <2>2
    <3>2. scene[k] = p.base[k] \/ scene[k] = Absent \/ scene[k] \notin TooLarge
      BY <2>2 DEF HeldKeys, Castable
    <3> QED
      BY <3>1, <3>2, SyncAssumption DEF BaseFits
  <2> QED
    BY <2>1, <2>2
<1> DEFINE q == [e EXCEPT !.throttle = "idle"]
<1>5. q \in PublisherRec /\ q.throttle = "idle" /\ q.base = e.base /\ q.owed = e.owed
  BY <1>3 DEF PublisherRec
<1> HIDE DEF q
<1>6. PublisherFits(scene, q)
  BY <1>4, <1>5 DEF PublisherFits, BaseFits
<1> QED
  BY <1>2, <1>6 DEF q

\* What a peer sent has been found to fit.
LEMMA AdoptFits ==
    ASSUME NEW scene \in Scene, NEW p \in PublisherRec, p.throttle = "idle", BaseFits(p),
           LoadedFits => \A k \in Key \ p.owed : scene[k] \notin TooLarge
    PROVE  PublisherFits(scene, Adopt(scene, p))
<1> DEFINE keep  == {k \in p.owed : scene[k] # Absent}
           based == [k \in Key |-> IF k \in keep THEN p.base[k] ELSE scene[k]]
           q     == [p EXCEPT !.base = based, !.throttle = "idle"]
<1>1. based \in Scene
  BY PublisherFields DEF Scene
<1>2. Adopt(scene, p) = q
  BY DEF Adopt, PublisherRec
<1>3. \A k \in Key : /\ LoadedFits => based[k] \notin TooLarge
                     /\ k \notin p.owed => scene[k] = based[k]
  BY SyncAssumption DEF BaseFits
<1> HIDE DEF based
<1>4. q \in PublisherRec /\ q.throttle = "idle" /\ q.base = based /\ q.owed = p.owed
  BY <1>1 DEF PublisherRec
<1> HIDE DEF q
<1> QED
  BY <1>2, <1>3, <1>4 DEF PublisherFits, BaseFits

\* The publishers of those who never drag.
FitsInv == \A c \in Client \ Draggers :
               dragging[c] = FALSE /\ PublisherFits(canvas[c], Publisher(c))

\* A step of c that becomes a canvas its publisher fits.
LEMMA FitsStep ==
    ASSUME TypeOK, FitsInv, NEW c \in Client, NEW scene \in Scene, NEW p \in PublisherRec,
           Becomes(c, scene, p), c \notin Draggers => PublisherFits(scene, p),
           \A d \in Client \ Draggers : dragging'[d] = dragging[d]
    PROVE  FitsInv'
<1>1. /\ canvas' = [canvas EXCEPT ![c] = scene] /\ Publisher(c)' = p
      /\ \A d \in Client \ {c} : Publisher(d)' = Publisher(d)
  BY BecomesIs
<1>2. canvas'[c] = scene /\ \A d \in Client \ {c} : canvas'[d] = canvas[d]
  BY <1>1 DEF TypeOK
<1>3. ASSUME NEW d \in Client \ Draggers
      PROVE  dragging'[d] = FALSE /\ PublisherFits(canvas'[d], Publisher(d)')
  <2>1. CASE d = c
    BY <1>1, <1>2, <2>1 DEF FitsInv
  <2>2. CASE d # c
    BY <1>1, <1>2, <2>2 DEF FitsInv
  <2> QED
    BY <2>1, <2>2
<1> QED
  BY <1>3 DEF FitsInv

\* Hearing an entry, which fits.
LEMMA HearFits ==
    ASSUME BusInv, NEW c \in Client \ Draggers, Hear(c),
           dragging[c] = FALSE, PublisherFits(canvas[c], Publisher(c))
    PROVE  HeardPublisher(c) \in PublisherRec /\ PublisherFits(HeardScene(c), HeardPublisher(c))
<1> DEFINE p == HeardBy(Publisher(c), Entry(c), c)
           s == HeardScene(c)
<1>1. TypeOK /\ LogRight /\ c \in Client /\ pos[c] < Len(log)
  BY HearIs DEF BusInv
<1>2. /\ Entry(c) \in Mutation /\ Entry(c).seq = pos[c] + 1 /\ pos[c] \in Nat
      /\ Entry(c).key \in Key /\ Entry(c).val \notin TooLarge
      /\ s \in Scene /\ canvas[c] \in Scene /\ Publisher(c) \in PublisherRec
  BY <1>1, EntryIs, HeardSceneType, PublisherType
<1>3. p \in PublisherRec /\ p.base = Publisher(c).base /\ p.owed = Publisher(c).owed
      /\ p.throttle = Publisher(c).throttle
  <2> DEFINE q == Accepted(Publisher(c).order, Entry(c), c)
  <2>1. Publisher(c).order \in Order /\ Entry(c).seq \in Nat \ {0}
    BY <1>2, PublisherFields
  <2>2. AcceptedOutcome(Publisher(c).order, Entry(c), c, q)
    BY <1>2, <2>1, AcceptedFields
  <2> HIDE DEF q
  <2>3. q \in Order
    BY <2>2 DEF AcceptedOutcome
  <2>4. p = [Publisher(c) EXCEPT !.order = q]
    BY DEF HeardBy, q
  <2> QED
    BY <1>2, <2>3, <2>4 DEF PublisherRec
<1>4. /\ p.throttle = "idle" /\ BaseFits(p)
      /\ \A k \in Key \ p.owed : canvas[c][k] = p.base[k]
  BY <1>3 DEF PublisherFits, BaseFits
<1>5. \A k \in Key : s[k] = canvas[c][k] \/ s[k] = Entry(c).val
  BY <1>2 DEF HeardScene, Scene
<1> DEFINE a == Adopted(c)
           f == Freed(c)
           h == HeardPublisher(c)
<1> HIDE DEF p, s
<1>6. PublisherFits(s, a)
  <2>1. CASE s # canvas[c]
    <3>1. LoadedFits => \A k \in Key \ p.owed : s[k] \notin TooLarge
      BY <1>2, <1>4, <1>5 DEF BaseFits
    <3>2. a = Adopt(s, p)
      BY <2>1 DEF Adopted, s, p
    <3> QED
      BY <1>2, <1>3, <1>4, <3>1, <3>2, AdoptFits
  <2>2. CASE s = canvas[c]
    <3>1. a = p
      BY <2>2 DEF Adopted, s, p
    <3> QED
      BY <1>3, <1>4, <2>2, <3>1 DEF PublisherFits
  <2> QED
    BY <2>1, <2>2
<1>7. f = ReleaseHeld(c, s, order[c], a)
  BY DEF Freed, s
<1>8. h = IF s # canvas[c] THEN Publish(c, s, dragging[c], f) ELSE f
  BY DEF HeardPublisher, s
<1> HIDE DEF a, f, h
<1>9. PublisherFits(s, f)
  <2>1. a \in PublisherRec /\ BaseFits(a)
    BY <1>6 DEF PublisherFits
  <2>2. PublisherFits(s, Publish(c, s, FALSE, a))
    BY <1>1, <1>2, <2>1, PublishFits
  <2> QED
    BY <1>6, <1>7, <2>2 DEF ReleaseHeld
<1>10. PublisherFits(s, h)
  <2>1. f \in PublisherRec /\ BaseFits(f)
    BY <1>9 DEF PublisherFits
  <2>2. PublisherFits(s, Publish(c, s, FALSE, f))
    BY <1>1, <1>2, <2>1, PublishFits
  <2> QED
    BY <1>8, <1>9, <2>2
<1> QED
  BY <1>10 DEF PublisherFits, s, h

\* They fit at the start ...
LEMMA FitsInvInit ==
    ASSUME Init
    PROVE  FitsInv
<1>1. TypeOK
  BY BusInvInit DEF BusInv
<1>2. ASSUME NEW c \in Client \ Draggers
      PROVE  dragging[c] = FALSE /\ PublisherFits(canvas[c], Publisher(c))
  <2>1. Publisher(c) \in PublisherRec
    BY <1>1, PublisherType
  <2>2. /\ Publisher(c).throttle = "idle" /\ Publisher(c).base = Loaded /\ Publisher(c).owed = {}
        /\ canvas[c] = Loaded /\ dragging[c] = FALSE
    BY DEF Init, Publisher
  <2> QED
    BY <2>1, <2>2 DEF PublisherFits, BaseFits, LoadedFits
<1> QED
  BY <1>2 DEF FitsInv

\* ... and after every step.
LEMMA FitsInvNext ==
    ASSUME BusInv, FitsInv, [Next]_vars
    PROVE  FitsInv'
<1>1. TypeOK /\ \A c \in Client : Publisher(c) \in PublisherRec /\ canvas[c] \in Scene
  BY PublisherType DEF BusInv
<1>2. \A c \in Client \ Draggers :
          dragging[c] = FALSE /\ PublisherFits(canvas[c], Publisher(c)) /\ BaseFits(Publisher(c))
  BY DEF FitsInv, PublisherFits
<1>3. ASSUME NEW c \in Client, NEW k \in Key, NEW v \in Val \cup {Absent}, Edit(c, k, v)
      PROVE  FitsInv'
  <2> DEFINE scene == [canvas[c] EXCEPT ![k] = v]
             p == Publish(c, scene, dragging[c], Publisher(c))
  <2>1. scene \in Scene /\ dragging[c] \in BOOLEAN
    BY <1>1 DEF TypeOK, Scene
  <2>2. Becomes(c, scene, p) /\ dragging' = dragging
    BY <1>3 DEF Edit
  <2> HIDE DEF scene
  <2>3. p \in PublisherRec
    BY <1>1, <2>1, PublishType
  <2>4. c \notin Draggers => PublisherFits(scene, p)
    BY <1>1, <1>2, <2>1, PublishFits
  <2> HIDE DEF p
  <2> QED
    BY <1>1, <2>1, <2>2, <2>3, <2>4, FitsStep
<1>4. ASSUME NEW c \in Client, NEW k \in Key, TtlLapses(c, k) PROVE FitsInv'
  <2> DEFINE p == [Publisher(c) EXCEPT !.order = Lapse(@, k)]
  <2>1. Becomes(c, canvas[c], p) /\ dragging' = dragging
    BY <1>1, <1>4 DEF TtlLapses, Becomes, Publisher, TypeOK
  <2>2. p \in PublisherRec
    <3> DEFINE o == Lapse(Publisher(c).order, k)
    <3>1. o \in Order
      BY <1>1, PublisherFields, LapseFields
    <3> HIDE DEF o
    <3>2. p = [Publisher(c) EXCEPT !.order = o]
      BY DEF o
    <3> QED
      BY <1>1, <3>1, <3>2 DEF PublisherRec
  <2>3. p.throttle = Publisher(c).throttle /\ p.base = Publisher(c).base /\ p.owed = Publisher(c).owed
    BY <1>1 DEF PublisherRec
  <2> HIDE DEF p
  <2>4. c \notin Draggers => PublisherFits(canvas[c], p)
    BY <1>2, <2>2, <2>3 DEF PublisherFits, BaseFits
  <2> QED
    BY <1>1, <2>1, <2>2, <2>4, FitsStep
<1>5. ASSUME NEW c \in Client, DragStart(c) PROVE FitsInv'
  <2>1. c \in Draggers /\ dragging' = [dragging EXCEPT ![c] = TRUE]
        /\ UNCHANGED <<canvas, base, owed, throttle, order, up, log, pos>>
    BY <1>5 DEF DragStart
  <2>2. \A d \in Client \ Draggers : dragging'[d] = FALSE /\ Publisher(d)' = Publisher(d)
    BY <1>1, <1>2, <2>1 DEF TypeOK, Publisher
  <2> QED
    BY <1>2, <2>1, <2>2 DEF FitsInv
<1>6. ASSUME NEW c \in Client, DragStop(c) PROVE FitsInv'
  <2> DEFINE p == Publish(c, canvas[c], FALSE, Publisher(c))
  <2>1. /\ Becomes(c, canvas[c], p) /\ c \in Draggers
        /\ \A d \in Client \ Draggers : dragging'[d] = dragging[d]
    BY <1>1, <1>2, <1>6 DEF DragStop, TypeOK
  <2>2. p \in PublisherRec
    BY <1>1, PublishType
  <2> HIDE DEF p
  <2> QED
    BY <1>1, <2>1, <2>2, FitsStep
<1>7. ASSUME NEW c \in Client, TimerFires(c) PROVE FitsInv'
  <2> DEFINE q == IF Publisher(c).throttle = "frame" THEN Emit(c, canvas[c], Publisher(c))
                  ELSE Publisher(c)
             p == [q EXCEPT !.throttle = "idle"]
  <2>1. Becomes(c, canvas[c], p) /\ dragging' = dragging /\ throttle[c] # "idle"
    BY <1>7 DEF TimerFires
  <2>2. c \in Draggers
    BY <1>2, <2>1 DEF PublisherFits, Publisher
  <2>3. q \in PublisherRec
    BY <1>1, EmitIs DEF EmitOutcome
  <2> HIDE DEF q
  <2>4. p \in PublisherRec
    BY <2>3 DEF PublisherRec
  <2> HIDE DEF p
  <2> QED
    BY <1>1, <2>1, <2>2, <2>4, FitsStep
<1>8. ASSUME NEW c \in Client, Reflect(c) PROVE FitsInv'
  <2>1. /\ up' = [up EXCEPT ![c] = Tail(@)]
        /\ UNCHANGED <<canvas, base, owed, throttle, dragging, order, pos>>
    BY <1>8 DEF Reflect
  <2>2. TypeOK'
    BY <1>8, ReflectBusInv DEF BusInv
  <2>3. ASSUME NEW d \in Client \ Draggers PROVE PublisherFits(canvas'[d], Publisher(d)')
    <3>1. Publisher(d)' \in PublisherRec
      BY <2>2, PublisherType DEF TypeOK, Publisher, PublisherRec
    <3>2. /\ Publisher(d)'.throttle = Publisher(d).throttle
          /\ Publisher(d)'.base = Publisher(d).base /\ Publisher(d)'.owed = Publisher(d).owed
      BY <2>1 DEF Publisher
    <3> QED
      BY <1>2, <2>1, <3>1, <3>2 DEF PublisherFits, BaseFits
  <2> QED
    BY <1>2, <2>1, <2>3 DEF FitsInv
<1>9. ASSUME NEW c \in Client, Hear(c) PROVE FitsInv'
  <2>1. Becomes(c, HeardScene(c), HeardPublisher(c)) /\ dragging' = dragging
        /\ pos[c] < Len(log)
    BY <1>9, HearIs
  <2>2. HeardScene(c) \in Scene
    BY <1>1, <2>1, HeardSceneType DEF BusInv
  <2>3. c \notin Draggers => PublisherFits(HeardScene(c), HeardPublisher(c))
    BY <1>2, <1>9, HearFits
  <2>4. HeardPublisher(c) \in PublisherRec
    BY <1>9, HeardPublisherRight
  <2> QED
    BY <1>1, <2>1, <2>2, <2>3, <2>4, FitsStep
<1>10. ASSUME UNCHANGED vars PROVE FitsInv'
  BY <1>2, <1>10 DEF FitsInv, vars, Publisher
<1> QED
  <2>1. \A e \in Edits : e[1] \in Key /\ e[2] \in Val \cup {Absent}
    BY SyncAssumption
  <2> QED
    BY <1>3, <1>4, <1>5, <1>6, <1>7, <1>8, <1>9, <1>10, <2>1 DEF Next

LEMMA FitsInvAlways == Spec => []FitsInv
<1>1. Init => FitsInv
  BY FitsInvInit
<1>2. BusInv /\ FitsInv /\ [Next]_vars => FitsInv'
  BY FitsInvNext
<1> QED
  BY <1>1, <1>2, BusInvAlways, PTL DEF Spec

\* RefusedStaysDue, for clients that load what fits and do not drag: whatever a peer sends and
\* adopt takes over, a value the reflector would refuse stays owed and out of the baseline.
THEOREM RefusedIsStillDue == LoadedFits /\ Draggers = {} => (Spec => []RefusedStaysDue)
<1> SUFFICES ASSUME LoadedFits, Draggers = {} PROVE Spec => []RefusedStaysDue
  OBVIOUS
<1>1. ASSUME FitsInv PROVE RefusedStaysDue
  <2>1. ASSUME NEW c \in Client, NEW k \in Key, canvas[c][k] \in TooLarge
        PROVE  k \in owed[c] /\ base[c][k] # canvas[c][k]
    <3>1. PublisherFits(canvas[c], Publisher(c))
      BY <1>1 DEF FitsInv
    <3> QED
      BY <2>1, <3>1 DEF PublisherFits, BaseFits, Publisher
  <2> QED
    BY <2>1 DEF RefusedStaysDue
<1> QED
  BY <1>1, FitsInvAlways, PTL

-------------------------------------------------------------------------------
(* The log's verdict.                                                          *)

Board == [Key -> [val : Val \cup {Absent}, removed : Nat]]
Blank == [k \in Key |-> [val |-> Loaded[k], removed |-> 0]]

\* Replica!Verdict of a log l.
VerdictOf(l, n) ==
    LET upTo[i \in 0 .. n] == IF i = 0 THEN Blank ELSE Replica!Judge(upTo[i - 1], l[i])
    IN  upTo[n]

\* The replica's verdict is that of the log.
LEMMA VerdictIs ==
    ASSUME NEW n
    PROVE  Replica!Verdict(n) = VerdictOf(log, n) /\ Replica!Verdict(n)' = VerdictOf(log', n')
  BY DEF Replica!Verdict, VerdictOf, Blank

\* A verdict judged on is a verdict.
LEMMA JudgeType ==
    ASSUME NEW v \in Board, NEW m \in Mutation
    PROVE  Replica!Judge(v, m) \in Board
<1>1. m.key \in Key /\ m.val \in Val \cup {Absent} /\ m.seq \in Nat /\ 0 \in Nat
  BY DEF Mutation
<1>2. /\ [val |-> Absent, removed |-> m.seq] \in [val : Val \cup {Absent}, removed : Nat]
      /\ [val |-> m.val, removed |-> 0] \in [val : Val \cup {Absent}, removed : Nat]
  BY <1>1
<1> QED
  BY <1>1, <1>2 DEF Replica!Judge, Board

\* f is the way to l's verdict on its first n entries.
VerdictWay(f, l, n) == /\ f \in [0 .. n -> Board]
                       /\ f[0] = Blank
                       /\ \A i \in 1 .. n : f[i] = Replica!Judge(f[i - 1], l[i])
                       /\ f[n] = VerdictOf(l, n)

\* The way is there for every log.
LEMMA VerdictUnfolds ==
    ASSUME NEW l \in Seq(Mutation), NEW n \in 0 .. Len(l)
    PROVE  \E f : VerdictWay(f, l, n)
<1> DEFINE X == Board
           step(v, i) == Replica!Judge(v, l[i])
           g == [i \in 1 .. n |-> [v \in X |-> step(v, i)]]
           along(f) == [i \in 0 .. n |-> IF i = 0 THEN Blank ELSE step(f[i - 1], i)]
           F == CHOOSE f : f = along(f)
<1>1. n \in Nat /\ Blank \in X /\ \A i \in 1 .. n : \A v \in X : step(v, i) \in X
  <2>1. Len(l) \in Nat /\ n \in Nat
    BY LenProperties
  <2>2. \A i \in 1 .. n : l[i] \in Mutation
    BY <2>1, ElementOfSeq
  <2>3. Blank \in X
    BY SyncAssumption DEF Blank, Board
  <2> QED
    BY <2>1, <2>2, <2>3, JudgeType
<1>2. VerdictOf(l, n) = F[n]
  BY DEF VerdictOf
<1> HIDE DEF X, step
<1>3. g \in Steps(n, X)
  BY <1>1 DEF Steps
<1>4. PICK f : IsWay(f, n, X, Blank, g)
  <2> HIDE DEF g
  <2> QED
    BY <1>1, <1>3, Iterates
<1>5. f \in [0 .. n -> X] /\ f[0] = Blank /\ \A i \in 1 .. n : f[i] = g[i][f[i - 1]]
  BY <1>4 DEF IsWay
<1>6. \A i \in 1 .. n : f[i - 1] \in X /\ f[i] = step(f[i - 1], i)
  BY <1>1, <1>5
<1>7. f = along(f)
  <2>1. \A i \in 0 .. n : f[i] = along(f)[i]
    BY <1>1, <1>5, <1>6
  <2> QED
    BY <2>1, <1>5
<1>8. F = along(F)
  <2> HIDE DEF along
  <2> QED
    BY <1>7
<1> HIDE DEF F
<1>9. F[0] = Blank /\ \A i \in 1 .. n : F[i] = step(F[i - 1], i)
  <2>1. \A i \in 0 .. n : F[i] = along(F)[i]
    BY <1>8
  <2>2. \A i \in 0 .. n : F[i] = IF i = 0 THEN Blank ELSE step(F[i - 1], i)
    BY <2>1
  <2> QED
    BY <2>2, <1>1
<1>10. F \in [0 .. n -> X]
  <2> DEFINE G == {i \in 0 .. n : F[i] \in X}
  <2>1. 0 \in G /\ G \in SUBSET (0 .. n)
    BY <1>1, <1>9
  <2>2. ASSUME NEW i \in 1 .. n, i - 1 \in G PROVE i \in G
    BY <1>1, <1>9, <2>2
  <2> HIDE DEF G
  <2>3. G = 0 .. n
    BY <1>1, <2>1, <2>2, Along
  <2>4. \A i \in 0 .. n : F[i] \in X
    BY <2>3 DEF G
  <2>5. F = [i \in 0 .. n |-> F[i]]
    <3> HIDE DEF X
    <3>1. along(F) = [i \in 0 .. n |-> along(F)[i]]
      OBVIOUS
    <3> QED
      BY <1>8, <3>1
  <2> QED
    BY <2>4, <2>5
<1>11. VerdictWay(F, l, n)
  BY <1>2, <1>9, <1>10 DEF VerdictWay, X, step
<1> QED
  BY <1>11

\* Logs that agree on their first n entries have one verdict on them.
LEMMA VerdictAgrees ==
    ASSUME NEW l \in Seq(Mutation), NEW m \in Seq(Mutation), NEW n \in Nat,
           NEW i \in 0 .. Len(l), NEW j \in 0 .. Len(m), n <= i, n <= j,
           \A x \in 1 .. n : l[x] = m[x],
           NEW f, VerdictWay(f, l, i), NEW g, VerdictWay(g, m, j)
    PROVE  f[n] = g[n]
<1> DEFINE G == {x \in 0 .. n : f[x] = g[x]}
<1>1. Len(l) \in Nat /\ Len(m) \in Nat
  BY LenProperties
<1>2. 0 \in G /\ G \in SUBSET (0 .. n)
  BY <1>1 DEF VerdictWay
<1>3. ASSUME NEW x \in 1 .. n, x - 1 \in G PROVE x \in G
  <2>1. x \in 1 .. i /\ x \in 1 .. j /\ x \in 0 .. n
    BY <1>1
  <2>2. f[x] = Replica!Judge(f[x - 1], l[x]) /\ g[x] = Replica!Judge(g[x - 1], m[x])
    BY <2>1 DEF VerdictWay
  <2>3. f[x - 1] = g[x - 1] /\ l[x] = m[x]
    BY <1>3
  <2> QED
    BY <2>1, <2>2, <2>3
<1> HIDE DEF G
<1>4. G = 0 .. n
  BY <1>2, <1>3, Along
<1> QED
  BY <1>4 DEF G

\* What one more entry does, and that a log that grows keeps its verdicts.
LEMMA VerdictStep ==
    ASSUME NEW l \in Seq(Mutation), NEW n \in Nat, n < Len(l)
    PROVE  /\ VerdictOf(l, n) \in Board
           /\ VerdictOf(l, n + 1) = Replica!Judge(VerdictOf(l, n), l[n + 1])
<1>1. n \in 0 .. Len(l) /\ n + 1 \in 0 .. Len(l) /\ n + 1 \in 1 .. n + 1 /\ (n + 1) - 1 = n
  BY LenProperties
<1>2. PICK f : VerdictWay(f, l, n)
  BY <1>1, VerdictUnfolds
<1>3. PICK g : VerdictWay(g, l, n + 1)
  BY <1>1, VerdictUnfolds
<1>4. f[n] = g[n]
  <2>1. n <= n /\ n <= n + 1 /\ \A x \in 1 .. n : l[x] = l[x]
    OBVIOUS
  <2> QED
    BY <1>1, <1>2, <1>3, <2>1, VerdictAgrees
<1>5. f[n] = VerdictOf(l, n) /\ f[n] \in Board
  BY <1>1, <1>2 DEF VerdictWay
<1>6. g[n + 1] = VerdictOf(l, n + 1) /\ g[n + 1] = Replica!Judge(g[n], l[n + 1])
  BY <1>1, <1>3 DEF VerdictWay
<1> QED
  BY <1>4, <1>5, <1>6

\* ... as does one that grows.
LEMMA VerdictStays ==
    ASSUME NEW l \in Seq(Mutation), NEW m \in Mutation, NEW n \in 0 .. Len(l)
    PROVE  VerdictOf(Append(l, m), n) = VerdictOf(l, n) /\ VerdictOf(l, n) \in Board
<1> DEFINE w == Append(l, m)
<1>1. /\ w \in Seq(Mutation) /\ Len(w) = Len(l) + 1 /\ Len(l) \in Nat
      /\ \A x \in 1 .. Len(l) : w[x] = l[x]
  BY AppendProperties, LenProperties
<1> HIDE DEF w
<1>2. n \in Nat /\ n \in 0 .. Len(w) /\ \A x \in 1 .. n : w[x] = l[x]
  BY <1>1
<1>3. PICK f : VerdictWay(f, l, n)
  BY VerdictUnfolds
<1>4. PICK g : VerdictWay(g, w, n)
  BY <1>1, <1>2, VerdictUnfolds
<1>5. g[n] = f[n]
  <2>1. n <= n
    BY <1>2
  <2> QED
    BY <1>1, <1>2, <1>3, <1>4, <2>1, VerdictAgrees
<1> QED
  BY <1>2, <1>3, <1>4, <1>5 DEF VerdictWay, w

\* Before anything is heard.
LEMMA VerdictBlank ==
    ASSUME NEW l \in Seq(Mutation)
    PROVE  VerdictOf(l, 0) = Blank
<1>1. 0 \in 0 .. Len(l)
  BY LenProperties
<1>2. PICK f : VerdictWay(f, l, 0)
  BY <1>1, VerdictUnfolds
<1> QED
  BY <1>2 DEF VerdictWay

-------------------------------------------------------------------------------
(* Tombstones: every client has buried exactly what the log it has heard has.  There is
   room for one tombstone per key, so none is evicted, and the keys of a board's order are
   never removed, as the desktop never does.                                   *)

OrderKept == \A k \in OrderKey : Loaded[k] # Absent /\ <<k, Absent>> \notin Edits

KeptScene(scene) == \A k \in OrderKey : scene[k] # Absent
KeptCasts(casts) == \A i \in DOMAIN casts : casts[i].key \in OrderKey => casts[i].val # Absent

Tombs(p, v) == /\ p \in PublisherRec
               /\ IsInjective(p.order.noted)
               /\ \A k \in Key : p.order.removed[k] = v[k].removed
               /\ KeptCasts(p.up)

VerdictSound(v, n) == /\ v \in Board
                      /\ \A k \in Key : /\ v[k].removed <= n
                                        /\ v[k].removed > 0 => v[k].val = Absent
                                        /\ k \in OrderKey => v[k].removed = 0

\* What is cast is on the canvas.
LEMMA EmitTombs ==
    ASSUME NEW c \in Client, NEW scene \in Scene, NEW p, NEW v, Tombs(p, v), KeptScene(scene),
           NEW e, EmitOutcome(c, scene, p, e)
    PROVE  Tombs(e, v)
<1>1. p \in PublisherRec /\ e \in PublisherRec
  BY DEF Tombs, EmitOutcome
<1>2. PICK batch \in Seq(Key) : /\ IsInjective(batch) /\ ToSet(batch) = SentKeys(scene, p)
                                /\ CastsUpTo(c, scene, p, e.order, e.up, batch, Len(batch))
  BY DEF EmitOutcome
<1>3. /\ Len(p.up) \in Nat /\ DOMAIN p.up = 1 .. Len(p.up)
      /\ DOMAIN e.up = 1 .. Len(e.up) /\ Len(batch) \in Nat
  BY <1>1, PublisherFields, LenProperties
<1>4. KeepsOrder(p.order, e.order) /\ Len(e.up) = Len(p.up) + Len(batch)
  BY <1>2 DEF CastsUpTo
<1>5. ASSUME NEW i \in DOMAIN e.up, e.up[i].key \in OrderKey PROVE e.up[i].val # Absent
  <2>1. CASE i \in 1 .. Len(p.up)
    <3>1. e.up[i] = p.up[i]
      BY <1>2, <2>1 DEF CastsUpTo
    <3> QED
      BY <1>3, <1>5, <2>1, <3>1 DEF Tombs, KeptCasts
  <2>2. CASE i - Len(p.up) \in 1 .. Len(batch)
    <3>1. e.up[Len(p.up) + (i - Len(p.up))] = CastOf(c, scene, p.order, batch[i - Len(p.up)])
      BY <1>2, <2>2 DEF CastsUpTo
    <3>2. Len(p.up) + (i - Len(p.up)) = i
      BY <1>3
    <3>3. e.up[i].key = batch[i - Len(p.up)] /\ e.up[i].val = scene[batch[i - Len(p.up)]]
      BY <3>1, <3>2, CastOfFields
    <3> QED
      BY <1>5, <3>3 DEF KeptScene
  <2> QED
    BY <1>3, <1>4, <2>1, <2>2
<1> QED
  BY <1>1, <1>4, <1>5 DEF Tombs, KeepsOrder, KeptCasts

\* The timer buries nothing ...
LEMMA ThrottleTombs ==
    ASSUME NEW p, NEW v, Tombs(p, v), NEW t \in {"idle", "armed", "frame"}
    PROVE  Tombs([p EXCEPT !.throttle = t], v)
  BY DEF Tombs, PublisherRec

\* ... nor does publishing ...
LEMMA PublishTombs ==
    ASSUME NEW c \in Client, NEW scene \in Scene, NEW p, NEW v, Tombs(p, v), KeptScene(scene),
           NEW throttled \in BOOLEAN
    PROVE  Tombs(Publish(c, scene, throttled, p), v)
<1> DEFINE e == Emit(c, scene, p)
<1>1. Tombs(e, v)
  BY EmitIs, EmitTombs DEF Tombs
<1> HIDE DEF e
<1> QED
  BY <1>1, ThrottleTombs DEF Publish, e

\* ... nor adopting.
LEMMA AdoptTombs ==
    ASSUME NEW scene \in Scene, NEW p, NEW v, Tombs(p, v)
    PROVE  Tombs(Adopt(scene, p), v)
<1> DEFINE keep  == {k \in p.owed : scene[k] # Absent}
           based == [k \in Key |-> IF k \in keep THEN p.base[k] ELSE scene[k]]
           timer == IF p.throttle = "frame" THEN "armed" ELSE p.throttle
<1>1. p \in PublisherRec
  BY DEF Tombs
<1>2. based \in Scene /\ timer \in {"idle", "armed", "frame"}
  BY <1>1, PublisherFields DEF Scene
<1>3. Adopt(scene, p) = [p EXCEPT !.base = based, !.throttle = timer]
  BY <1>1 DEF Adopt, PublisherRec
<1> HIDE DEF based, timer
<1> QED
  BY <1>2, <1>3 DEF Tombs, PublisherRec

\* An entry heard is an entry judged.
LEMMA AcceptedTombs ==
    ASSUME Cardinality(Key) <= RemovedMax,
           NEW c \in Client, NEW p, NEW v \in Board, Tombs(p, v),
           NEW m \in Mutation, m.seq \in Nat \ {0}, m.remove <=> m.val = Absent,
           m.seq > p.order.seen[m.key]
    PROVE  Tombs(HeardBy(p, m, c), Replica!Judge(v, m))
<1> DEFINE o == p.order
           h == Heard(o, m)
           q == Accepted(o, m, c)
           w == Replica!Judge(v, m)
<1>1. p \in PublisherRec /\ o \in Order /\ m.key \in Key /\ m.seen \in Nat
  BY PublisherFields DEF Tombs, Mutation
<1>2. AcceptedOutcome(o, m, c, q)
  BY <1>1, AcceptedFields
<1>3. IsInjective(h.noted) /\ h.removed = Buried(o, m)
  <2>1. IsInjective(o.noted) /\ m.seq > o.seen[m.key]
    BY DEF Tombs
  <2> QED
    BY <1>1, <2>1, HeardTombs
<1>4. \A k \in Key : Buried(o, m)[k] = w[k].removed
  <2>1. \A k \in Key : o.removed[k] = v[k].removed
    BY DEF Tombs
  <2>2. o.removed \in [Key -> Nat]
    BY <1>1 DEF Order
  <2> QED
    BY <1>1, <2>1, <2>2 DEF Buried, Replica!Judge, Board
<1> HIDE DEF h, q, w
<1>5. q \in Order /\ q.noted = h.noted /\ q.removed = h.removed
  BY <1>2 DEF AcceptedOutcome, KeepsOrder, h
<1>6. HeardBy(p, m, c) = [p EXCEPT !.order = q]
  BY DEF HeardBy, q
<1>7. HeardBy(p, m, c) \in PublisherRec /\ HeardBy(p, m, c).order = q /\ HeardBy(p, m, c).up = p.up
  BY <1>1, <1>5, <1>6 DEF PublisherRec
<1> QED
  BY <1>3, <1>4, <1>5, <1>7 DEF Tombs, w

\* The verdict stays sound.
LEMMA JudgeSound ==
    ASSUME NEW n \in Nat, NEW v, VerdictSound(v, n), NEW m \in Mutation, m.seq = n + 1,
           m.key \in OrderKey => m.val # Absent
    PROVE  VerdictSound(Replica!Judge(v, m), n + 1)
<1>1. v \in Board /\ Replica!Judge(v, m) \in Board /\ m.key \in Key
  BY JudgeType DEF VerdictSound, Mutation
<1>2. ASSUME NEW k \in Key
      PROVE  /\ v[k].removed \in Nat
             /\ v[k].removed <= n /\ (v[k].removed > 0 => v[k].val = Absent)
             /\ (k \in OrderKey => v[k].removed = 0)
  BY <1>1 DEF VerdictSound, Board
<1>3. ASSUME NEW k \in Key
      PROVE  LET w == Replica!Judge(v, m)
             IN  /\ w[k].removed <= n + 1
                 /\ w[k].removed > 0 => w[k].val = Absent
                 /\ k \in OrderKey => w[k].removed = 0
  <2>1. CASE Replica!Judge(v, m)[k] = v[k]
    BY <1>2, <2>1
  <2>2. CASE k = m.key /\ m.val = Absent
    BY <1>1, <2>2 DEF Replica!Judge, Board
  <2>3. CASE k = m.key /\ m.val # Absent /\ Replica!Judge(v, m)[k] = [val |-> m.val, removed |-> 0]
    BY <2>3
  <2> QED
    BY <1>1, <2>1, <2>2, <2>3 DEF Replica!Judge, Board
<1> QED
  BY <1>1, <1>3 DEF VerdictSound

\* The verdict on what c has heard.
V(c) == VerdictOf(log, pos[c])

TombInv == /\ KeptCasts(log)
           /\ \A c \in Client : /\ KeptScene(canvas[c])
                                /\ VerdictSound(V(c), pos[c])
                                /\ Tombs(Publisher(c), V(c))

\* A step of c that the log has no part in.
LEMMA LocalTombs ==
    ASSUME TypeOK, TombInv, NEW c \in Client, NEW scene \in Scene, NEW p \in PublisherRec,
           Becomes(c, scene, p), KeptScene(scene), Tombs(p, V(c)), log' = log, pos' = pos
    PROVE  TombInv'
<1>1. /\ canvas' = [canvas EXCEPT ![c] = scene] /\ Publisher(c)' = p
      /\ \A d \in Client \ {c} : Publisher(d)' = Publisher(d)
  BY BecomesIs
<1>2. canvas'[c] = scene /\ \A d \in Client \ {c} : canvas'[d] = canvas[d]
  BY <1>1 DEF TypeOK
<1>3. \A d \in Client : V(d)' = V(d)
  BY DEF V
<1>4. ASSUME NEW d \in Client
      PROVE  KeptScene(canvas'[d]) /\ VerdictSound(V(d)', pos'[d]) /\ Tombs(Publisher(d)', V(d)')
  <2>1. CASE d = c
    BY <1>1, <1>2, <1>3, <2>1 DEF TombInv
  <2>2. CASE d # c
    BY <1>1, <1>2, <1>3, <2>2 DEF TombInv
  <2> QED
    BY <2>1, <2>2
<1>5. KeptCasts(log')
  BY DEF TombInv
<1> QED
  BY <1>4, <1>5 DEF TombInv

\* What is stamped is heard by nobody yet.
LEMMA ReflectTombs ==
    ASSUME BusInv, TombInv, NEW c \in Client, Reflect(c)
    PROVE  TombInv'
<1> DEFINE m == Stamped(c)
           n == Len(log)
<1>1. /\ up[c] # << >> /\ log' = Append(log, m) /\ up' = [up EXCEPT ![c] = Tail(@)]
      /\ UNCHANGED <<canvas, base, owed, throttle, dragging, order, pos>>
  BY DEF Reflect, Stamped
<1>2. /\ m \in Mutation /\ m.key = up[c][1].key /\ m.val = up[c][1].val
      /\ up[c] \in Seq(Mutation) /\ 1 \in DOMAIN up[c]
  BY <1>1, StampedIs
<1>3. TypeOK /\ TypeOK'
  BY ReflectBusInv DEF BusInv
<1> HIDE DEF m
<1>4. /\ log \in Seq(Mutation) /\ n \in Nat /\ DOMAIN log = 1 .. n
      /\ DOMAIN log' = 1 .. n + 1 /\ log'[n + 1] = m /\ \A i \in 1 .. n : log'[i] = log[i]
  <2>1. log \in Seq(Mutation) /\ n \in Nat /\ DOMAIN log = 1 .. n
    BY <1>3, LogType
  <2>2. /\ log' \in Seq(Mutation) /\ Len(log') = n + 1 /\ log'[n + 1] = m
        /\ \A i \in 1 .. n : log'[i] = log[i]
    BY <1>1, <1>2, <2>1, AppendProperties
  <2>3. DOMAIN log' = 1 .. Len(log')
    BY <2>2, LenProperties
  <2> QED
    BY <2>1, <2>2, <2>3
<1> HIDE DEF n
<1>5. KeptCasts(up[c])
  BY DEF TombInv, Tombs, Publisher
<1>6. KeptCasts(log')
  <2>1. ASSUME NEW i \in DOMAIN log', log'[i].key \in OrderKey PROVE log'[i].val # Absent
    <3>1. CASE i \in 1 .. n
      BY <1>4, <2>1, <3>1 DEF TombInv, KeptCasts
    <3>2. CASE i = n + 1
      BY <1>2, <1>4, <1>5, <2>1, <3>2 DEF KeptCasts
    <3> QED
      BY <1>4, <3>1, <3>2
  <2> QED
    BY <2>1 DEF KeptCasts
<1>7. ASSUME NEW d \in Client
      PROVE  KeptScene(canvas'[d]) /\ VerdictSound(V(d)', pos'[d]) /\ Tombs(Publisher(d)', V(d)')
  <2>1. pos[d] \in 0 .. Len(log)
    BY <1>3, LogType
  <2>2. V(d)' = V(d)
    BY <1>1, <1>2, <1>4, <2>1, VerdictStays DEF V
  <2>3. Publisher(d)' \in PublisherRec
    BY <1>3, PublisherType DEF TypeOK, Publisher, PublisherRec
  <2>4. KeptCasts(Publisher(d)'.up)
    <3>1. CASE d = c
      <4>1. Publisher(d)'.up = Tail(up[c])
        BY <1>1, <1>3, <3>1 DEF Publisher, TypeOK
      <4>2. /\ Len(up[c]) \in Nat /\ DOMAIN Tail(up[c]) = 1 .. Len(up[c]) - 1
            /\ DOMAIN up[c] = 1 .. Len(up[c])
            /\ \A i \in 1 .. Len(up[c]) - 1 : Tail(up[c])[i] = up[c][i + 1]
        BY <1>1, <1>2, HeadTailProperties, LenProperties
      <4>3. \A i \in 1 .. Len(up[c]) - 1 : i + 1 \in 1 .. Len(up[c])
        BY <4>2
      <4> QED
        BY <1>5, <4>1, <4>2, <4>3 DEF KeptCasts
    <3>2. CASE d # c
      BY <1>1, <1>3, <3>2 DEF Publisher, TypeOK, TombInv, Tombs
    <3> QED
      BY <3>1, <3>2
  <2>5. Publisher(d)'.order = Publisher(d).order
    BY <1>1 DEF Publisher
  <2>6. Tombs(Publisher(d), V(d))
    BY DEF TombInv
  <2>7. Tombs(Publisher(d)', V(d))
    BY <2>3, <2>4, <2>5, <2>6 DEF Tombs
  <2> QED
    BY <1>1, <2>2, <2>7 DEF TombInv
<1> QED
  BY <1>6, <1>7 DEF TombInv

\* What is heard is judged, by its client and in the verdict.
LEMMA HearTombs ==
    ASSUME Cardinality(Key) <= RemovedMax, BusInv, TombInv, NEW c \in Client, Hear(c)
    PROVE  /\ TombInv'
           /\ V(c)' = Replica!Judge(V(c), Entry(c)) /\ V(c) \in Board
           /\ \A d \in Client \ {c} : V(d)' = V(d)
<1> DEFINE m == Entry(c)
           n == pos[c]
           v == V(c)
           w == Replica!Judge(v, m)
<1>1. TypeOK /\ LogRight /\ \A d \in Client : PublisherRight(d, Publisher(d), pos[d], Due(d))
  BY DEF BusInv
<1>2. /\ n < Len(log) /\ pos' = [pos EXCEPT ![c] = @ + 1]
      /\ Becomes(c, HeardScene(c), HeardPublisher(c))
      /\ dragging' = dragging /\ log' = log
  BY HearIs
<1>3. /\ n \in Nat /\ m \in Mutation /\ m.seq = n + 1 /\ (m.remove <=> m.val = Absent)
      /\ m.key \in Key /\ n + 1 \in DOMAIN log /\ log \in Seq(Mutation)
      /\ HeardScene(c) \in Scene
  BY <1>1, <1>2, EntryIs, HeardSceneType, LogType
<1>4. HeardPublisher(c) \in PublisherRec
  BY HeardPublisherRight
<1>5. m.key \in OrderKey => m.val # Absent
  BY <1>3 DEF TombInv, KeptCasts, Entry
<1>6. v \in Board /\ VerdictOf(log, n + 1) = w
  BY <1>2, <1>3, VerdictStep DEF V, Entry
<1>7. VerdictSound(v, n) /\ Tombs(Publisher(c), v) /\ KeptScene(canvas[c])
  BY DEF TombInv
<1>8. KeptScene(HeardScene(c))
  BY <1>1, <1>5, <1>7, PublisherType DEF HeardScene, KeptScene, Scene
<1>9. m.seq > Publisher(c).order.seen[m.key]
  <2>1. Publisher(c).order.seen[m.key] <= n
    BY <1>1, <1>3 DEF PublisherRight
  <2>2. Publisher(c).order \in Order
    BY <1>7, PublisherFields DEF Tombs
  <2>3. Publisher(c).order.seen[m.key] \in Nat
    BY <1>3, <2>2 DEF Order
  <2> QED
    BY <1>3, <2>1, <2>3
<1> HIDE DEF m, n, v, w
<1>10. Tombs(HeardBy(Publisher(c), m, c), w)
  <2>1. m.seq \in Nat \ {0}
    BY <1>3
  <2> QED
    BY <1>3, <1>6, <1>7, <1>9, <2>1, AcceptedTombs DEF w
<1>11. Tombs(HeardPublisher(c), w)
  <2>1. Tombs(Adopted(c), w)
    BY <1>3, <1>10, AdoptTombs DEF Adopted, m
  <2>2. Tombs(Freed(c), w)
    BY <1>3, <1>8, <2>1, PublishTombs DEF Freed, ReleaseHeld
  <2>3. dragging[c] \in BOOLEAN
    BY <1>1 DEF TypeOK
  <2> QED
    BY <1>3, <1>8, <2>2, <2>3, PublishTombs DEF HeardPublisher
<1>12. VerdictSound(w, n + 1)
  BY <1>3, <1>5, <1>7, JudgeSound DEF w
<1>13. pos'[c] = n + 1 /\ \A d \in Client \ {c} : pos'[d] = pos[d]
  <2>1. pos \in [Client -> 0 .. Len(log)]
    BY <1>1, LogType
  <2> QED
    BY <1>2, <2>1 DEF n
<1>14. V(c)' = w /\ \A d \in Client \ {c} : V(d)' = V(d)
  BY <1>2, <1>6, <1>13 DEF V
<1>15. /\ canvas' = [canvas EXCEPT ![c] = HeardScene(c)] /\ Publisher(c)' = HeardPublisher(c)
       /\ \A d \in Client \ {c} : Publisher(d)' = Publisher(d)
  BY <1>1, <1>2, <1>3, <1>4, BecomesIs
<1>16. canvas'[c] = HeardScene(c) /\ \A d \in Client \ {c} : canvas'[d] = canvas[d]
  BY <1>1, <1>15 DEF TypeOK
<1>17. ASSUME NEW d \in Client
       PROVE  KeptScene(canvas'[d]) /\ VerdictSound(V(d)', pos'[d]) /\ Tombs(Publisher(d)', V(d)')
  <2>1. CASE d = c
    BY <1>8, <1>11, <1>12, <1>13, <1>14, <1>15, <1>16, <2>1
  <2>2. CASE d # c
    BY <1>13, <1>14, <1>15, <1>16, <2>2 DEF TombInv
  <2> QED
    BY <2>1, <2>2
<1>18. KeptCasts(log')
  BY <1>2 DEF TombInv
<1>19. TombInv'
  BY <1>17, <1>18 DEF TombInv
<1> QED
  BY <1>6, <1>14, <1>19 DEF w, v, m

\* Nothing is buried at the start.
LEMMA TombInvInit ==
    ASSUME OrderKept, Init
    PROVE  TombInv
<1>1. BusInv /\ TypeOK
  BY BusInvInit DEF BusInv
<1>2. KeptCasts(log)
  BY DEF Init, KeptCasts
<1>3. ASSUME NEW c \in Client
      PROVE  KeptScene(canvas[c]) /\ VerdictSound(V(c), pos[c]) /\ Tombs(Publisher(c), V(c))
  <2>1. /\ canvas[c] = Loaded /\ pos[c] = 0 /\ Publisher(c).order = NewOrder
        /\ Publisher(c).up = << >>
    BY DEF Init, Publisher
  <2>2. V(c) = Blank /\ Blank \in Board
    <3>1. log \in Seq(Mutation) /\ 0 \in 0 .. Len(log)
      BY <1>1, LogType
    <3>2. Blank \in Board
      BY SyncAssumption DEF Blank, Board
    <3> QED
      BY <2>1, <3>1, <3>2, VerdictBlank DEF V
  <2>3. KeptScene(canvas[c])
    BY <2>1 DEF OrderKept, KeptScene
  <2>4. VerdictSound(V(c), 0)
    BY <2>2 DEF VerdictSound, Blank
  <2>5. Publisher(c) \in PublisherRec
    BY <1>1, PublisherType
  <2>6. /\ IsInjective(NewOrder.noted) /\ KeptCasts(<< >>)
        /\ \A k \in Key : NewOrder.removed[k] = Blank[k].removed
    BY DEF NewOrder, IsInjective, KeptCasts, Blank
  <2> QED
    BY <2>1, <2>2, <2>3, <2>4, <2>5, <2>6 DEF Tombs
<1> QED
  BY <1>2, <1>3 DEF TombInv

\* Every step buries what the log does.
LEMMA TombInvNext ==
    ASSUME OrderKept, Cardinality(Key) <= RemovedMax, BusInv, TombInv, [Next]_vars
    PROVE  TombInv'
<1>1. /\ TypeOK
      /\ \A c \in Client : /\ Publisher(c) \in PublisherRec /\ canvas[c] \in Scene
                           /\ KeptScene(canvas[c]) /\ Tombs(Publisher(c), V(c))
                           /\ dragging[c] \in BOOLEAN
  BY PublisherType DEF BusInv, TombInv, TypeOK
<1>2. ASSUME NEW c \in Client, NEW k \in Key, NEW v \in Val \cup {Absent}, Edit(c, k, v),
             <<k, v>> \in Edits
      PROVE  TombInv'
  <2> DEFINE scene == [canvas[c] EXCEPT ![k] = v]
             p == Publish(c, scene, dragging[c], Publisher(c))
  <2>1. scene \in Scene /\ KeptScene(scene)
    BY <1>1, <1>2 DEF Scene, KeptScene, OrderKept
  <2>2. Becomes(c, scene, p) /\ log' = log /\ pos' = pos
    BY <1>2 DEF Edit
  <2> HIDE DEF scene
  <2>3. p \in PublisherRec /\ Tombs(p, V(c))
    BY <1>1, <2>1, PublishType, PublishTombs
  <2> HIDE DEF p
  <2> QED
    BY <1>1, <2>1, <2>2, <2>3, LocalTombs
<1>3. ASSUME NEW c \in Client, NEW k \in Key, TtlLapses(c, k) PROVE TombInv'
  <2> DEFINE o == Lapse(Publisher(c).order, k)
             p == [Publisher(c) EXCEPT !.order = o]
  <2>1. Becomes(c, canvas[c], p) /\ log' = log /\ pos' = pos
    BY <1>1, <1>3 DEF TtlLapses, Becomes, Publisher, TypeOK
  <2>2. /\ o \in Order /\ o.noted = Publisher(c).order.noted
        /\ o.removed = Publisher(c).order.removed
    BY <1>1, PublisherFields, LapseFields DEF KeepsOrder
  <2> HIDE DEF o
  <2>3. p \in PublisherRec /\ p.order = o /\ p.up = Publisher(c).up
    BY <1>1, <2>2 DEF PublisherRec
  <2> HIDE DEF p
  <2>4. Tombs(p, V(c))
    BY <1>1, <2>2, <2>3 DEF Tombs
  <2> QED
    BY <1>1, <2>1, <2>3, <2>4, LocalTombs
<1>4. ASSUME NEW c \in Client, DragStart(c) PROVE TombInv'
  <2>1. UNCHANGED <<canvas, base, owed, throttle, order, up, log, pos>>
    BY <1>4 DEF DragStart
  <2>2. \A d \in Client : Publisher(d)' = Publisher(d) /\ V(d)' = V(d)
    BY <2>1 DEF Publisher, V
  <2> QED
    BY <2>1, <2>2 DEF TombInv
<1>5. ASSUME NEW c \in Client, DragStop(c) PROVE TombInv'
  <2> DEFINE p == Publish(c, canvas[c], FALSE, Publisher(c))
  <2>1. Becomes(c, canvas[c], p) /\ log' = log /\ pos' = pos
    BY <1>5 DEF DragStop
  <2>2. p \in PublisherRec /\ Tombs(p, V(c))
    BY <1>1, PublishType, PublishTombs
  <2> HIDE DEF p
  <2> QED
    BY <1>1, <2>1, <2>2, LocalTombs
<1>6. ASSUME NEW c \in Client, TimerFires(c) PROVE TombInv'
  <2> DEFINE q == IF Publisher(c).throttle = "frame" THEN Emit(c, canvas[c], Publisher(c))
                  ELSE Publisher(c)
             p == [q EXCEPT !.throttle = "idle"]
  <2>1. Becomes(c, canvas[c], p) /\ log' = log /\ pos' = pos
    BY <1>6 DEF TimerFires
  <2>2. Tombs(q, V(c))
    BY <1>1, EmitIs, EmitTombs
  <2> HIDE DEF q
  <2>3. p \in PublisherRec /\ Tombs(p, V(c))
    BY <2>2, ThrottleTombs DEF Tombs
  <2> HIDE DEF p
  <2> QED
    BY <1>1, <2>1, <2>3, LocalTombs
<1>7. ASSUME NEW c \in Client, Reflect(c) PROVE TombInv'
  BY <1>7, ReflectTombs
<1>8. ASSUME NEW c \in Client, Hear(c) PROVE TombInv'
  BY <1>8, HearTombs
<1>9. ASSUME UNCHANGED vars PROVE TombInv'
  <2>1. \A d \in Client : Publisher(d)' = Publisher(d) /\ V(d)' = V(d)
    BY <1>9 DEF Publisher, V, vars
  <2> QED
    BY <1>9, <2>1 DEF TombInv, vars
<1> QED
  <2>1. \A e \in Edits : e[1] \in Key /\ e[2] \in Val \cup {Absent} /\ e = <<e[1], e[2]>>
    BY SyncAssumption
  <2> QED
    BY <1>2, <1>3, <1>4, <1>5, <1>6, <1>7, <1>8, <1>9, <2>1 DEF Next

\* NoResurrection, with drags and lapses: what a delivery puts back on a canvas was cast by
\* someone who had seen the remove.
THEOREM NothingIsResurrected ==
    OrderKept /\ Cardinality(Key) <= RemovedMax => (Spec => NoResurrection)
<1> SUFFICES ASSUME OrderKept, Cardinality(Key) <= RemovedMax PROVE Spec => NoResurrection
  OBVIOUS
<1> DEFINE Step == \A c \in Client, k \in Key :
              /\ pos'[c] # pos[c]
              /\ canvas[c][k] = Absent
              /\ canvas'[c][k] # Absent
              => log[pos'[c]].seen >= Replica!Verdict(pos[c])[k].removed
<1>1. Init => TombInv
  BY TombInvInit
<1>2. BusInv /\ TombInv /\ [Next]_vars => TombInv'
  BY TombInvNext
<1>3. ASSUME BusInv, TombInv, [Next]_vars, NEW c \in Client, NEW k \in Key,
             pos'[c] # pos[c], canvas[c][k] = Absent, canvas'[c][k] # Absent
      PROVE  log[pos'[c]].seen >= Replica!Verdict(pos[c])[k].removed
  <2>1. Hear(c)
    <3>1. ASSUME NEW d \in Client, Hear(d) PROVE c = d
      BY <3>1, <1>3, LogType DEF Hear, BusInv
    <3> QED
      BY <1>3, <3>1 DEF Next, vars, Edit, TtlLapses, DragStart, DragStop, TimerFires, Reflect
  <2> DEFINE m == Entry(c)
             o == order[c]
  <2>2. /\ pos[c] < Len(log) /\ pos' = [pos EXCEPT ![c] = @ + 1]
        /\ Becomes(c, HeardScene(c), HeardPublisher(c))
    BY <2>1, HearIs
  <2>3. TypeOK /\ LogRight /\ PublisherRight(c, Publisher(c), pos[c], Due(c))
    BY <1>3 DEF BusInv
  <2>4. /\ pos[c] \in Nat /\ m \in Mutation /\ m.seq = pos[c] + 1 /\ m.key \in Key
        /\ m.seen \in Nat /\ (m.remove <=> m.val = Absent) /\ pos'[c] = pos[c] + 1
    BY <2>2, <2>3, EntryIs, LogType
  <2>5. canvas'[c] = HeardScene(c)
    BY <2>2, <2>3 DEF Becomes, TypeOK
  <2>6. Applies(o, m, c) /\ k = m.key /\ m.val # Absent
    BY <1>3, <2>3, <2>5, PublisherType DEF HeardScene, Scene
  <2>7. /\ V(c) \in Board /\ V(c)[k].removed \in Nat /\ o.removed[k] = V(c)[k].removed
        /\ k \in OrderKey => V(c)[k].removed = 0
    BY <1>3 DEF TombInv, VerdictSound, Tombs, Publisher, Board
  <2>8. ~SupersededByRemove(o, m) \/ k \in OrderKey
    BY <2>6 DEF Applies
  <2>9. m.seen >= V(c)[k].removed
    BY <2>4, <2>6, <2>7, <2>8 DEF SupersededByRemove, Unstamped
  <2> QED
    BY <2>4, <2>9, VerdictIs DEF V, Entry
<1>4. BusInv /\ TombInv /\ [Next]_vars => Step
  BY <1>3
<1>5. BusInv /\ TombInv /\ [Next]_vars => [Step]_vars
  BY <1>4
<1> QED
  BY <1>1, <1>2, <1>5, BusInvAlways, PTL DEF Spec, NoResurrection

-------------------------------------------------------------------------------
(* The replica.  A client's queue holds its own casts that it has not heard back: those in
   the rest of the log, then those on their way to the reflector.              *)

Out == [key : Key, val : Val \cup {Absent}, seen : Nat]

Bare(m) == [key |-> m.key, val |-> m.val, seen |-> m.seen]

Queue(a, u) == [j \in 1 .. Len(a) + Len(u) |->
                    IF j <= Len(a) THEN Bare(a[j]) ELSE Bare(u[j - Len(a)])]

\* What a queue is made of.
LEMMA QueueIs ==
    ASSUME NEW a \in Seq(Mutation), NEW u \in Seq(Mutation)
    PROVE  /\ Queue(a, u) \in Seq(Out) /\ Len(Queue(a, u)) = Len(a) + Len(u)
           /\ DOMAIN Queue(a, u) = 1 .. Len(a) + Len(u)
           /\ Len(a) \in Nat /\ Len(u) \in Nat /\ DOMAIN u = 1 .. Len(u)
           /\ \A j \in 1 .. Len(a) : Queue(a, u)[j] = Bare(a[j]) /\ a[j] \in Mutation
           /\ \A j \in 1 .. Len(u) : Queue(a, u)[Len(a) + j] = Bare(u[j]) /\ u[j] \in Mutation
<1> DEFINE q == Queue(a, u)
<1>1. /\ Len(a) \in Nat /\ Len(u) \in Nat /\ DOMAIN u = 1 .. Len(u)
      /\ \A j \in 1 .. Len(a) : a[j] \in Mutation
      /\ \A j \in 1 .. Len(u) : u[j] \in Mutation
  BY LenProperties, ElementOfSeq
<1>2. \A m \in Mutation : Bare(m) \in Out
  BY DEF Bare, Out, Mutation
<1>3. ASSUME NEW j \in 1 .. Len(a) PROVE j \in 1 .. Len(a) + Len(u) /\ j <= Len(a)
  BY <1>1
<1>4. ASSUME NEW j \in 1 .. Len(u)
      PROVE  Len(a) + j \in 1 .. Len(a) + Len(u) /\ ~(Len(a) + j <= Len(a)) /\ (Len(a) + j) - Len(a) = j
  BY <1>1
<1>5. ASSUME NEW j \in 1 .. Len(a) + Len(u) PROVE q[j] \in Out
  <2>1. CASE j <= Len(a)
    BY <1>1, <1>2, <2>1 DEF Queue
  <2>2. CASE ~(j <= Len(a))
    <3>1. j - Len(a) \in 1 .. Len(u)
      BY <1>1, <2>2
    <3> QED
      BY <1>1, <1>2, <2>2, <3>1 DEF Queue
  <2> QED
    BY <2>1, <2>2
<1>6. q \in [1 .. Len(a) + Len(u) -> Out] /\ Len(a) + Len(u) \in Nat
  BY <1>1, <1>5 DEF Queue
<1>7. q \in Seq(Out) /\ Len(q) = Len(a) + Len(u) /\ DOMAIN q = 1 .. Len(a) + Len(u)
  <2> HIDE DEF q
  <2>1. q \in Seq(Out)
    BY <1>6
  <2> QED
    BY <1>6, <2>1, LenProperties
<1> QED
  BY <1>1, <1>3, <1>4, <1>7 DEF Queue

\* The record of casts is the queue, and what is pending and what gates is counted from it.
QueueRight(o, q, n) ==
    /\ Unforgotten(o) /\ GateHolds(o)
    /\ Len(o.casts) = Len(q)
    /\ \A i \in DOMAIN q : o.casts[i].key = q[i].key /\ (o.casts[i].remove <=> q[i].val = Absent)
    /\ \A k \in Key : o.pending[k] = Cardinality(CastsIn(q, k))
    /\ \A i, j \in DOMAIN q : i < j /\ q[i].key = q[j].key /\ q[i].val = Absent => q[j].val = Absent
    /\ \A i \in DOMAIN q : q[i].seen <= n /\ q[i].val \notin TooLarge

\* k's last cast in the queue.
IsLast(q, i, k) == i \in DOMAIN q /\ q[i].key = k /\ \A j \in DOMAIN q : i < j => q[j].key # k

\* What holds a value of k off while q is out.
HeldOff(q, k, x) == x \in TooLarge \/ \E i \in DOMAIN q : q[i].key = k /\ q[i].val = Absent

(* The baseline of a key with nothing out is the verdict; of a key with casts out, the last
   cast, unless a peer's edit was applied over it; and where that cast is going to be dropped,
   a peer's remove was, and the key is gone.                                   *)
LastRight(o, x, b, v, k) ==
    /\ k \notin o.superseded => b[k] = x.val
    /\ x.val # Absent /\ v[k].removed > x.seen => k \in o.superseded /\ b[k] = Absent

BaseAt(o, q, b, v, k) ==
    /\ (\A i \in DOMAIN q : q[i].key # k) => b[k] = v[k].val
    /\ \A i \in DOMAIN q : IsLast(q, i, k) => LastRight(o, q[i], b, v, k)

\* What is owed is on the canvas, and either in the baseline or held off.
OwedAt(q, s, b, w, k) == k \in w => s[k] # Absent /\ (s[k] = b[k] \/ HeldOff(q, k, s[k]))

\* A count of none is of no cast.
LEMMA PendingMeans ==
    ASSUME NEW S, NEW q \in Seq(S), NEW k
    PROVE  /\ Cardinality(CastsIn(q, k)) \in Nat
           /\ Cardinality(CastsIn(q, k)) = 0 <=> \A i \in DOMAIN q : q[i].key # k
<1>1. Len(q) \in Nat /\ CastsIn(q, k) \in SUBSET (1 .. Len(q)) /\ DOMAIN q = 1 .. Len(q)
  BY LenProperties DEF CastsIn
<1>2. IsFiniteSet(CastsIn(q, k)) /\ Cardinality(CastsIn(q, k)) \in Nat
  BY <1>1, CountType
<1>3. Cardinality(CastsIn(q, k)) = 0 <=> CastsIn(q, k) = {}
  BY <1>2, FS_EmptySet
<1> QED
  BY <1>2, <1>3 DEF CastsIn

\* The gate of k is shut exactly when the queue holds a remove of k.
LEMMA GateMeans ==
    ASSUME NEW o \in Order, NEW q \in Seq(Out), NEW n, QueueRight(o, q, n), NEW k \in Key
    PROVE  HasPendingRemove(o, k) <=> \E i \in DOMAIN q : q[i].key = k /\ q[i].val = Absent
<1> DEFINE R == RemovesOf(o.casts, k)
<1>1. /\ o.pendingRemoves[k] = Cardinality(R) /\ Len(o.casts) = Len(q)
      /\ \A i \in DOMAIN q : o.casts[i].key = q[i].key /\ (o.casts[i].remove <=> q[i].val = Absent)
  BY DEF QueueRight, GateHolds
<1>2. o.casts \in Seq(Cast) /\ Len(q) \in Nat /\ DOMAIN q = 1 .. Len(q) /\ DOMAIN o.casts = 1 .. Len(q)
  BY <1>1, LenProperties DEF Order
<1>3. R = {i \in DOMAIN q : q[i].key = k /\ q[i].val = Absent}
  BY <1>1, <1>2 DEF RemovesOf
<1>4. R \in SUBSET (1 .. Len(q))
  BY <1>2, <1>3
<1> HIDE DEF R
<1>5. IsFiniteSet(R) /\ Cardinality(R) \in Nat
  BY <1>2, <1>4, CountType
<1>6. Cardinality(R) > 0 <=> R # {}
  BY <1>5, FS_EmptySet
<1> QED
  BY <1>1, <1>3, <1>6 DEF HasPendingRemove

\* What may be cast is what nothing holds off.
LEMMA CastableMeans ==
    ASSUME NEW o \in Order, NEW q \in Seq(Out), NEW n, QueueRight(o, q, n), NEW k \in Key, NEW x
    PROVE  Castable(o, k, x) <=> x = Absent \/ ~HeldOff(q, k, x)
  BY GateMeans DEF Castable, HeldOff

\* r is the queue q after a batch is cast from a scene, at n.
Prolongs(q, r, batch, scene, n) ==
    /\ Len(r) = Len(q) + Len(batch)
    /\ \A j \in 1 .. Len(q) : r[j] = q[j]
    /\ \A j \in 1 .. Len(batch) : /\ r[Len(q) + j].key = batch[j]
                                  /\ r[Len(q) + j].val = scene[batch[j]]
                                  /\ r[Len(q) + j].seen = n

\* A bus that a batch is put on prolongs the queue.
LEMMA QueueProlongs ==
    ASSUME NEW a \in Seq(Mutation), NEW u \in Seq(Mutation), NEW w \in Seq(Mutation),
           NEW batch \in Seq(Key), NEW c, NEW scene, NEW o,
           Len(w) = Len(u) + Len(batch), \A j \in 1 .. Len(u) : w[j] = u[j],
           \A j \in 1 .. Len(batch) : w[Len(u) + j] = CastOf(c, scene, o, batch[j])
    PROVE  Prolongs(Queue(a, u), Queue(a, w), batch, scene, o.lastSeq)
<1> DEFINE q == Queue(a, u)
           r == Queue(a, w)
<1>1. /\ Len(q) = Len(a) + Len(u) /\ Len(a) \in Nat /\ Len(u) \in Nat
      /\ \A j \in 1 .. Len(a) : q[j] = Bare(a[j])
      /\ \A j \in 1 .. Len(u) : q[Len(a) + j] = Bare(u[j])
  BY QueueIs
<1>2. /\ Len(r) = Len(a) + Len(w)
      /\ \A j \in 1 .. Len(a) : r[j] = Bare(a[j])
      /\ \A j \in 1 .. Len(w) : r[Len(a) + j] = Bare(w[j])
  BY QueueIs
<1>3. Len(batch) \in Nat
  BY LenProperties
<1> HIDE DEF q, r
<1>4. ASSUME NEW j \in 1 .. Len(q) PROVE r[j] = q[j]
  <2>1. CASE j \in 1 .. Len(a)
    BY <1>1, <1>2, <2>1
  <2>2. CASE j - Len(a) \in 1 .. Len(u)
    <3>1. j - Len(a) \in 1 .. Len(w) /\ Len(a) + (j - Len(a)) = j
      BY <1>1, <1>3, <2>2
    <3> QED
      BY <1>1, <1>2, <2>2, <3>1
  <2> QED
    BY <1>1, <2>1, <2>2
<1>5. ASSUME NEW j \in 1 .. Len(batch)
      PROVE  /\ r[Len(q) + j].key = batch[j] /\ r[Len(q) + j].val = scene[batch[j]]
             /\ r[Len(q) + j].seen = o.lastSeq
  <2>1. Len(u) + j \in 1 .. Len(w) /\ Len(a) + (Len(u) + j) = Len(q) + j
    BY <1>1, <1>3
  <2>2. r[Len(q) + j] = Bare(w[Len(u) + j])
    BY <1>2, <2>1
  <2> QED
    BY <2>2, CastOfFields DEF Bare
<1>6. Prolongs(q, r, batch, scene, o.lastSeq)
  <2>1. Len(r) = Len(q) + Len(batch)
    BY <1>1, <1>2, <1>3
  <2> QED
    BY <1>4, <1>5, <2>1 DEF Prolongs
<1> QED
  BY <1>6 DEF q, r

\* The new casts can be told from the old, and from each other.
LEMMA ProlongedIs ==
    ASSUME NEW q \in Seq(Out), NEW r \in Seq(Out), NEW batch \in Seq(Key), IsInjective(batch),
           NEW scene, NEW n, Prolongs(q, r, batch, scene, n)
    PROVE  /\ DOMAIN q \subseteq DOMAIN r /\ \A i \in DOMAIN q : r[i] = q[i]
           /\ \A i \in DOMAIN r \ DOMAIN q :
                 /\ r[i].key \in ToSet(batch) /\ r[i].val = scene[r[i].key] /\ r[i].seen = n
                 /\ \A j \in DOMAIN q : j < i
                 /\ \A j \in DOMAIN r \ DOMAIN q : r[j].key = r[i].key => j = i
           /\ \A k \in ToSet(batch) : \E i \in DOMAIN r \ DOMAIN q : r[i].key = k
<1> DEFINE lq == Len(q)
           lb == Len(batch)
<1>1. /\ lq \in Nat /\ lb \in Nat /\ DOMAIN q = 1 .. lq /\ DOMAIN r = 1 .. lq + lb
      /\ DOMAIN batch = 1 .. lb
  BY LenProperties DEF Prolongs
<1>2. /\ \A j \in 1 .. lq : r[j] = q[j]
      /\ \A j \in 1 .. lb : r[lq + j].key = batch[j] /\ r[lq + j].val = scene[batch[j]]
                            /\ r[lq + j].seen = n
  BY DEF Prolongs
<1> HIDE DEF lq, lb
<1>3. DOMAIN q \subseteq DOMAIN r
  BY <1>1
<1>4. ASSUME NEW i \in DOMAIN r \ DOMAIN q
      PROVE  /\ i - lq \in 1 .. lb /\ lq + (i - lq) = i
             /\ r[i].key = batch[i - lq] /\ r[i].val = scene[batch[i - lq]] /\ r[i].seen = n
  <2>1. i - lq \in 1 .. lb /\ lq + (i - lq) = i
    BY <1>1
  <2> QED
    BY <1>2, <2>1
<1>5. ASSUME NEW i \in DOMAIN r \ DOMAIN q, NEW j \in DOMAIN r \ DOMAIN q, r[j].key = r[i].key
      PROVE  j = i
  <2>1. i - lq \in 1 .. lb /\ j - lq \in 1 .. lb /\ lq + (i - lq) = i /\ lq + (j - lq) = j
        /\ batch[i - lq] = batch[j - lq]
    BY <1>4, <1>5
  <2>2. i - lq = j - lq
    BY <1>1, <2>1 DEF IsInjective
  <2> QED
    BY <2>1, <2>2
<1>6. ASSUME NEW k \in ToSet(batch) PROVE \E i \in DOMAIN r \ DOMAIN q : r[i].key = k
  <2>1. PICK j \in 1 .. lb : batch[j] = k
    BY <1>1 DEF ToSet
  <2>2. lq + j \in DOMAIN r \ DOMAIN q
    BY <1>1
  <2> QED
    BY <1>2, <2>1, <2>2
<1>7. \A i \in DOMAIN r \ DOMAIN q : \A j \in DOMAIN q : j < i
  BY <1>1
<1> QED
  BY <1>1, <1>2, <1>3, <1>4, <1>5, <1>6, <1>7 DEF ToSet

\* One recorded cast, read field by field.
LEMMA RecordFields ==
    ASSUME NEW r, NEW k, NEW x, r = [key |-> k, remove |-> x = Absent]
    PROVE  r.key = k /\ (r.remove <=> x = Absent)
<1>1. r.key = k
  OBVIOUS
<1>2. r.remove <=> x = Absent
  OBVIOUS
<1> QED
  BY <1>1, <1>2

\* What an emit does to a queue that is right.
LEMMA EmitQueue ==
    ASSUME NEW c \in Client, NEW scene \in Scene, NEW p \in PublisherRec, NEW a \in Seq(Mutation),
           NEW n \in Nat, p.order.lastSeq = n, QueueRight(p.order, Queue(a, p.up), n),
           NEW e, EmitOutcome(c, scene, p, e), Unforgotten(e.order)
    PROVE  /\ QueueRight(e.order, Queue(a, e.up), n)
           /\ \E batch \in Seq(Key) :
                 /\ IsInjective(batch) /\ ToSet(batch) = SentKeys(scene, p)
                 /\ Prolongs(Queue(a, p.up), Queue(a, e.up), batch, scene, n)
                 /\ CastsUpTo(c, scene, p, e.order, e.up, batch, Len(batch))
<1> DEFINE q == Queue(a, p.up)
           r == Queue(a, e.up)
           o == p.order
           d == e.order
<1>1. PICK batch \in Seq(Key) : /\ IsInjective(batch) /\ ToSet(batch) = SentKeys(scene, p)
                                /\ CastsUpTo(c, scene, p, d, e.up, batch, Len(batch))
  BY DEF EmitOutcome
<1>2. /\ e \in PublisherRec /\ p.up \in Seq(Mutation) /\ e.up \in Seq(Mutation)
      /\ o \in Order /\ d \in Order /\ o.pending \in [Key -> Nat]
  BY PublisherFields DEF EmitOutcome
<1>3. q \in Seq(Out) /\ r \in Seq(Out)
  BY <1>2, QueueIs
<1>4. Prolongs(q, r, batch, scene, n)
  <2>1. /\ Len(e.up) = Len(p.up) + Len(batch)
        /\ \A j \in 1 .. Len(p.up) : e.up[j] = p.up[j]
        /\ \A j \in 1 .. Len(batch) : e.up[Len(p.up) + j] = CastOf(c, scene, p.order, batch[j])
    BY <1>1 DEF CastsUpTo
  <2> QED
    BY <1>2, <2>1, QueueProlongs
<1> HIDE DEF q, r, o, d
<1>5. /\ DOMAIN q \subseteq DOMAIN r /\ \A i \in DOMAIN q : r[i] = q[i]
      /\ \A i \in DOMAIN r \ DOMAIN q :
            /\ r[i].key \in SentKeys(scene, p) /\ r[i].val = scene[r[i].key] /\ r[i].seen = n
            /\ \A j \in DOMAIN q : j < i
            /\ \A j \in DOMAIN r \ DOMAIN q : r[j].key = r[i].key => j = i
  BY <1>1, <1>3, <1>4, ProlongedIs
<1>6. /\ Unforgotten(o) /\ GateHolds(o)
      /\ Len(o.casts) = Len(q)
      /\ \A i \in DOMAIN q : o.casts[i].key = q[i].key /\ (o.casts[i].remove <=> q[i].val = Absent)
      /\ \A k \in Key : o.pending[k] = Cardinality(CastsIn(q, k))
      /\ \A i, j \in DOMAIN q : i < j /\ q[i].key = q[j].key /\ q[i].val = Absent => q[j].val = Absent
      /\ \A i \in DOMAIN q : q[i].seen <= n /\ q[i].val \notin TooLarge
  BY DEF QueueRight, q, o
<1>7. /\ Unforgotten(d) /\ GateHolds(d)
      /\ Len(d.casts) = Len(q) + Len(batch)
      /\ \A j \in 1 .. Len(q) : d.casts[j] = o.casts[j]
      /\ \A j \in 1 .. Len(batch) : d.casts[Len(q) + j]
                                  = [key |-> batch[j], remove |-> scene[batch[j]] = Absent]
      /\ \A k \in Key : d.pending[k] = o.pending[k] + (IF \E j \in 1 .. Len(batch) : batch[j] = k
                                                                 THEN 1 ELSE 0)
  BY <1>1, <1>6 DEF CastsUpTo, o, d
<1>8. /\ Len(q) \in Nat /\ Len(batch) \in Nat /\ DOMAIN q = 1 .. Len(q)
      /\ Len(r) = Len(q) + Len(batch) /\ DOMAIN r = 1 .. Len(q) + Len(batch)
  BY <1>3, <1>4, LenProperties DEF Prolongs
<1>9. ASSUME NEW i \in DOMAIN r
      PROVE  d.casts[i].key = r[i].key /\ (d.casts[i].remove <=> r[i].val = Absent)
  <2>1. CASE i \in 1 .. Len(q)
    BY <1>5, <1>6, <1>7, <1>8, <2>1
  <2>2. CASE i - Len(q) \in 1 .. Len(batch)
    <3>1. Len(q) + (i - Len(q)) = i
      BY <1>8
    <3>2. r[i].key = batch[i - Len(q)] /\ r[i].val = scene[batch[i - Len(q)]]
      BY <1>4, <2>2, <3>1 DEF Prolongs
    <3> DEFINE x    == scene[batch[i - Len(q)]]
               cast == d.casts[i]
    <3>3. cast = [key |-> batch[i - Len(q)], remove |-> x = Absent]
      BY <1>7, <2>2, <3>1
    <3>4. r[i].val = x
      BY <3>2
    <3> HIDE DEF x, cast
    <3>5. cast.key = batch[i - Len(q)] /\ (cast.remove <=> x = Absent)
      BY <3>3, RecordFields
    <3>6. cast.key = r[i].key /\ (cast.remove <=> r[i].val = Absent)
      BY <3>2, <3>4, <3>5
    <3> QED
      BY <3>6 DEF cast
  <2> QED
    BY <1>8, <2>1, <2>2
<1>10. ASSUME NEW k \in Key PROVE d.pending[k] = Cardinality(CastsIn(r, k))
  <2>1. Grown(q, r, batch)
    BY <1>4 DEF Prolongs, Grown
  <2>2. CountGrows(q, r, batch, k)
    BY <1>1, <1>3, <2>1, GrownCount
  <2> QED
    BY <1>6, <1>7, <2>2 DEF CountGrows
<1>11. ASSUME NEW i \in DOMAIN r, NEW j \in DOMAIN r, i < j, r[i].key = r[j].key, r[i].val = Absent
       PROVE  r[j].val = Absent
  <2>1. CASE j \in DOMAIN q
    <3>1. i \in DOMAIN q
      BY <1>8, <1>11, <2>1
    <3> QED
      BY <1>5, <1>6, <1>11, <2>1, <3>1
  <2>2. CASE j \notin DOMAIN q /\ i \in DOMAIN q
    <3>1. r[j].key \in SentKeys(scene, p) /\ r[j].val = scene[r[j].key]
      BY <1>5, <2>2
    <3>2. q[i].key = r[j].key /\ q[i].val = Absent /\ r[j].key \in Key
      BY <1>5, <1>11, <2>2, <3>1 DEF SentKeys
    <3>3. QueueRight(o, q, n)
      BY DEF q, o
    <3>4. HasPendingRemove(o, r[j].key)
      BY <1>2, <1>3, <2>2, <3>2, <3>3, GateMeans
    <3> QED
      BY <3>1, <3>4 DEF SentKeys, Castable, o
  <2>3. CASE j \notin DOMAIN q /\ i \notin DOMAIN q
    BY <1>5, <1>8, <1>11, <2>3
  <2> QED
    BY <2>1, <2>2, <2>3
<1>12. ASSUME NEW i \in DOMAIN r PROVE r[i].seen <= n /\ r[i].val \notin TooLarge
  <2>1. CASE i \in DOMAIN q
    BY <1>5, <1>6, <2>1
  <2>2. CASE i \notin DOMAIN q
    <3>1. r[i].key \in SentKeys(scene, p) /\ r[i].val = scene[r[i].key] /\ r[i].seen = n
      BY <1>5, <2>2
    <3> QED
      BY <3>1, SyncAssumption DEF SentKeys, Castable
  <2> QED
    BY <2>1, <2>2
<1>13. QueueRight(d, r, n)
  BY <1>7, <1>8, <1>9, <1>10, <1>11, <1>12 DEF QueueRight
<1> QED
  BY <1>1, <1>4, <1>13 DEF q, r, d

\* A publisher p that the canvas scene is in step with: a is what the log still has to answer
\* it, and v is the verdict on the n entries that it has heard.
Follows(scene, p, a, v, n) ==
    /\ p \in PublisherRec
    /\ QueueRight(p.order, Queue(a, p.up), n)
    /\ \A k \in Key : /\ BaseAt(p.order, Queue(a, p.up), p.base, v, k)
                      /\ OwedAt(Queue(a, p.up), scene, p.base, p.owed, k)

\* A key that is cast has its last cast in the baseline; one that is not, what it had.
LEMMA EmitFollows ==
    ASSUME NEW c \in Client, NEW scene \in Scene, NEW p \in PublisherRec, NEW a \in Seq(Mutation),
           NEW n \in Nat, p.order.lastSeq = n, QueueRight(p.order, Queue(a, p.up), n),
           NEW v, VerdictSound(v, n),
           \A k \in Key \ SentKeys(scene, p) : BaseAt(p.order, Queue(a, p.up), p.base, v, k),
           NEW e, EmitOutcome(c, scene, p, e), Unforgotten(e.order)
    PROVE  Follows(scene, e, a, v, n)
<1> DEFINE q == Queue(a, p.up)
           r == Queue(a, e.up)
<1>1. QueueRight(e.order, r, n)
  BY EmitQueue
<1>2. PICK batch \in Seq(Key) : /\ IsInjective(batch) /\ ToSet(batch) = SentKeys(scene, p)
                                /\ Prolongs(q, r, batch, scene, n)
                                /\ CastsUpTo(c, scene, p, e.order, e.up, batch, Len(batch))
  BY EmitQueue
<1>3. /\ e \in PublisherRec
      /\ e.base = [k \in Key |-> IF k \in HeldKeys(scene, p) THEN p.base[k] ELSE scene[k]]
      /\ e.owed = {k \in (p.owed \ SentKeys(scene, p)) \cup HeldKeys(scene, p) : scene[k] # Absent}
  BY DEF EmitOutcome
<1>4. q \in Seq(Out) /\ r \in Seq(Out) /\ p.order \in Order
  BY <1>3, PublisherFields, QueueIs
<1>5. /\ DOMAIN q \subseteq DOMAIN r /\ \A i \in DOMAIN q : r[i] = q[i]
      /\ \A i \in DOMAIN r \ DOMAIN q :
            /\ r[i].key \in SentKeys(scene, p) /\ r[i].val = scene[r[i].key] /\ r[i].seen = n
            /\ \A j \in DOMAIN q : j < i
            /\ \A j \in DOMAIN r \ DOMAIN q : r[j].key = r[i].key => j = i
      /\ \A k \in SentKeys(scene, p) : \E i \in DOMAIN r \ DOMAIN q : r[i].key = k
  <2> HIDE DEF q, r
  <2> QED
    BY <1>2, <1>4, ProlongedIs
<1>6. \A k \in Key : k \in e.order.superseded <=> k \in p.order.superseded /\ k \notin SentKeys(scene, p)
  <2>1. DOMAIN batch = 1 .. Len(batch)
    BY LenProperties
  <2>2. \A k \in Key : k \in e.order.superseded <=> /\ k \in p.order.superseded
                                                    /\ \A j \in 1 .. Len(batch) : batch[j] # k
    BY <1>2 DEF CastsUpTo
  <2> QED
    BY <1>2, <2>1, <2>2 DEF ToSet
<1>7. \A k \in Key : Castable(p.order, k, scene[k]) <=> scene[k] = Absent \/ ~HeldOff(q, k, scene[k])
  BY <1>4, CastableMeans
<1> HIDE DEF q, r
<1>8. ASSUME NEW k \in Key PROVE BaseAt(e.order, r, e.base, v, k)
  <2>1. CASE k \in SentKeys(scene, p)
    <3>1. e.base[k] = scene[k] /\ k \notin e.order.superseded
      BY <1>3, <1>6, <2>1 DEF SentKeys, HeldKeys
    <3>2. PICK z \in DOMAIN r \ DOMAIN q : r[z].key = k
      BY <1>5, <2>1
    <3>3. ASSUME NEW i \in DOMAIN r, IsLast(r, i, k) PROVE LastRight(e.order, r[i], e.base, v, k)
      <4>1. i = z
        <5>1. CASE i \in DOMAIN q
          <6>1. i < z
            BY <1>5, <3>2, <5>1
          <6> QED
            BY <3>2, <3>3, <6>1 DEF IsLast
        <5>2. CASE i \notin DOMAIN q
          <6>1. r[i].key = r[z].key
            BY <3>2, <3>3 DEF IsLast
          <6> QED
            BY <1>5, <3>2, <5>2, <6>1
        <5> QED
          BY <5>1, <5>2
      <4>2. r[i].val = scene[k] /\ r[i].seen = n
        BY <1>5, <3>2, <4>1
      <4>3. v[k].removed \in Nat /\ v[k].removed <= n
        BY DEF VerdictSound, Board
      <4>4. ~(v[k].removed > r[i].seen)
        BY <4>2, <4>3
      <4> QED
        BY <3>1, <4>2, <4>4 DEF LastRight
    <3> QED
      BY <3>2, <3>3 DEF BaseAt
  <2>2. CASE k \notin SentKeys(scene, p)
    <3>1. e.base[k] = p.base[k] /\ (k \in e.order.superseded <=> k \in p.order.superseded)
      BY <1>3, <1>6, <2>2 DEF SentKeys, HeldKeys
    <3>2. \A i \in DOMAIN r \ DOMAIN q : r[i].key # k
      BY <1>5, <2>2
    <3>3. BaseAt(p.order, q, p.base, v, k)
      BY <2>2 DEF q
    <3>4. ASSUME \A i \in DOMAIN r : r[i].key # k PROVE e.base[k] = v[k].val
      BY <1>5, <3>1, <3>3, <3>4 DEF BaseAt
    <3>5. ASSUME NEW i \in DOMAIN r, IsLast(r, i, k) PROVE LastRight(e.order, r[i], e.base, v, k)
      <4>1. i \in DOMAIN q /\ r[i] = q[i] /\ IsLast(q, i, k)
        BY <1>5, <3>2, <3>5 DEF IsLast
      <4> QED
        BY <3>1, <3>3, <4>1 DEF BaseAt, LastRight
    <3> QED
      BY <3>4, <3>5 DEF BaseAt
  <2> QED
    BY <2>1, <2>2
<1>9. ASSUME NEW k \in Key PROVE OwedAt(r, scene, e.base, e.owed, k)
  <2>1. CASE k \in HeldKeys(scene, p) /\ k \in e.owed
    <3>1. scene[k] # Absent /\ HeldOff(q, k, scene[k])
      BY <1>3, <1>7, <2>1 DEF HeldKeys
    <3>2. HeldOff(r, k, scene[k])
      BY <1>5, <3>1 DEF HeldOff
    <3> QED
      BY <3>1, <3>2 DEF OwedAt
  <2>2. CASE k \notin HeldKeys(scene, p)
    BY <1>3, <2>2 DEF OwedAt
  <2> QED
    BY <2>1, <2>2 DEF OwedAt
<1> QED
  BY <1>1, <1>3, <1>8, <1>9 DEF Follows, r

\* What a step that publishes at once leaves.
LEMMA PublishFollows ==
    ASSUME NEW c \in Client, NEW scene \in Scene, NEW p \in PublisherRec, NEW a \in Seq(Mutation),
           NEW n \in Nat, p.order.lastSeq = n, QueueRight(p.order, Queue(a, p.up), n),
           NEW v, VerdictSound(v, n),
           \A k \in Key \ SentKeys(scene, p) : BaseAt(p.order, Queue(a, p.up), p.base, v, k),
           Unforgotten(Publish(c, scene, FALSE, p).order)
    PROVE  Follows(scene, Publish(c, scene, FALSE, p), a, v, n)
<1> DEFINE e == Emit(c, scene, p)
           f == [e EXCEPT !.throttle = "idle"]
<1>1. EmitOutcome(c, scene, p, e) /\ e \in PublisherRec
  BY EmitIs DEF EmitOutcome
<1>2. Publish(c, scene, FALSE, p) = f
  BY DEF Publish
<1> HIDE DEF e
<1>3. f \in PublisherRec /\ f.base = e.base /\ f.owed = e.owed /\ f.order = e.order /\ f.up = e.up
  BY <1>1 DEF PublisherRec
<1> HIDE DEF f
<1>4. Follows(scene, e, a, v, n)
  BY <1>1, <1>2, <1>3, EmitFollows
<1> QED
  BY <1>2, <1>3, <1>4 DEF Follows

-------------------------------------------------------------------------------
(* Hearing an entry: its own echo takes the head of a client's queue, a peer's takes none. *)

Shortens(m, c, q, r) == IF m.src = c THEN Leads(Bare(m), r, q) ELSE r = q

\* What is heard of the log is gone from the queue's front.
LEMMA ShortenedQueue ==
    ASSUME NEW a \in Seq(Mutation), NEW b \in Seq(Mutation), NEW u \in Seq(Mutation),
           NEW m, NEW c, IF m.src = c THEN Leads(m, b, a) ELSE b = a
    PROVE  Shortens(m, c, Queue(a, u), Queue(b, u))
<1> DEFINE q == Queue(a, u)
           r == Queue(b, u)
<1>1. /\ Len(q) = Len(a) + Len(u) /\ Len(a) \in Nat /\ Len(u) \in Nat
      /\ \A j \in 1 .. Len(a) : q[j] = Bare(a[j])
      /\ \A j \in 1 .. Len(u) : q[Len(a) + j] = Bare(u[j])
  BY QueueIs
<1>2. /\ Len(r) = Len(b) + Len(u) /\ Len(b) \in Nat
      /\ \A j \in 1 .. Len(b) : r[j] = Bare(b[j])
      /\ \A j \in 1 .. Len(u) : r[Len(b) + j] = Bare(u[j])
  BY QueueIs
<1>3. CASE m.src = c
  <2>1. Len(a) = Len(b) + 1 /\ a[1] = m /\ \A i \in 1 .. Len(b) : a[i + 1] = b[i]
    BY <1>3 DEF Leads
  <2> HIDE DEF q, r
  <2>2. q[1] = Bare(m)
    <3>1. 1 \in 1 .. Len(a)
      BY <1>2, <2>1
    <3> QED
      BY <1>1, <2>1, <3>1
  <2>3. ASSUME NEW i \in 1 .. Len(r) PROVE q[i + 1] = r[i]
    <3>1. CASE i \in 1 .. Len(b)
      <4>1. i + 1 \in 1 .. Len(a)
        BY <1>2, <2>1, <3>1
      <4> QED
        BY <1>1, <1>2, <2>1, <3>1, <4>1
    <3>2. CASE i - Len(b) \in 1 .. Len(u)
      <4>1. Len(a) + (i - Len(b)) = i + 1 /\ Len(b) + (i - Len(b)) = i
        BY <1>2, <2>1
      <4> QED
        BY <1>1, <1>2, <3>2, <4>1
    <3> QED
      BY <1>1, <1>2, <3>1, <3>2
  <2>4. Len(q) = Len(r) + 1
    BY <1>1, <1>2, <2>1
  <2>5. Leads(Bare(m), r, q)
    BY <2>2, <2>3, <2>4 DEF Leads
  <2> QED
    BY <1>3, <2>5 DEF Shortens, q, r
<1>4. CASE m.src # c
  BY <1>4 DEF Shortens
<1> QED
  BY <1>3, <1>4

\* What is left of a queue after its head.
LEMMA LeadsIs ==
    ASSUME NEW q \in Seq(Out), NEW r \in Seq(Out), NEW x, Leads(x, r, q)
    PROVE  /\ Len(r) \in Nat /\ DOMAIN r = 1 .. Len(r) /\ DOMAIN q = 1 .. Len(r) + 1
           /\ Len(q) = Len(r) + 1 /\ 1 \in DOMAIN q /\ q[1] = x
           /\ \A i \in DOMAIN r : i + 1 \in DOMAIN q /\ q[i + 1] = r[i]
           /\ \A i \in DOMAIN q : i = 1 \/ (i - 1 \in DOMAIN r /\ r[i - 1] = q[i] /\ (i - 1) + 1 = i)
<1>1. /\ Len(r) \in Nat /\ DOMAIN r = 1 .. Len(r) /\ DOMAIN q = 1 .. Len(q)
      /\ Len(q) = Len(r) + 1 /\ q[1] = x /\ \A i \in 1 .. Len(r) : q[i + 1] = r[i]
  BY LenProperties DEF Leads
<1>2. \A i \in DOMAIN r : i + 1 \in DOMAIN q
  BY <1>1
<1>3. ASSUME NEW i \in DOMAIN q, i # 1
      PROVE  i - 1 \in DOMAIN r /\ (i - 1) + 1 = i /\ r[i - 1] = q[i]
  <2>1. i - 1 \in 1 .. Len(r) /\ (i - 1) + 1 = i
    BY <1>1, <1>3
  <2> QED
    BY <1>1, <2>1
<1>4. 1 \in DOMAIN q
  BY <1>1
<1> QED
  BY <1>1, <1>2, <1>3, <1>4

\* What an echo leaves marked as superseded: nothing, once its key settles.
LEMMA AckMarks ==
    ASSUME NEW o \in Order, NEW k \in Key
    PROVE  Ack(o, k).superseded = IF o.pending[k] = 1 THEN o.superseded \ {k} ELSE o.superseded
<1>1. o.pending \in [Key -> Nat]
  BY DEF Order
<1>2. CASE o.pending[k] = 1
  BY <1>1, <1>2 DEF Ack, Order
<1>3. CASE o.pending[k] # 1
  BY <1>1, <1>3 DEF Ack, Order
<1> QED
  BY <1>2, <1>3

\* What accept leaves of the marks, and of the counts.
AcceptedMarks(o, m, c, n) ==
    n.superseded = IF m.src = c
                   THEN IF o.pending[m.key] = 1 THEN o.superseded \ {m.key} ELSE o.superseded
                   ELSE IF Applies(o, m, c) /\ o.pending[m.key] > 0 THEN o.superseded \cup {m.key}
                   ELSE o.superseded

\* ... which is what accept does.
LEMMA AcceptMarks ==
    ASSUME NEW o \in Order, NEW m \in Mutation, m.seq \in Nat \ {0}, NEW c
    PROVE  AcceptedMarks(o, m, c, Accepted(o, m, c))
<1> DEFINE h == Heard(o, m)
           k == m.key
           n == Accepted(o, m, c)
<1>1. k \in Key
  BY DEF Mutation
<1>2. h \in Order /\ h.superseded = o.superseded /\ h.pending = o.pending
  BY <1>1, HeardFields DEF Keeps
<1>3. CASE m.src = c
  <2>1. n = MatchEcho(Ack(h, k), k)
    BY <1>3 DEF Accepted, OwnEcho
  <2> HIDE DEF h
  <2>2. Ack(h, k) \in Order
    BY <1>1, <1>2, AckFields DEF AckOutcome
  <2>3. n.superseded = Ack(h, k).superseded
    <3> DEFINE e == Ack(h, k)
    <3> HIDE DEF e, k, n
    <3>1. e \in Order /\ n = MatchEcho(e, k) /\ k \in Key
      BY <1>1, <2>1, <2>2 DEF e, k
    <3>2. MatchOutcome(e, k, n)
      BY <3>1, MatchEchoFields
    <3>3. n.superseded = e.superseded
      BY <3>2 DEF MatchOutcome
    <3> QED
      BY <3>3 DEF e
  <2>4. Ack(h, k).superseded = IF h.pending[k] = 1 THEN h.superseded \ {k} ELSE h.superseded
    BY <1>1, <1>2, AckMarks
  <2> QED
    BY <1>2, <1>3, <2>3, <2>4 DEF AcceptedMarks
<1>4. CASE m.src # c
  <2>1. n = IF Applies(o, m, c) /\ o.pending[k] > 0 THEN [h EXCEPT !.superseded = @ \cup {k}] ELSE h
    BY <1>4 DEF Accepted, Applies, OwnEcho
  <2> HIDE DEF h, n
  <2>2. n.superseded = IF Applies(o, m, c) /\ o.pending[k] > 0 THEN o.superseded \cup {k} ELSE o.superseded
    <3>1. CASE Applies(o, m, c) /\ o.pending[k] > 0
      BY <1>2, <2>1, <3>1 DEF Order
    <3>2. CASE ~(Applies(o, m, c) /\ o.pending[k] > 0)
      BY <1>2, <2>1, <3>2
    <3> QED
      BY <3>1, <3>2
  <2> QED
    BY <1>4, <2>2 DEF AcceptedMarks, n
<1> QED
  BY <1>3, <1>4

\* A queue that is right stays so.
LEMMA HeardQueue ==
    ASSUME NEW o \in Order, NEW q \in Seq(Out), NEW r \in Seq(Out), NEW n \in Nat,
           QueueRight(o, q, n), NEW m \in Mutation, m.seq \in Nat \ {0}, NEW c, Shortens(m, c, q, r)
    PROVE  QueueRight(Accepted(o, m, c), r, n + 1)
<1> DEFINE h == Heard(o, m)
           k == m.key
           z == Accepted(o, m, c)
<1>1. k \in Key /\ \A x \in Out : x.seen \in Nat
  BY DEF Mutation, Out
<1>2. h \in Order /\ Keeps(o, h)
  BY <1>1, HeardFields
<1>3. /\ Unforgotten(o) /\ GateHolds(o)
      /\ Len(o.casts) = Len(q)
      /\ \A i \in DOMAIN q : o.casts[i].key = q[i].key /\ (o.casts[i].remove <=> q[i].val = Absent)
      /\ \A j \in Key : o.pending[j] = Cardinality(CastsIn(q, j))
      /\ \A i, j \in DOMAIN q : i < j /\ q[i].key = q[j].key /\ q[i].val = Absent => q[j].val = Absent
      /\ \A i \in DOMAIN q : q[i].seen <= n /\ q[i].val \notin TooLarge
  BY DEF QueueRight
<1>4. \A i \in DOMAIN q : q[i].seen <= n + 1
  <2>1. Len(q) \in Nat /\ DOMAIN q = 1 .. Len(q) /\ \A i \in 1 .. Len(q) : q[i] \in Out
    BY LenProperties, ElementOfSeq
  <2> QED
    BY <1>1, <1>3, <2>1
<1>5. AcceptedOutcome(o, m, c, z)
  BY <1>1, AcceptedFields
<1> HIDE DEF h, z
<1>6. CASE m.src # c
  <2>1. /\ z.pending = o.pending /\ z.pendingRemoves = o.pendingRemoves
        /\ z.casts = o.casts /\ z.forgotten = o.forgotten /\ r = q
    BY <1>5, <1>6 DEF AcceptedOutcome, Shortens
  <2> QED
    BY <1>3, <1>4, <2>1 DEF QueueRight, Unforgotten, GateHolds, z
<1>7. CASE m.src = c
  <2> DEFINE e == Ack(h, k)
  <2>1. Leads(Bare(m), r, q)
    BY <1>7 DEF Shortens
  <2>2. /\ Len(r) \in Nat /\ DOMAIN r = 1 .. Len(r) /\ DOMAIN q = 1 .. Len(r) + 1
        /\ Len(q) = Len(r) + 1 /\ 1 \in DOMAIN q /\ q[1] = Bare(m)
        /\ \A i \in DOMAIN r : i + 1 \in DOMAIN q /\ q[i + 1] = r[i]
    BY <2>1, LeadsIs
  <2>3. q[1].key = k
    BY <2>2 DEF Bare
  <2>4. /\ e \in Order /\ e.pending = [o.pending EXCEPT ![k] = Less(@, 1)]
        /\ e.casts = o.casts /\ e.pendingRemoves = o.pendingRemoves /\ e.forgotten = o.forgotten
    <3> HIDE DEF e, k
    <3>1. AckOutcome(h, k, e)
      <4>1. h \in Order /\ k \in Key
        BY <1>1, <1>2
      <4> QED
        BY <4>1, AckFields DEF e
    <3> QED
      BY <1>2, <3>1 DEF AckOutcome, Keeps
  <2>5. z = MatchEcho(e, k)
    BY <1>5, <1>7 DEF AcceptedOutcome, h
  <2> HIDE DEF e, k
  <2>6. MatchOutcome(e, k, z)
    BY <1>1, <2>4, <2>5, MatchEchoFields
  <2>7. GateHolds(z)
    <3>1. GateHolds(e)
      BY <1>3, <2>4 DEF GateHolds
    <3> QED
      BY <1>1, <2>4, <2>5, <3>1, MatchEchoGate
  <2>8. e.forgotten[k] = 0 /\ 1 \in 1 .. Len(e.casts) /\ e.casts[1].key = k
    BY <1>1, <1>3, <2>2, <2>3, <2>4 DEF Unforgotten
  <2>9. PICK at \in 1 .. Len(e.casts) : /\ FirstAt(e, k, at)
                                        /\ z.casts = SubSeq(e.casts, at + 1, Len(e.casts))
                                        /\ z.forgotten = [j \in Key |-> 0]
    BY <2>6, <2>8 DEF MatchOutcome
  <2>10. at = 1
    BY <2>2, <2>8, <2>9 DEF FirstAt
  <2>11. Len(z.casts) = Len(r) /\ \A i \in 1 .. Len(r) : z.casts[i] = o.casts[i + 1]
    <3>1. z.casts = SubSeq(o.casts, 2, Len(o.casts)) /\ Len(o.casts) = Len(r) + 1 /\ o.casts \in Seq(Cast)
      BY <1>3, <2>2, <2>4, <2>9, <2>10 DEF Order
    <3> QED
      BY <2>2, <3>1, SubSeqProperties
  <2>12. Unforgotten(z)
    BY <2>9 DEF Unforgotten
  <2>13. ASSUME NEW j \in Key PROVE z.pending[j] = Cardinality(CastsIn(r, j))
    <3> DEFINE S == CastsIn(q, j)
               T == CastsIn(r, j)
               l == Len(q)
    <3>1. S \in SUBSET (1 .. l) /\ T \in SUBSET (1 .. l - 1) /\ l \in Nat
      BY <2>2 DEF CastsIn
    <3>2. \A i \in 1 .. l - 1 : i \in T <=> i + 1 \in S
      BY <2>2 DEF CastsIn
    <3>3. 1 \in S <=> j = k
      BY <2>2, <2>3 DEF CastsIn
    <3> HIDE DEF S, T, l
    <3>4. /\ Cardinality(T) \in Nat /\ Cardinality(S) \in Nat
          /\ Cardinality(T) = IF 1 \in S THEN Cardinality(S) - 1 ELSE Cardinality(S)
      <4>1. l \in Nat
        BY <3>1
      <4>2. S \in SUBSET (1 .. l)
        BY <3>1
      <4>3. T \in SUBSET (1 .. l - 1)
        BY <3>1
      <4> QED
        BY ONLY <3>2, <4>1, <4>2, <4>3, TailCount
    <3>5. o.pending[j] = Cardinality(S) /\ o.pending \in [Key -> Nat]
      BY <1>3 DEF S, Order
    <3>6. z.pending = e.pending
      BY <2>6 DEF MatchOutcome
    <3>7. z.pending[j] = Cardinality(T)
      BY <2>4, <3>3, <3>4, <3>5, <3>6 DEF Less
    <3> QED
      BY <3>7 DEF T
  <2>14. \A i \in DOMAIN r : z.casts[i].key = r[i].key /\ (z.casts[i].remove <=> r[i].val = Absent)
    BY <1>3, <2>2, <2>11
  <2>15. \A i, j \in DOMAIN r : i < j /\ r[i].key = r[j].key /\ r[i].val = Absent => r[j].val = Absent
    <3>1. ASSUME NEW i \in DOMAIN r, NEW j \in DOMAIN r, i < j, r[i].key = r[j].key, r[i].val = Absent
          PROVE  r[j].val = Absent
      <4>1. i + 1 < j + 1 /\ i + 1 \in DOMAIN q /\ j + 1 \in DOMAIN q
            /\ q[i + 1] = r[i] /\ q[j + 1] = r[j]
        BY <2>2, <3>1
      <4> QED
        BY <1>3, <3>1, <4>1
    <3> QED
      BY <3>1
  <2>16. \A i \in DOMAIN r : r[i].seen <= n + 1 /\ r[i].val \notin TooLarge
    BY <1>3, <1>4, <2>2
  <2> QED
    BY <2>7, <2>11, <2>12, <2>13, <2>14, <2>15, <2>16 DEF QueueRight, z
<1> QED
  BY <1>6, <1>7

\* Its own echo draws its key's count down.
LEMMA AcceptedPending ==
    ASSUME NEW o \in Order, NEW m \in Mutation, m.seq \in Nat \ {0}
    PROVE  Accepted(o, m, m.src).pending[m.key] = Less(o.pending[m.key], 1)
<1> DEFINE h == Heard(o, m)
           k == m.key
           e == Ack(h, k)
           z == Accepted(o, m, m.src)
<1>1. k \in Key
  BY DEF Mutation
<1>2. h \in Order /\ h.pending = o.pending /\ h.pending \in [Key -> Nat]
  BY <1>1, HeardFields DEF Keeps, Order
<1>3. z = MatchEcho(e, k)
  BY DEF Accepted, OwnEcho
<1> HIDE DEF h, k, e, z
<1>4. AckOutcome(h, k, e)
  BY <1>1, <1>2, AckFields DEF e
<1>5. e \in Order /\ e.pending = [h.pending EXCEPT ![k] = Less(@, 1)]
  BY <1>4 DEF AckOutcome
<1>6. MatchOutcome(e, k, z)
  BY <1>1, <1>3, <1>5, MatchEchoFields
<1>7. z.pending[k] = Less(o.pending[k], 1)
  BY <1>1, <1>2, <1>5, <1>6 DEF MatchOutcome
<1> QED
  BY <1>7 DEF z, k

\* Rule 4's ground, in the verdict.
Drops(v, m) == m.val # Absent /\ m.seen < v[m.key].removed

\* One more verdict.
LEMMA JudgeIs ==
    ASSUME NEW v \in Board, NEW m \in Mutation
    PROVE  LET w == Replica!Judge(v, m)
           IN  /\ \A k \in Key \ {m.key} : w[k] = v[k]
               /\ Drops(v, m) => w = v
               /\ ~Drops(v, m) => /\ w[m.key].val = m.val
                                  /\ w[m.key].removed = IF m.val = Absent THEN m.seq ELSE 0
<1>1. m.key \in Key
  BY DEF Mutation
<1> QED
  BY <1>1 DEF Replica!Judge, Drops, Board

\* What is applied to the canvas, of what the verdict does not drop.
Taken(o, m, c) == IF m.src = c THEN m.key \in o.superseded \/ (o.pending[m.key] = 1 /\ m.key \in OrderKey)
                  ELSE m.val = Absent \/ ~Suppressing(o, m.key)

\* An entry is applied iff the verdict does not drop it and nothing unacked holds it off.
LEMMA AppliesIs ==
    ASSUME NEW o \in Order, NEW n \in Nat, NEW v, VerdictSound(v, n),
           \A k \in Key : o.removed[k] = v[k].removed,
           NEW m \in Mutation, m.seq > o.seen[m.key], m.remove <=> m.val = Absent, NEW c
    PROVE  Applies(o, m, c) <=> ~Drops(v, m) /\ Taken(o, m, c)
<1>1. /\ m.key \in Key /\ m.seen \in Nat /\ v[m.key].removed \in Nat
      /\ o.removed[m.key] = v[m.key].removed
      /\ m.key \in OrderKey => v[m.key].removed = 0
  BY DEF Mutation, VerdictSound, Board
<1>2. m.seen # Unstamped
  BY <1>1 DEF Unstamped
<1>3. SupersededByRemove(o, m) <=> Drops(v, m)
  BY <1>1, <1>2 DEF SupersededByRemove, Drops
<1>4. m.key \in OrderKey => ~Drops(v, m)
  BY <1>1 DEF Drops
<1>5. Current(o, m)
  BY DEF Current
<1> QED
  BY <1>3, <1>4, <1>5 DEF Applies, Taken, OwnEcho

\* Where a key's last cast is after an entry, and what has gone if none is left.
LeavesLast(m, c, q, r, k) ==
    /\ \A i \in DOMAIN r : IsLast(r, i, k) =>
           \E j \in DOMAIN q : IsLast(q, j, k) /\ q[j] = r[i] /\ (m.src = c => j # 1)
    /\ (\A i \in DOMAIN r : r[i].key # k) =>
           IF m.src = c /\ m.key = k THEN IsLast(q, 1, k) ELSE \A i \in DOMAIN q : q[i].key # k
    /\ \A i \in DOMAIN r : \E j \in DOMAIN q : q[j] = r[i]

\* ... which is what an entry leaves.
LEMMA LastLeft ==
    ASSUME NEW q \in Seq(Out), NEW r \in Seq(Out), NEW m, NEW c, Shortens(m, c, q, r), NEW k
    PROVE  LeavesLast(m, c, q, r, k)
<1>1. CASE m.src # c
  BY <1>1 DEF Shortens, LeavesLast
<1>2. CASE m.src = c
  <2>1. /\ Len(r) \in Nat /\ DOMAIN r = 1 .. Len(r) /\ 1 \in DOMAIN q /\ q[1] = Bare(m)
        /\ \A i \in DOMAIN r : i + 1 \in DOMAIN q /\ q[i + 1] = r[i]
        /\ \A i \in DOMAIN q : i = 1 \/ (i - 1 \in DOMAIN r /\ r[i - 1] = q[i] /\ (i - 1) + 1 = i)
    BY <1>2, LeadsIs DEF Shortens
  <2>2. q[1].key = m.key
    BY <2>1 DEF Bare
  <2>3. ASSUME NEW i \in DOMAIN r, IsLast(r, i, k)
        PROVE  IsLast(q, i + 1, k) /\ q[i + 1] = r[i] /\ i + 1 # 1 /\ i + 1 \in DOMAIN q
    <3>1. i + 1 \in DOMAIN q /\ q[i + 1] = r[i] /\ i + 1 # 1 /\ i \in Nat
      BY <2>1
    <3>2. ASSUME NEW j \in DOMAIN q, i + 1 < j PROVE q[j].key # k
      <4>1. j # 1 /\ i < j - 1
        BY <2>1, <3>1, <3>2
      <4> QED
        BY <2>1, <2>3, <4>1 DEF IsLast
    <3> QED
      BY <2>3, <3>1, <3>2 DEF IsLast
  <2>4. ASSUME \A i \in DOMAIN r : r[i].key # k
        PROVE  IF m.key = k THEN IsLast(q, 1, k) ELSE \A i \in DOMAIN q : q[i].key # k
    <3>1. \A i \in DOMAIN q : i = 1 \/ q[i].key # k
      BY <2>1, <2>4
    <3> QED
      BY <2>1, <2>2, <3>1 DEF IsLast
  <2> QED
    BY <1>2, <2>1, <2>3, <2>4 DEF LeavesLast
<1> QED
  BY <1>1, <1>2

\* A key that the entry does not concern.
LEMMA OthersBase ==
    ASSUME NEW q \in Seq(Out), NEW r \in Seq(Out), NEW m, NEW c, Shortens(m, c, q, r),
           NEW k, k # m.key, NEW o, NEW z, NEW b, NEW d, NEW v, NEW w,
           BaseAt(o, q, b, v, k), d[k] = b[k], w[k] = v[k], k \in z.superseded <=> k \in o.superseded
    PROVE  BaseAt(z, r, d, w, k)
<1>0. LeavesLast(m, c, q, r, k)
  BY LastLeft
<1>1. ASSUME \A i \in DOMAIN r : r[i].key # k PROVE d[k] = w[k].val
  BY <1>0, <1>1 DEF BaseAt, LeavesLast
<1>2. ASSUME NEW i \in DOMAIN r, IsLast(r, i, k) PROVE LastRight(z, r[i], d, w, k)
  <2>1. PICK j \in DOMAIN q : IsLast(q, j, k) /\ q[j] = r[i]
    BY <1>0, <1>2 DEF LeavesLast
  <2> QED
    BY <2>1 DEF BaseAt, LastRight
<1> QED
  BY <1>1, <1>2 DEF BaseAt

(* The key of the entry: s and b are the canvas and the baseline before, t and d after it has
   been applied and adopted, and own is what is owed.                          *)
AdoptedAt(s, t, b, d, own, k) ==
    d[k] = IF t[k] = s[k] \/ (k \in own /\ t[k] # Absent) THEN b[k] ELSE t[k]

InStep(s, b, own, q, k) == OwedAt(q, s, b, own, k) /\ (k \notin own => s[k] = b[k])

GoesOut(r, t, d, k) == t[k] # d[k] /\ (t[k] = Absent \/ ~HeldOff(r, k, t[k]))

\* Everything that is so of the key k of an entry m that c hears.
Heeds(o, q, n, v, m, k, c, s, t, b, d, own, z, r) ==
    /\ QueueRight(o, q, n) /\ QueueRight(z, r, n + 1) /\ Shortens(m, c, q, r)
    /\ VerdictSound(v, n) /\ m.val \notin TooLarge /\ m.key = k
    /\ BaseAt(o, q, b, v, k) /\ InStep(s, b, own, q, k) /\ AdoptedAt(s, t, b, d, own, k)
    /\ t[k] = IF ~Drops(v, m) /\ Taken(o, m, c) THEN m.val ELSE s[k]
    /\ k \in z.superseded <=>
           IF m.src = c THEN k \in o.superseded /\ o.pending[k] # 1
           ELSE k \in o.superseded \/ (~Drops(v, m) /\ Taken(o, m, c) /\ o.pending[k] > 0)
    /\ m.src = c => z.pending[k] = Less(o.pending[k], 1)

\* A peer's edit, on its own key.
LEMMA PeersBase ==
    ASSUME NEW o \in Order, NEW z \in Order, NEW q \in Seq(Out), NEW r \in Seq(Out), NEW n \in Nat,
           NEW v, NEW m \in Mutation, NEW k \in Key, NEW c, NEW s, NEW t, NEW b, NEW d, NEW own,
           Heeds(o, q, n, v, m, k, c, s, t, b, d, own, z, r), m.src # c
    PROVE  BaseAt(z, r, d, Replica!Judge(v, m), k) \/ (t[k] # s[k] /\ GoesOut(r, t, d, k))
<1> DEFINE w       == Replica!Judge(v, m)
           applied == ~Drops(v, m) /\ Taken(o, m, c)
<1>0. /\ QueueRight(o, q, n) /\ r = q /\ v \in Board /\ m.val \notin TooLarge /\ m.key = k
      /\ BaseAt(o, q, b, v, k) /\ InStep(s, b, own, q, k) /\ AdoptedAt(s, t, b, d, own, k)
      /\ t[k] = IF applied THEN m.val ELSE s[k]
      /\ k \in z.superseded <=> k \in o.superseded \/ (applied /\ o.pending[k] > 0)
      /\ applied <=> ~Drops(v, m) /\ (m.val = Absent \/ ~Suppressing(o, k))
  BY DEF Heeds, Shortens, VerdictSound, Taken
<1>1. /\ Drops(v, m) => w = v
      /\ ~Drops(v, m) => /\ w[k].val = m.val
                         /\ w[k].removed = IF m.val = Absent THEN m.seq ELSE 0
  BY <1>0, JudgeIs
<1> SUFFICES BaseAt(z, r, d, w, k) \/ (t[k] # s[k] /\ GoesOut(r, t, d, k))
  OBVIOUS
<1> HIDE DEF w, applied
<1>2. o.pending[k] > 0 <=> \E i \in DOMAIN q : q[i].key = k
  <2>1. o.pending[k] = Cardinality(CastsIn(q, k))
    BY <1>0 DEF QueueRight
  <2>2. /\ Cardinality(CastsIn(q, k)) \in Nat
        /\ Cardinality(CastsIn(q, k)) = 0 <=> \A i \in DOMAIN q : q[i].key # k
    BY <1>0, PendingMeans
  <2> QED
    BY <2>1, <2>2
<1>3. \A i \in DOMAIN q : ~(0 > q[i].seen)
  <2>1. DOMAIN q = 1 .. Len(q) /\ \A i \in 1 .. Len(q) : q[i] \in Out
    BY <1>0, LenProperties, ElementOfSeq
  <2> QED
    BY <2>1 DEF Out
<1>4. CASE Drops(v, m)
  BY <1>0, <1>1, <1>4 DEF BaseAt, LastRight, AdoptedAt
<1>5. CASE ~Drops(v, m) /\ ~applied
  <2>1. o.pending[k] > 0 /\ m.val # Absent /\ w[k].removed = 0
    BY <1>0, <1>1, <1>5 DEF Suppressing
  <2> QED
    BY <1>0, <1>2, <1>3, <1>5, <2>1 DEF BaseAt, LastRight, AdoptedAt
<1>6. CASE ~Drops(v, m) /\ applied
  <2>1. t[k] = m.val
    BY <1>0, <1>6
  <2>2. CASE d[k] = m.val
    <3>1. ASSUME NEW i \in DOMAIN q, IsLast(q, i, k) PROVE LastRight(z, q[i], d, w, k)
      <4>1. k \in z.superseded
        BY <1>0, <1>2, <1>6, <3>1 DEF IsLast
      <4>2. w[k].removed > q[i].seen => m.val = Absent
        BY <1>0, <1>1, <1>3, <1>6
      <4> QED
        BY <2>2, <4>1, <4>2 DEF LastRight
    <3> QED
      BY <1>0, <1>1, <1>6, <2>2, <3>1 DEF BaseAt
  <2>3. CASE d[k] # m.val
    <3>1. k \in own /\ d[k] = b[k] /\ m.val # Absent
      BY <1>0, <2>1, <2>3 DEF AdoptedAt, InStep, OwedAt
    <3>2. w[k].removed = 0
      BY <1>0, <1>1, <1>6, <3>1
    <3>3. CASE \E i \in DOMAIN q : q[i].key = k
      <4>1. k \in z.superseded
        BY <1>0, <1>2, <1>6, <3>3
      <4> QED
        BY <1>0, <1>3, <3>2, <3>3, <4>1 DEF BaseAt, LastRight
    <3>4. CASE ~\E i \in DOMAIN q : q[i].key = k
      <4>1. ~HeldOff(q, k, m.val)
        BY <1>0, <3>4 DEF HeldOff
      <4>2. t[k] # s[k]
        BY <1>0, <2>1, <2>3, <3>1, <4>1 DEF InStep, OwedAt
      <4> QED
        BY <1>0, <2>1, <2>3, <4>1, <4>2 DEF GoesOut
    <3> QED
      BY <3>3, <3>4
  <2> QED
    BY <2>2, <2>3
<1> QED
  BY <1>4, <1>5, <1>6

\* An echo, on its own key.
LEMMA OwnBase ==
    ASSUME NEW o \in Order, NEW z \in Order, NEW q \in Seq(Out), NEW r \in Seq(Out), NEW n \in Nat,
           NEW v, NEW m \in Mutation, NEW k \in Key, NEW c, NEW s, NEW t, NEW b, NEW d, NEW own,
           Heeds(o, q, n, v, m, k, c, s, t, b, d, own, z, r), m.src = c
    PROVE  BaseAt(z, r, d, Replica!Judge(v, m), k) \/ (t[k] # s[k] /\ GoesOut(r, t, d, k))
<1> DEFINE w       == Replica!Judge(v, m)
           applied == ~Drops(v, m) /\ Taken(o, m, c)
<1>0. /\ QueueRight(o, q, n) /\ QueueRight(z, r, n + 1) /\ Leads(Bare(m), r, q)
      /\ VerdictSound(v, n) /\ v \in Board /\ m.val \notin TooLarge /\ m.key = k
      /\ BaseAt(o, q, b, v, k) /\ InStep(s, b, own, q, k) /\ AdoptedAt(s, t, b, d, own, k)
      /\ t[k] = IF applied THEN m.val ELSE s[k]
      /\ k \in z.superseded <=> k \in o.superseded /\ o.pending[k] # 1
      /\ applied <=> ~Drops(v, m) /\ (k \in o.superseded \/ (o.pending[k] = 1 /\ k \in OrderKey))
      /\ z.pending[k] = Less(o.pending[k], 1)
  BY DEF Heeds, Shortens, VerdictSound, Taken
<1>1. /\ Drops(v, m) => w = v
      /\ ~Drops(v, m) => /\ w[k].val = m.val
                         /\ w[k].removed = IF m.val = Absent THEN m.seq ELSE 0
  BY <1>0, JudgeIs DEF VerdictSound
<1> SUFFICES BaseAt(z, r, d, w, k) \/ (t[k] # s[k] /\ GoesOut(r, t, d, k))
  OBVIOUS
<1> HIDE DEF w, applied
<1>2. /\ DOMAIN r = 1 .. Len(r) /\ 1 \in DOMAIN q /\ q[1] = Bare(m)
      /\ \A i \in DOMAIN r : i + 1 \in DOMAIN q /\ q[i + 1] = r[i] /\ i + 1 > 1
      /\ \A i \in DOMAIN q : i = 1 \/ (i - 1 \in DOMAIN r /\ r[i - 1] = q[i] /\ i > 1)
  BY <1>0, LeadsIs
<1>3. q[1].key = k /\ q[1].val = m.val /\ q[1].seen = m.seen
  BY <1>0, <1>2 DEF Bare
<1>4. o.pending[k] = 1 <=> \A i \in DOMAIN r : r[i].key # k
  <2>1. o.pending[k] = Cardinality(CastsIn(q, k)) /\ z.pending[k] = Cardinality(CastsIn(r, k))
    BY <1>0 DEF QueueRight
  <2>2. /\ Cardinality(CastsIn(q, k)) \in Nat
        /\ Cardinality(CastsIn(q, k)) = 0 <=> \A i \in DOMAIN q : q[i].key # k
    BY <1>0, PendingMeans
  <2>3. Cardinality(CastsIn(r, k)) = 0 <=> \A i \in DOMAIN r : r[i].key # k
    BY <1>0, PendingMeans
  <2>4. Cardinality(CastsIn(q, k)) # 0
    BY <1>0, <1>2, <1>3, <2>2
  <2> QED
    BY <1>0, <2>1, <2>2, <2>3, <2>4 DEF Less
<1>5. \A i \in DOMAIN r : ~(0 > r[i].seen)
  <2>1. DOMAIN r = 1 .. Len(r) /\ \A i \in 1 .. Len(r) : r[i] \in Out
    BY <1>0, LenProperties, ElementOfSeq
  <2> QED
    BY <2>1 DEF Out
<1>6. LeavesLast(m, m.src, q, r, k)
  BY <1>0, LastLeft DEF Shortens
<1>7. CASE \E i \in DOMAIN r : r[i].key = k
  <2>1. k \in z.superseded <=> k \in o.superseded
    BY <1>0, <1>4, <1>7
  <2>2. ASSUME NEW i \in DOMAIN r, IsLast(r, i, k) PROVE LastRight(z, r[i], d, w, k)
    <3>1. PICK j \in DOMAIN q : IsLast(q, j, k) /\ q[j] = r[i] /\ j # 1
      BY <1>0, <1>6, <2>2 DEF LeavesLast
    <3>2. LastRight(o, r[i], b, v, k)
      BY <1>0, <3>1 DEF BaseAt
    <3>3. m.val = Absent => r[i].val = Absent
      <4>1. 1 < j /\ q[1].key = q[j].key
        BY <1>0, <1>2, <1>3, <3>1 DEF IsLast
      <4> QED
        BY <1>0, <1>2, <1>3, <3>1, <4>1 DEF QueueRight
    <3>4. CASE Drops(v, m)
      <4>1. d[k] = b[k] /\ w = v
        BY <1>0, <1>1, <3>4 DEF AdoptedAt
      <4> QED
        BY <2>1, <3>2, <4>1 DEF LastRight
    <3>5. CASE ~Drops(v, m)
      <4>1. w[k].removed > r[i].seen => r[i].val = Absent
        BY <1>0, <1>1, <1>5, <3>3, <3>5
      <4>2. k \notin o.superseded => d[k] = b[k]
        BY <1>0, <1>4, <1>7 DEF AdoptedAt
      <4> QED
        BY <2>1, <3>2, <4>1, <4>2 DEF LastRight
    <3> QED
      BY <3>4, <3>5
  <2> QED
    BY <1>0, <1>7, <2>2 DEF BaseAt
<1>8. CASE \A i \in DOMAIN r : r[i].key # k
  <2>1. LastRight(o, q[1], b, v, k)
    <3>1. ASSUME NEW j \in DOMAIN q, 1 < j PROVE q[j].key # k
      <4>1. j # 1
        BY <3>1
      <4>2. j - 1 \in DOMAIN r /\ r[j - 1] = q[j]
        BY <1>2, <4>1
      <4> QED
        BY <1>8, <4>2
    <3>2. IsLast(q, 1, k)
      BY <1>2, <1>3, <3>1 DEF IsLast
    <3> QED
      BY <1>0, <1>2, <3>2 DEF BaseAt
  <2>2. BaseAt(z, r, d, w, k) <=> d[k] = w[k].val
    BY <1>0, <1>8 DEF BaseAt, IsLast
  <2>3. CASE Drops(v, m)
    <3>1. b[k] = Absent /\ d[k] = b[k] /\ w = v
      BY <1>0, <1>1, <1>3, <2>1, <2>3 DEF LastRight, Drops, AdoptedAt
    <3>2. v[k].removed > 0
      <4>1. m.seen \in Nat /\ v[k].removed \in Nat /\ m.seen < v[k].removed
        BY <1>0, <2>3 DEF Drops, Mutation, VerdictSound, Board
      <4> QED
        BY <4>1
    <3> QED
      BY <1>0, <2>2, <3>1, <3>2 DEF VerdictSound
  <2>4. CASE ~Drops(v, m) /\ d[k] # m.val
    <3>1. k \in o.superseded /\ t[k] = m.val
      BY <1>0, <1>3, <2>1, <2>4 DEF LastRight, AdoptedAt
    <3>2. k \in own /\ m.val # Absent /\ d[k] = b[k]
      BY <1>0, <2>4, <3>1 DEF AdoptedAt, InStep, OwedAt
    <3>3. ~HeldOff(r, k, m.val)
      BY <1>0, <1>8 DEF HeldOff
    <3>4. ~HeldOff(q, k, m.val)
      <4>1. ASSUME NEW i \in DOMAIN q, q[i].key = k, q[i].val = Absent PROVE FALSE
        <5>1. CASE i = 1
          BY <1>0, <1>3, <3>2, <4>1, <5>1
        <5>2. CASE i # 1
          BY <1>0, <1>2, <1>8, <4>1, <5>2
        <5> QED
          BY <5>1, <5>2
      <4> QED
        BY <1>0, <4>1 DEF HeldOff
    <3>5. t[k] # s[k]
      BY <1>0, <2>4, <3>1, <3>2, <3>4 DEF InStep, OwedAt
    <3> QED
      BY <2>4, <3>1, <3>3, <3>5 DEF GoesOut
  <2> QED
    BY <1>0, <1>1, <2>2, <2>3, <2>4
<1> QED
  BY <1>7, <1>8

\* An echo that leaves a value of k uncast, and no longer held off, has opened k's gate.
LEMMA GateOpens ==
    ASSUME NEW o \in Order, NEW z \in Order, NEW q \in Seq(Out), NEW r \in Seq(Out), NEW n \in Nat,
           QueueRight(o, q, n), QueueRight(z, r, n + 1), NEW k \in Key, NEW x,
           HeldOff(q, k, x), ~HeldOff(r, k, x)
    PROVE  z.pendingRemoves[k] < o.pendingRemoves[k]
<1>1. HasPendingRemove(o, k) <=> \E i \in DOMAIN q : q[i].key = k /\ q[i].val = Absent
  BY GateMeans
<1>2. n + 1 \in Nat
  OBVIOUS
<1>3. HasPendingRemove(z, k) <=> \E i \in DOMAIN r : r[i].key = k /\ r[i].val = Absent
  BY <1>2, GateMeans
<1>4. HasPendingRemove(o, k) /\ ~HasPendingRemove(z, k)
  BY <1>1, <1>3 DEF HeldOff
<1>5. o.pendingRemoves[k] \in Nat /\ z.pendingRemoves[k] \in Nat
  BY DEF Order
<1> QED
  BY <1>4, <1>5 DEF HasPendingRemove

-------------------------------------------------------------------------------
(* The replica's invariant, on the states.                                     *)

\* What the log still has to answer c, and everyone in step with their publisher.
Own(c)   == {m \in Mutation : m.src = c}
Ahead(c) == Only(SubSeq(log, pos[c] + 1, Len(log)), Own(c))

FollowInv == \A c \in Client : Follows(canvas[c], Publisher(c), Ahead(c), V(c), pos[c])

\* What the log still has to answer is a list of mutations.
LEMMA AheadType ==
    ASSUME TypeOK, NEW c \in Client
    PROVE  Ahead(c) \in Seq(Mutation)
<1>1. log \in Seq(Mutation) /\ pos[c] \in 0 .. Len(log)
  BY LogType
<1>2. SubSeq(log, pos[c] + 1, Len(log)) \in Seq(Mutation)
  BY <1>1, RestList
<1> QED
  BY <1>2, OnlyType DEF Ahead

\* An entry takes itself off the queue of its sender.
LEMMA AheadHears ==
    ASSUME TypeOK, NEW c \in Client, Hear(c)
    PROVE  /\ Ahead(c) \in Seq(Mutation) /\ Ahead(c)' \in Seq(Mutation)
           /\ IF Entry(c).src = c THEN Leads(Entry(c), Ahead(c)', Ahead(c)) ELSE Ahead(c)' = Ahead(c)
           /\ \A d \in Client \ {c} : Ahead(d)' = Ahead(d)
<1> DEFINE n == pos[c]
           t == SubSeq(log, n + 1, Len(log))
<1>1. /\ n < Len(log) /\ pos' = [pos EXCEPT ![c] = @ + 1] /\ log' = log
  BY HearIs
<1>2. log \in Seq(Mutation) /\ n \in 0 .. Len(log) /\ Len(log) \in Nat /\ n \in Nat
      /\ pos \in [Client -> 0 .. Len(log)] /\ DOMAIN log = 1 .. Len(log)
  BY LogType
<1>3. pos'[c] = n + 1 /\ \A d \in Client \ {c} : pos'[d] = pos[d]
  BY <1>1, <1>2
<1>4. \A d \in Client \ {c} : Ahead(d)' = Ahead(d)
  BY <1>1, <1>3 DEF Ahead, Own
<1>5. t \in Seq(Mutation) /\ DOMAIN t = 1 .. Len(log) - n
  BY <1>2, RestList
<1>6. t # << >>
  <2>1. Len(t) = Len(log) - n
    BY <1>1, <1>2, <1>5, LenProperties
  <2> HIDE DEF t
  <2> QED
    BY <1>1, <1>2, <1>5, <2>1, EmptySeq
<1>7. Head(t) = log[n + 1] /\ Tail(t) = SubSeq(log, (n + 1) + 1, Len(log)) /\ n + 1 \in DOMAIN log
  BY <1>2, <1>6, RestHead
<1>8. t[1] = Entry(c) /\ Entry(c) \in Mutation
  <2>1. t[1] = Head(t)
    <3> HIDE DEF t
    <3> QED
      BY <1>5, <1>6
  <2>2. log[n + 1] \in Mutation
    BY <1>2, <1>7, ElementOfSeq
  <2> QED
    BY <1>7, <2>1, <2>2 DEF Entry
<1>9. Ahead(c) = Only(t, Own(c)) /\ Ahead(c)' = Only(Tail(t), Own(c))
  BY <1>1, <1>3, <1>7 DEF Ahead, Own
<1> HIDE DEF t
<1>10. IF Entry(c) \in Own(c) THEN Leads(Entry(c), Only(Tail(t), Own(c)), Only(t, Own(c)))
       ELSE Only(Tail(t), Own(c)) = Only(t, Own(c))
  BY <1>5, <1>6, <1>8, OnlyTail
<1>11. Ahead(c) \in Seq(Mutation) /\ Ahead(c)' \in Seq(Mutation)
  <2>1. Tail(t) \in Seq(Mutation)
    BY <1>5, <1>6, HeadTailProperties
  <2> QED
    BY <1>5, <1>9, <2>1, OnlyType
<1>12. Entry(c) \in Own(c) <=> Entry(c).src = c
  BY <1>8 DEF Own
<1> QED
  BY <1>4, <1>9, <1>10, <1>11, <1>12

\* A step of c that the log has no part in.
LEMMA LocalFollows ==
    ASSUME TypeOK, FollowInv, NEW c \in Client, NEW scene \in Scene, NEW p \in PublisherRec,
           Becomes(c, scene, p), Follows(scene, p, Ahead(c), V(c), pos[c]), log' = log, pos' = pos
    PROVE  FollowInv'
<1>1. /\ canvas' = [canvas EXCEPT ![c] = scene] /\ Publisher(c)' = p
      /\ \A d \in Client \ {c} : Publisher(d)' = Publisher(d)
  BY BecomesIs
<1>2. canvas'[c] = scene /\ \A d \in Client \ {c} : canvas'[d] = canvas[d]
  BY <1>1 DEF TypeOK
<1>3. \A d \in Client : Ahead(d)' = Ahead(d) /\ V(d)' = V(d) /\ pos'[d] = pos[d]
  BY DEF Ahead, Own, V
<1>4. ASSUME NEW d \in Client
      PROVE  Follows(canvas'[d], Publisher(d)', Ahead(d)', V(d)', pos'[d])
  <2>1. CASE d = c
    BY <1>1, <1>2, <1>3, <2>1
  <2>2. CASE d # c
    BY <1>1, <1>2, <1>3, <2>2 DEF FollowInv
  <2> QED
    BY <2>1, <2>2
<1> QED
  BY <1>4 DEF FollowInv

\* The publisher that has heard the entry and adopted the canvas it left.
LEMMA AdoptedIs ==
    ASSUME TypeOK, LogRight, NEW c \in Client, Hear(c), PublisherFits(canvas[c], Publisher(c)),
           \A k \in owed[c] : canvas[c][k] # Absent
    PROVE  /\ Adopted(c) \in PublisherRec
           /\ Adopted(c).order = Accepted(order[c], Entry(c), c)
           /\ Adopted(c).up = up[c] /\ Adopted(c).owed = owed[c]
           /\ \A k \in Key : AdoptedAt(canvas[c], HeardScene(c), base[c], Adopted(c).base, owed[c], k)
           /\ HeardScene(c) = canvas[c] => Adopted(c).base = base[c]
<1> DEFINE h == HeardBy(Publisher(c), Entry(c), c)
           z == Accepted(order[c], Entry(c), c)
           t == HeardScene(c)
           keep  == {k \in owed[c] : t[k] # Absent}
           based == [k \in Key |-> IF k \in keep THEN base[c][k] ELSE t[k]]
<1>1. /\ Publisher(c) \in PublisherRec /\ canvas[c] \in Scene /\ t \in Scene
      /\ Entry(c) \in Mutation /\ Entry(c).seq \in Nat \ {0} /\ Entry(c).key \in Key
  <2>1. pos[c] < Len(log)
    BY HearIs
  <2>2. Entry(c).seq = pos[c] + 1 /\ pos[c] \in Nat
    BY <2>1, EntryIs
  <2> QED
    BY <2>1, <2>2, EntryIs, HeardSceneType, PublisherType
<1>2. /\ Publisher(c).order = order[c] /\ Publisher(c).base = base[c] /\ Publisher(c).owed = owed[c]
      /\ Publisher(c).up = up[c] /\ order[c] \in Order /\ base[c] \in Scene /\ owed[c] \in SUBSET Key
  BY <1>1, PublisherFields DEF Publisher
<1>3. z \in Order
  BY <1>1, <1>2, AcceptedFields DEF AcceptedOutcome
<1>4. h = [Publisher(c) EXCEPT !.order = z]
  BY <1>2 DEF HeardBy
<1> HIDE DEF z, h, t
<1>5. /\ h \in PublisherRec /\ h.order = z /\ h.base = base[c] /\ h.owed = owed[c] /\ h.up = up[c]
      /\ h.throttle = throttle[c]
  <2>1. Publisher(c).throttle = throttle[c]
    BY DEF Publisher
  <2> QED
    BY <1>1, <1>2, <1>3, <1>4, <2>1 DEF PublisherRec
<1>6. throttle[c] = "idle" /\ \A k \in Key \ owed[c] : canvas[c][k] = base[c][k]
  BY <1>2 DEF PublisherFits, Publisher
<1>7. CASE t = canvas[c]
  <2>1. Adopted(c) = h
    BY <1>7 DEF Adopted, h, t
  <2>2. \A k \in Key : AdoptedAt(canvas[c], t, base[c], base[c], owed[c], k)
    BY <1>7 DEF AdoptedAt
  <2> QED
    BY <1>5, <2>1, <2>2 DEF t, z
<1>8. CASE t # canvas[c]
  <2>1. Adopted(c) = Adopt(t, h)
    BY <1>8 DEF Adopted, h, t
  <2>2. Adopt(t, h) = [h EXCEPT !.base = based, !.throttle = "idle"]
    BY <1>5, <1>6 DEF Adopt, PublisherRec
  <2>3. based \in Scene
    BY <1>1, <1>2 DEF Scene
  <2>4. ASSUME NEW k \in Key PROVE AdoptedAt(canvas[c], t, base[c], based, owed[c], k)
    BY <1>6 DEF AdoptedAt
  <2> HIDE DEF based
  <2>5. /\ Adopted(c) \in PublisherRec /\ Adopted(c).order = z /\ Adopted(c).base = based
        /\ Adopted(c).owed = owed[c] /\ Adopted(c).up = up[c]
    BY <1>5, <2>1, <2>2, <2>3 DEF PublisherRec
  <2> QED
    BY <1>8, <2>4, <2>5 DEF t, z
<1> QED
  BY <1>7, <1>8

\* A publisher that ends with nothing forgotten has forgotten nothing on the way.
LEMMA PublishUnforgotten ==
    ASSUME NEW c \in Client, NEW scene \in Scene, NEW p \in PublisherRec,
           Unforgotten(Publish(c, scene, FALSE, p).order)
    PROVE  Unforgotten(p.order)
<1> DEFINE e == Emit(c, scene, p)
           f == [e EXCEPT !.throttle = "idle"]
<1>1. EmitOutcome(c, scene, p, e) /\ e \in PublisherRec
  BY EmitIs DEF EmitOutcome
<1>2. Publish(c, scene, FALSE, p) = f
  BY DEF Publish
<1> HIDE DEF e
<1>3. f.order = e.order
  BY <1>1 DEF PublisherRec
<1> HIDE DEF f
<1>4. Unforgotten(e.order)
  BY <1>2, <1>3
<1> QED
  BY <1>1, <1>4 DEF EmitOutcome, CastsUpTo

\* Publishing hears nothing.
LEMMA PublishKeepsSeqs ==
    ASSUME NEW c \in Client, NEW scene \in Scene, NEW p \in PublisherRec
    PROVE  Publish(c, scene, FALSE, p).order.lastSeq = p.order.lastSeq
<1> DEFINE e == Emit(c, scene, p)
           f == [e EXCEPT !.throttle = "idle"]
<1>1. EmitOutcome(c, scene, p, e) /\ e \in PublisherRec
  BY EmitIs DEF EmitOutcome
<1>2. Publish(c, scene, FALSE, p) = f
  BY DEF Publish
<1> HIDE DEF e
<1>3. f.order = e.order
  BY <1>1 DEF PublisherRec
<1> HIDE DEF f
<1>4. e.order.lastSeq = p.order.lastSeq
  BY <1>1 DEF EmitOutcome, CastsUpTo, KeepsOrder
<1> QED
  BY <1>2, <1>3, <1>4

\* Everything that is so when c hears m: the queue, the verdict and what is owed, and what is
\* left of each.
Hearing(o, q, n, v, m, c, s, t, b, d, own, z, r) ==
    /\ QueueRight(o, q, n) /\ Shortens(m, c, q, r) /\ z = Accepted(o, m, c)
    /\ VerdictSound(v, n) /\ \A k \in Key : o.removed[k] = v[k].removed
    /\ m.seq \in Nat \ {0} /\ m.seq > o.seen[m.key]
    /\ (m.remove <=> m.val = Absent) /\ m.val \notin TooLarge
    /\ \A k \in Key : /\ BaseAt(o, q, b, v, k) /\ InStep(s, b, own, q, k)
                      /\ AdoptedAt(s, t, b, d, own, k)
                      /\ t[k] = IF Applies(o, m, c) /\ k = m.key THEN m.val ELSE s[k]

\* What a peer's edit and its own echo leave a client that adopts: everything in step but,
\* at most, a key of a canvas that changed, whose value is about to be cast.
LEMMA HeardBase ==
    ASSUME NEW o \in Order, NEW n \in Nat, NEW q \in Seq(Out), NEW r \in Seq(Out),
           NEW v, NEW m \in Mutation, NEW c, NEW s, NEW t, NEW b, NEW d, NEW own, NEW z,
           Hearing(o, q, n, v, m, c, s, t, b, d, own, z, r), NEW k \in Key
    PROVE  \/ BaseAt(z, r, d, Replica!Judge(v, m), k)
           \/ t[k] # s[k] /\ GoesOut(r, t, d, k)
<1> DEFINE w       == Replica!Judge(v, m)
           applied == Applies(o, m, c)
<1>0. /\ QueueRight(o, q, n) /\ Shortens(m, c, q, r) /\ z = Accepted(o, m, c)
      /\ VerdictSound(v, n) /\ \A x \in Key : o.removed[x] = v[x].removed
      /\ m.seq \in Nat \ {0} /\ m.seq > o.seen[m.key]
      /\ (m.remove <=> m.val = Absent) /\ m.val \notin TooLarge
      /\ BaseAt(o, q, b, v, k) /\ InStep(s, b, own, q, k) /\ AdoptedAt(s, t, b, d, own, k)
      /\ t[k] = IF applied /\ k = m.key THEN m.val ELSE s[k]
  BY DEF Hearing
<1>1. v \in Board /\ m.key \in Key
  BY <1>0 DEF VerdictSound, Mutation
<1>2. QueueRight(z, r, n + 1)
  BY <1>0, HeardQueue
<1>3. AcceptedMarks(o, m, c, z) /\ z \in Order
  BY <1>0, <1>1, AcceptMarks, AcceptedFields DEF AcceptedOutcome
<1>4. applied <=> ~Drops(v, m) /\ Taken(o, m, c)
  BY <1>0, AppliesIs
<1>5. applied \in BOOLEAN
  BY DEF Applies
<1> HIDE DEF applied
<1>6. CASE k # m.key
  <2>1. d[k] = b[k]
    BY <1>0, <1>6 DEF AdoptedAt
  <2>2. w[k] = v[k]
    BY <1>1, <1>6, JudgeIs
  <2>3. k \in z.superseded <=> k \in o.superseded
    BY <1>3, <1>6 DEF AcceptedMarks
  <2> HIDE DEF w
  <2>4. BaseAt(z, r, d, w, k)
    BY <1>0, <1>6, <2>1, <2>2, <2>3, OthersBase
  <2> QED
    BY <2>4 DEF w
<1>7. CASE k = m.key
  <2>1. t[k] = IF applied THEN m.val ELSE s[k]
    BY <1>0, <1>7
  <2>2. k \in z.superseded <=>
            IF m.src = c THEN k \in o.superseded /\ o.pending[k] # 1
            ELSE k \in o.superseded \/ (applied /\ o.pending[k] > 0)
    BY <1>3, <1>7 DEF AcceptedMarks, applied
  <2>3. m.src = c => z.pending[k] = Less(o.pending[k], 1)
    BY <1>0, <1>1, <1>7, AcceptedPending
  <2>4. Heeds(o, q, n, v, m, k, c, s, t, b, d, own, z, r)
    BY <1>0, <1>2, <1>4, <1>7, <2>1, <2>2, <2>3 DEF Heeds
  <2>5. CASE m.src = c
    BY <1>3, <2>4, <2>5, OwnBase
  <2>6. CASE m.src # c
    BY <1>3, <2>4, <2>6, PeersBase
  <2> QED
    BY <2>5, <2>6
<1> QED
  BY <1>6, <1>7

\* What the publisher of a canvas t makes of what it has adopted: it publishes what a gate held,
\* and then, if the canvas is not the one it was, the canvas.
Sends(c, s, t, p, opened, e) ==
    LET freed == IF opened THEN Publish(c, t, FALSE, p) ELSE p
    IN  e = IF t # s THEN Publish(c, t, FALSE, freed) ELSE freed

\* It ends in step with the canvas.
LEMMA SendsFollows ==
    ASSUME NEW c \in Client, NEW s, NEW t \in Scene, NEW p \in PublisherRec, NEW a \in Seq(Mutation),
           NEW n \in Nat, QueueRight(p.order, Queue(a, p.up), n), NEW v, VerdictSound(v, n),
           \A k \in Key \ SentKeys(t, p) : BaseAt(p.order, Queue(a, p.up), p.base, v, k),
           NEW opened \in BOOLEAN, NEW e, Sends(c, s, t, p, opened, e),
           t = s => \A k \in Key : BaseAt(p.order, Queue(a, p.up), p.base, v, k),
           t = s /\ ~opened => \A k \in Key : OwedAt(Queue(a, p.up), t, p.base, p.owed, k),
           e.order.lastSeq = n, Unforgotten(e.order)
    PROVE  Follows(t, e, a, v, n)
<1> DEFINE f == Publish(c, t, FALSE, p)
           g == Publish(c, t, FALSE, f)
<1>1. f \in PublisherRec
  BY PublishType
<1>2. f.order.lastSeq = p.order.lastSeq /\ g.order.lastSeq = f.order.lastSeq
  BY <1>1, PublishKeepsSeqs
<1>3. /\ Unforgotten(f.order) /\ p.order.lastSeq = n => Follows(t, f, a, v, n)
  BY PublishFollows
<1>4. Unforgotten(g.order) => Unforgotten(f.order)
  BY <1>1, PublishUnforgotten
<1>5. ASSUME Follows(t, f, a, v, n), Unforgotten(g.order), f.order.lastSeq = n
      PROVE  Follows(t, g, a, v, n)
  <2>1. /\ QueueRight(f.order, Queue(a, f.up), n)
        /\ \A k \in Key \ SentKeys(t, f) : BaseAt(f.order, Queue(a, f.up), f.base, v, k)
    BY <1>5 DEF Follows
  <2> HIDE DEF f
  <2> QED
    BY <1>1, <1>5, <2>1, PublishFollows
<1>6. e = IF t # s THEN (IF opened THEN g ELSE f) ELSE (IF opened THEN f ELSE p)
  BY DEF Sends
<1> HIDE DEF f, g
<1>7. CASE t # s /\ opened
  BY <1>2, <1>3, <1>4, <1>5, <1>6, <1>7
<1>8. CASE t # s /\ ~opened
  BY <1>2, <1>3, <1>6, <1>8
<1>9. CASE t = s /\ opened
  BY <1>2, <1>3, <1>6, <1>9
<1>10. CASE t = s /\ ~opened
  BY <1>6, <1>10 DEF Follows
<1> QED
  BY <1>7, <1>8, <1>9, <1>10

\* The record holds every cast that is out, with l of them gone from the bus.
Remembers(p, l) == Unforgotten(p.order) /\ Len(p.order.casts) = l + Len(p.up)

\* Publishing only adds to the bus, and keeps the record as long as what is out fits in it.
LEMMA PublishRemembers ==
    ASSUME NEW c \in Client, NEW scene \in Scene, NEW p \in PublisherRec, NEW l \in Nat,
           NEW f, f = Publish(c, scene, FALSE, p)
    PROVE  /\ f \in PublisherRec /\ Len(f.up) >= Len(p.up)
           /\ Remembers(p, l) /\ l + Len(f.up) <= LocalCastsMax => Remembers(f, l)
<1> DEFINE e == Emit(c, scene, p)
           g == [e EXCEPT !.throttle = "idle"]
<1>1. EmitOutcome(c, scene, p, e) /\ e \in PublisherRec
  BY EmitIs DEF EmitOutcome
<1>2. f = g /\ f \in PublisherRec
  BY PublishType DEF Publish
<1> HIDE DEF e
<1>3. g.order = e.order /\ g.up = e.up
  BY <1>1 DEF PublisherRec
<1> HIDE DEF g
<1>4. PICK batch \in Seq(Key) : CastsUpTo(c, scene, p, f.order, f.up, batch, Len(batch))
  BY <1>1, <1>2, <1>3 DEF EmitOutcome
<1> DEFINE n == Len(batch)
           u == Len(p.up)
           w == Len(f.up)
           h == Len(p.order.casts)
<1>5. /\ w = u + n
      /\ Unforgotten(f.order) => Len(f.order.casts) = h + n
      /\ Unforgotten(p.order) /\ h + n <= LocalCastsMax => Unforgotten(f.order)
  BY <1>4 DEF CastsUpTo
<1>6. u \in Nat /\ h \in Nat /\ n \in Nat /\ LocalCastsMax \in Nat
  BY PublisherFields, LenProperties, CapAssumption
<1> HIDE DEF n, u, w, h
<1>7. w >= u
  BY <1>5, <1>6
<1>8. ASSUME Remembers(p, l), l + w <= LocalCastsMax PROVE Remembers(f, l)
  <2>1. Unforgotten(p.order) /\ h = l + u
    BY <1>8 DEF Remembers, h, u
  <2>2. h + n = l + w
    BY <1>5, <1>6, <2>1
  <2>3. Unforgotten(f.order)
    BY <1>5, <1>8, <2>1, <2>2
  <2> QED
    BY <1>5, <2>2, <2>3 DEF Remembers, w
<1> QED
  BY <1>2, <1>7, <1>8 DEF u, w

\* So does everything that a publisher sends of what it has adopted.
LEMMA SendsRemember ==
    ASSUME NEW c \in Client, NEW s, NEW t \in Scene, NEW p \in PublisherRec, NEW l \in Nat,
           NEW opened \in BOOLEAN, NEW e, Sends(c, s, t, p, opened, e),
           Remembers(p, l), l + Len(e.up) <= LocalCastsMax
    PROVE  Remembers(e, l)
<1> DEFINE f == Publish(c, t, FALSE, p)
           g == Publish(c, t, FALSE, f)
<1>1. /\ f \in PublisherRec
      /\ Remembers(p, l) /\ l + Len(f.up) <= LocalCastsMax => Remembers(f, l)
  BY PublishRemembers
<1>2. e = IF t # s THEN (IF opened THEN g ELSE f) ELSE (IF opened THEN f ELSE p)
  BY DEF Sends
<1> HIDE DEF f
<1>3. /\ g \in PublisherRec /\ Len(g.up) >= Len(f.up)
      /\ Remembers(f, l) /\ l + Len(g.up) <= LocalCastsMax => Remembers(g, l)
  BY <1>1, PublishRemembers
<1> HIDE DEF g
<1>4. Len(f.up) \in Nat /\ Len(g.up) \in Nat /\ LocalCastsMax \in Nat
  BY <1>1, <1>3, PublisherFields, CapAssumption
<1> QED
  BY <1>1, <1>2, <1>3, <1>4

\* A gate of c's that an entry opens.
Opened(c) == /\ \E k \in Key : Adopted(c).order.pendingRemoves[k] < order[c].pendingRemoves[k]
             /\ Adopted(c).owed # {}

\* What c has adopted of an entry, key by key.
LEMMA AdoptedFollows ==
    ASSUME BusInv, TombInv, NEW c \in Client, Hear(c),
           PublisherFits(canvas[c], Publisher(c)),
           Follows(canvas[c], Publisher(c), Ahead(c), V(c), pos[c]),
           NEW w, w = Replica!Judge(V(c), Entry(c))
    PROVE  /\ Adopted(c) \in PublisherRec /\ Adopted(c).up = up[c]
           /\ QueueRight(Adopted(c).order, Queue(Ahead(c)', up[c]), pos[c] + 1)
           /\ \A k \in Key :
                 \/ BaseAt(Adopted(c).order, Queue(Ahead(c)', up[c]), Adopted(c).base, w, k)
                 \/ HeardScene(c) # canvas[c] /\ k \in SentKeys(HeardScene(c), Adopted(c))
           /\ HeardScene(c) = canvas[c] /\ ~Opened(c) =>
                 \A k \in Key : OwedAt(Queue(Ahead(c)', up[c]), HeardScene(c), Adopted(c).base,
                                       Adopted(c).owed, k)
<1> DEFINE n == pos[c]
           m == Entry(c)
           o == order[c]
           q == Queue(Ahead(c), up[c])
           r == Queue(Ahead(c)', up[c])
           s == canvas[c]
           t == HeardScene(c)
           b == base[c]
           own == owed[c]
           v  == V(c)
           ad == Adopted(c)
           z  == ad.order
           d  == ad.base
<1>1. /\ TypeOK /\ LogRight /\ n \in Nat /\ n < Len(log)
      /\ m \in Mutation /\ m.seq = n + 1 /\ m.val \notin TooLarge /\ (m.remove <=> m.val = Absent)
      /\ m.seq \in Nat \ {0} /\ t \in Scene /\ s \in Scene
  <2>1. TypeOK /\ LogRight /\ n < Len(log)
    BY HearIs DEF BusInv
  <2>2. /\ n \in Nat /\ m \in Mutation /\ m.seq = n + 1 /\ m.val \notin TooLarge
        /\ (m.remove <=> m.val = Absent)
    BY <2>1, EntryIs
  <2> QED
    BY <2>1, <2>2, HeardSceneType, PublisherType
<1>2. /\ Publisher(c).order = o /\ Publisher(c).base = b /\ Publisher(c).owed = own
      /\ Publisher(c).up = up[c] /\ o \in Order /\ up[c] \in Seq(Mutation) /\ own \in SUBSET Key
  BY <1>1, PublisherType, PublisherFields DEF Publisher
<1>3. /\ QueueRight(o, q, n)
      /\ \A k \in Key : BaseAt(o, q, b, v, k) /\ OwedAt(q, s, b, own, k)
  BY <1>2 DEF Follows
<1>4. \A k \in Key : InStep(s, b, own, q, k)
  BY <1>2, <1>3 DEF InStep, PublisherFits
<1>5. /\ VerdictSound(v, n) /\ \A k \in Key : o.removed[k] = v[k].removed
  BY <1>2 DEF TombInv, Tombs
<1>6. m.seq > o.seen[m.key]
  <2>1. m.key \in Key /\ o.seen \in [Key -> Nat] /\ \A k \in Key : o.seen[k] <= n
    BY <1>1, <1>2 DEF BusInv, PublisherRight, Mutation, Order
  <2> QED
    BY <1>1, <2>1
<1>7. /\ q \in Seq(Out) /\ r \in Seq(Out) /\ Shortens(m, c, q, r)
  <2>1. /\ Ahead(c) \in Seq(Mutation) /\ Ahead(c)' \in Seq(Mutation)
        /\ IF m.src = c THEN Leads(m, Ahead(c)', Ahead(c)) ELSE Ahead(c)' = Ahead(c)
    BY <1>1, AheadHears
  <2> QED
    BY <1>2, <2>1, QueueIs, ShortenedQueue
<1>8. /\ ad \in PublisherRec /\ z = Accepted(o, m, c) /\ ad.up = up[c] /\ ad.owed = own
      /\ \A k \in Key : AdoptedAt(s, t, b, d, own, k)
      /\ t = s => d = b
  <2>1. \A k \in own : s[k] # Absent
    BY <1>2, <1>3 DEF OwedAt
  <2> QED
    BY <1>1, <2>1, AdoptedIs
<1>9. \A k \in Key : t[k] = IF Applies(o, m, c) /\ k = m.key THEN m.val ELSE s[k]
  BY <1>1 DEF HeardScene, Scene
<1> HIDE DEF n, m, o, q, r, s, t, b, own, v, ad, z, d
<1>10. QueueRight(z, r, n + 1)
  BY <1>1, <1>2, <1>3, <1>7, <1>8, HeardQueue
<1>11. z \in Order
  BY <1>8, PublisherFields DEF z
<1>12. ASSUME NEW k \in Key
       PROVE  BaseAt(z, r, d, w, k) \/ (t # s /\ k \in SentKeys(t, ad))
  <2>0. Hearing(o, q, n, v, m, c, s, t, b, d, own, z, r)
    BY <1>1, <1>3, <1>4, <1>5, <1>6, <1>7, <1>8, <1>9 DEF Hearing
  <2>1. BaseAt(z, r, d, Replica!Judge(v, m), k) \/ (t[k] # s[k] /\ GoesOut(r, t, d, k))
    BY <1>1, <1>2, <1>7, <2>0, HeardBase
  <2>2. w = Replica!Judge(v, m)
    BY DEF v, m
  <2>3. Castable(z, k, t[k]) <=> t[k] = Absent \/ ~HeldOff(r, k, t[k])
    BY <1>7, <1>10, <1>11, CastableMeans
  <2>4. GoesOut(r, t, d, k) => k \in SentKeys(t, ad)
    BY <2>3 DEF GoesOut, SentKeys, z, d
  <2> QED
    BY <2>1, <2>2, <2>4
<1>13. ASSUME t = s, ~Opened(c), NEW k \in Key PROVE OwedAt(r, t, d, ad.owed, k)
  <2>1. d = b /\ ad.owed = own
    BY <1>8, <1>13
  <2>2. ASSUME k \in own, HeldOff(q, k, s[k]) PROVE HeldOff(r, k, s[k])
    <3>1. SUFFICES ASSUME ~HeldOff(r, k, s[k]) PROVE FALSE
      OBVIOUS
    <3>2. z.pendingRemoves[k] < o.pendingRemoves[k]
      BY <1>1, <1>2, <1>3, <1>7, <1>10, <1>11, <2>2, <3>1, GateOpens
    <3>3. Opened(c)
      BY <1>8, <2>2, <3>2 DEF Opened, z, ad, o
    <3> QED
      BY <1>13, <3>3
  <2>3. OwedAt(q, s, b, own, k)
    BY <1>3
  <2> QED
    BY <1>13, <2>1, <2>2, <2>3 DEF OwedAt
<1> QED
  BY <1>8, <1>10, <1>12, <1>13 DEF n, m, o, r, s, t, v, ad, z, d

\* A client that hears an entry ends in step with the canvas that leaves.
LEMMA HearFollows ==
    ASSUME Draggers = {}, Cardinality(Key) <= RemovedMax, BusInv, FitsInv, TombInv, FollowInv,
           NEW c \in Client, Hear(c),
           Len(Ahead(c)') + Len(HeardPublisher(c).up) <= LocalCastsMax
    PROVE  Follows(HeardScene(c), HeardPublisher(c), Ahead(c)', V(c)', pos[c] + 1)
<1> DEFINE w == V(c)'
           a == Ahead(c)'
           t == HeardScene(c)
           e == HeardPublisher(c)
           p == Adopted(c)
           n == pos[c] + 1
<1>1. dragging[c] = FALSE /\ PublisherFits(canvas[c], Publisher(c))
  BY DEF FitsInv
<1>2. TypeOK /\ pos[c] < Len(log) /\ pos' = [pos EXCEPT ![c] = @ + 1]
  BY HearIs DEF BusInv
<1>3. n \in Nat /\ pos'[c] = n /\ t \in Scene
  <2>1. pos[c] \in Nat /\ t \in Scene
    BY <1>2, EntryIs, HeardSceneType DEF BusInv
  <2>2. pos'[c] = n
    BY <1>2, LogType
  <2> QED
    BY <2>1, <2>2
<1>4. TombInv' /\ w = Replica!Judge(V(c), Entry(c))
  BY HearTombs
<1>5. VerdictSound(w, n)
  BY <1>3, <1>4 DEF TombInv
<1>6. a \in Seq(Mutation)
  BY <1>2, AheadHears
<1>7. e.order.lastSeq = n
  BY HeardPublisherRight DEF PublisherRight
<1>8. Follows(canvas[c], Publisher(c), Ahead(c), V(c), pos[c])
  BY DEF FollowInv
<1> HIDE DEF w
<1>9. /\ p \in PublisherRec /\ p.up = up[c]
      /\ QueueRight(p.order, Queue(a, up[c]), n)
      /\ \A k \in Key : \/ BaseAt(p.order, Queue(a, up[c]), p.base, w, k)
                        \/ t # canvas[c] /\ k \in SentKeys(t, p)
      /\ t = canvas[c] /\ ~Opened(c) =>
             \A k \in Key : OwedAt(Queue(a, up[c]), t, p.base, p.owed, k)
  BY <1>1, <1>4, <1>8, AdoptedFollows
<1>10. Sends(c, canvas[c], t, p, Opened(c), e)
  BY <1>1 DEF Sends, HeardPublisher, Freed, ReleaseHeld, Opened
<1>11. Opened(c) \in BOOLEAN
  BY DEF Opened
<1> HIDE DEF a, t, e, p, n
<1>12. Follows(t, e, a, w, n)
  <2>1. Unforgotten(e.order)
    <3>1. Len(a) \in Nat /\ up[c] \in Seq(Mutation)
      BY <1>2, <1>6, LenProperties DEF TypeOK
    <3>2. Remembers(p, Len(a))
      BY <1>6, <1>9, <3>1, QueueIs DEF QueueRight, Remembers
    <3>3. Len(a) + Len(e.up) <= LocalCastsMax
      BY DEF a, e
    <3>4. Remembers(e, Len(a))
      BY <1>3, <1>9, <1>10, <1>11, <3>1, <3>2, <3>3, SendsRemember
    <3> QED
      BY <3>4 DEF Remembers
  <2> QED
    BY <1>3, <1>5, <1>6, <1>7, <1>9, <1>10, <1>11, <2>1, SendsFollows
<1> QED
  BY <1>12 DEF w, a, t, e, n

\* Hearing, then, keeps everybody following.
LEMMA HearFollowInv ==
    ASSUME Draggers = {}, Cardinality(Key) <= RemovedMax, BusInv, FitsInv, TombInv, FollowInv,
           NEW c \in Client, Hear(c), Len(Ahead(c)') + Len(up'[c]) <= LocalCastsMax
    PROVE  FollowInv'
<1> DEFINE e == HeardPublisher(c)
           t == HeardScene(c)
<1>1. /\ TypeOK /\ LogRight /\ pos[c] < Len(log) /\ pos' = [pos EXCEPT ![c] = @ + 1] /\ Becomes(c, t, e)
  BY HearIs DEF BusInv
<1>2. t \in Scene /\ e \in PublisherRec
  BY <1>1, HeardSceneType, HeardPublisherRight
<1>3. /\ canvas' = [canvas EXCEPT ![c] = t] /\ Publisher(c)' = e
      /\ \A d \in Client \ {c} : Publisher(d)' = Publisher(d)
  BY <1>1, <1>2, BecomesIs
<1>4. canvas'[c] = t /\ \A d \in Client \ {c} : canvas'[d] = canvas[d]
  BY <1>1, <1>3 DEF TypeOK
<1>5. pos'[c] = pos[c] + 1 /\ \A d \in Client \ {c} : pos'[d] = pos[d]
  BY <1>1, LogType
<1>6. /\ \A d \in Client \ {c} : V(d)' = V(d) /\ Ahead(d)' = Ahead(d)
  BY <1>1, HearTombs, AheadHears
<1>7. Len(Ahead(c)') + Len(e.up) <= LocalCastsMax
  BY <1>3 DEF Publisher
<1>8. Follows(t, e, Ahead(c)', V(c)', pos[c] + 1)
  BY <1>7, HearFollows
<1>9. ASSUME NEW d \in Client
      PROVE  Follows(canvas'[d], Publisher(d)', Ahead(d)', V(d)', pos'[d])
  <2>1. CASE d = c
    BY <1>3, <1>4, <1>5, <1>8, <2>1
  <2>2. CASE d # c
    BY <1>3, <1>4, <1>5, <1>6, <2>2 DEF FollowInv
  <2> QED
    BY <2>1, <2>2
<1> QED
  BY <1>9 DEF FollowInv

\* A cast that the reflector stamps passes from one end of a queue's halves to the other.
LEMMA PassedQueue ==
    ASSUME NEW a \in Seq(Mutation), NEW u \in Seq(Mutation), u # << >>, NEW m \in Mutation,
           m.key = u[1].key, m.val = u[1].val, m.seen = u[1].seen
    PROVE  Queue(Append(a, m), Tail(u)) = Queue(a, u)
<1> DEFINE b == Append(a, m)
           t == Tail(u)
           q == Queue(a, u)
           r == Queue(b, t)
<1>1. /\ b \in Seq(Mutation) /\ Len(b) = Len(a) + 1 /\ b[Len(a) + 1] = m
      /\ \A i \in 1 .. Len(a) : b[i] = a[i]
  BY AppendProperties
<1>2. /\ t \in Seq(Mutation) /\ Len(t) = Len(u) - 1
      /\ \A i \in 1 .. Len(u) - 1 : t[i] = u[i + 1]
  BY HeadTailProperties
<1>3. /\ q \in Seq(Out) /\ Len(q) = Len(a) + Len(u) /\ Len(a) \in Nat /\ Len(u) \in Nat
      /\ \A j \in 1 .. Len(a) : q[j] = Bare(a[j])
      /\ \A j \in 1 .. Len(u) : q[Len(a) + j] = Bare(u[j])
  BY QueueIs
<1> HIDE DEF b, t
<1>4. /\ r \in Seq(Out) /\ Len(r) = Len(b) + Len(t) /\ Len(t) \in Nat
      /\ \A j \in 1 .. Len(b) : r[j] = Bare(b[j])
      /\ \A j \in 1 .. Len(t) : r[Len(b) + j] = Bare(t[j])
  BY <1>1, <1>2, QueueIs
<1> HIDE DEF q, r
<1>5. Len(r) = Len(q)
  BY <1>1, <1>2, <1>3, <1>4
<1>6. ASSUME NEW j \in 1 .. Len(q) PROVE r[j] = q[j]
  <2>1. CASE j \in 1 .. Len(a)
    <3>1. j \in 1 .. Len(b)
      BY <1>1, <1>3, <2>1
    <3> QED
      BY <1>1, <1>3, <1>4, <2>1, <3>1
  <2>2. CASE j = Len(a) + 1
    <3>1. j \in 1 .. Len(b) /\ 1 \in 1 .. Len(u)
      BY <1>1, <1>2, <1>3, <1>4, <2>2
    <3>2. Bare(m) = Bare(u[1])
      BY DEF Bare
    <3> QED
      BY <1>1, <1>3, <1>4, <2>2, <3>1, <3>2
  <2>3. CASE j - Len(b) \in 1 .. Len(t)
    <3> DEFINE i == j - Len(b)
    <3>1. i \in 1 .. Len(t) /\ i \in 1 .. Len(u) - 1 /\ i + 1 \in 1 .. Len(u)
          /\ Len(b) + i = j /\ Len(a) + (i + 1) = j
      BY <1>1, <1>2, <1>3, <1>4, <2>3
    <3> HIDE DEF i
    <3>2. r[j] = Bare(t[i]) /\ q[j] = Bare(u[i + 1])
      BY <1>3, <1>4, <3>1
    <3> QED
      BY <1>2, <3>1, <3>2
  <2> QED
    BY <1>1, <1>2, <1>3, <1>4, <2>1, <2>2, <2>3
<1>7. r = q
  BY <1>3, <1>4, <1>5, <1>6, SeqEqual
<1> QED
  BY <1>7 DEF r, q, b, t

\* What the reflector stamps was in its sender's queue, and stays there.
LEMMA ReflectFollows ==
    ASSUME BusInv, TombInv, FollowInv, NEW c \in Client, Reflect(c)
    PROVE  FollowInv'
<1> DEFINE m == Stamped(c)
<1>1. /\ up[c] # << >> /\ log' = Append(log, m) /\ up' = [up EXCEPT ![c] = Tail(@)]
      /\ UNCHANGED <<canvas, base, owed, throttle, dragging, order, pos>>
  BY DEF Reflect, Stamped
<1>2. /\ m \in Mutation /\ m.key = up[c][1].key /\ m.val = up[c][1].val /\ m.seen = up[c][1].seen
      /\ m.src = c
  BY <1>1, StampedIs
<1>3. TypeOK /\ TypeOK'
  BY ReflectBusInv DEF BusInv
<1> HIDE DEF m
<1>4. log \in Seq(Mutation)
  BY <1>3, LogType
<1>5. ASSUME NEW d \in Client
      PROVE  Follows(canvas'[d], Publisher(d)', Ahead(d)', V(d)', pos'[d])
  <2> DEFINE t == SubSeq(log, pos[d] + 1, Len(log))
  <2>1. pos[d] \in 0 .. Len(log) /\ t \in Seq(Mutation)
    BY <1>3, <1>4, LogType, RestList
  <2>2. V(d)' = V(d)
    BY <1>1, <1>2, <1>4, <2>1, VerdictStays DEF V
  <2>3. Ahead(d)' = Only(Append(t, m), Own(d)) /\ Ahead(d) = Only(t, Own(d))
    BY <1>1, <1>2, <1>4, <2>1, RestAppend DEF Ahead, Own
  <2> HIDE DEF t
  <2>4. Ahead(d)' = IF d = c THEN Append(Ahead(d), m) ELSE Ahead(d)
    BY <1>2, <2>1, <2>3, OnlyAppend DEF Own
  <2>5. up[d] \in Seq(Mutation) /\ Ahead(d) \in Seq(Mutation)
    BY <1>3, AheadType DEF TypeOK
  <2>6. up'[d] = IF d = c THEN Tail(up[d]) ELSE up[d]
    BY <1>1, <1>3 DEF TypeOK
  <2>7. Queue(Ahead(d)', up'[d]) = Queue(Ahead(d), up[d])
    <3>1. CASE d = c
      <4>1. Queue(Append(Ahead(d), m), Tail(up[d])) = Queue(Ahead(d), up[d])
        BY <1>1, <1>2, <2>5, <3>1, PassedQueue
      <4> QED
        BY <2>4, <2>6, <3>1, <4>1
    <3>2. CASE d # c
      BY <2>4, <2>6, <3>2
    <3> QED
      BY <3>1, <3>2
  <2>8. Publisher(d)' \in PublisherRec
    BY <1>3, PublisherType DEF TypeOK, Publisher, PublisherRec
  <2>9. /\ Publisher(d)'.order = Publisher(d).order /\ Publisher(d)'.base = Publisher(d).base
        /\ Publisher(d)'.owed = Publisher(d).owed
        /\ Publisher(d).up = up[d] /\ Publisher(d)'.up = up'[d]
    BY <1>1 DEF Publisher
  <2>10. Follows(canvas[d], Publisher(d), Ahead(d), V(d), pos[d])
    BY DEF FollowInv
  <2>11. Follows(canvas[d], Publisher(d)', Ahead(d)', V(d), pos[d])
    BY <2>7, <2>8, <2>9, <2>10 DEF Follows
  <2> QED
    BY <1>1, <2>2, <2>11
<1> QED
  BY <1>5 DEF FollowInv

\* So does one that edits ...
LEMMA EditFollows ==
    ASSUME Draggers = {}, BusInv, FitsInv, TombInv, FollowInv,
           NEW c \in Client, NEW k \in Key, NEW x \in Val \cup {Absent}, Edit(c, k, x),
           Len(Ahead(c)) + Len(up'[c]) <= LocalCastsMax
    PROVE  FollowInv'
<1> DEFINE scene == [canvas[c] EXCEPT ![k] = x]
           p == Publisher(c)
           e == Publish(c, scene, FALSE, p)
<1>1. /\ TypeOK /\ p \in PublisherRec /\ scene \in Scene /\ dragging[c] = FALSE
      /\ p.order.lastSeq = pos[c] /\ pos[c] \in Nat
  <2>1. TypeOK /\ dragging[c] = FALSE /\ p.order.lastSeq = pos[c]
    BY DEF BusInv, FitsInv, PublisherRight
  <2>2. p \in PublisherRec /\ canvas[c] \in Scene /\ pos[c] \in Nat
    BY <2>1, PublisherType, LogType
  <2> QED
    BY <2>1, <2>2 DEF Scene
<1>2. Becomes(c, scene, e) /\ log' = log /\ pos' = pos
  BY <1>1 DEF Edit
<1>3. Follows(canvas[c], p, Ahead(c), V(c), pos[c]) /\ VerdictSound(V(c), pos[c])
  BY DEF FollowInv, TombInv
<1>4. e \in PublisherRec
  BY <1>1, PublishType
<1>5. /\ QueueRight(p.order, Queue(Ahead(c), p.up), pos[c])
      /\ \A j \in Key : BaseAt(p.order, Queue(Ahead(c), p.up), p.base, V(c), j)
  BY <1>3 DEF Follows
<1>6. Ahead(c) \in Seq(Mutation) /\ Len(Ahead(c)) \in Nat /\ p.up \in Seq(Mutation)
  BY <1>1, AheadType, PublisherFields, LenProperties
<1>7. Unforgotten(e.order)
  <2>1. Publisher(c)' = e
    BY <1>1, <1>2, <1>4, BecomesIs
  <2>2. Len(Ahead(c)) + Len(e.up) <= LocalCastsMax
    <3>1. Publisher(c)'.up = up'[c]
      BY DEF Publisher
    <3> HIDE DEF e
    <3> QED
      BY <2>1, <3>1
  <2>3. Remembers(p, Len(Ahead(c)))
    BY <1>5, <1>6, QueueIs DEF QueueRight, Remembers
  <2> HIDE DEF scene, p
  <2> QED
    BY <1>1, <1>6, <2>2, <2>3, PublishRemembers DEF Remembers
<1> HIDE DEF scene, p
<1>8. Follows(scene, e, Ahead(c), V(c), pos[c])
  BY <1>1, <1>3, <1>5, <1>6, <1>7, PublishFollows
<1> HIDE DEF e
<1> QED
  BY <1>1, <1>2, <1>4, <1>8, LocalFollows

\* ... and one whose suppression lapses.
LEMMA LapseFollows ==
    ASSUME TypeOK, FollowInv, NEW c \in Client, NEW k \in Key, TtlLapses(c, k)
    PROVE  FollowInv'
<1> DEFINE o == Lapse(Publisher(c).order, k)
           p == [Publisher(c) EXCEPT !.order = o]
<1>1. Publisher(c) \in PublisherRec /\ canvas[c] \in Scene
  BY PublisherType
<1>2. Becomes(c, canvas[c], p) /\ log' = log /\ pos' = pos
  BY <1>1 DEF TtlLapses, Becomes, Publisher, TypeOK
<1>3. /\ o \in Order /\ o.pending = Publisher(c).order.pending
      /\ o.superseded = Publisher(c).order.superseded /\ o.casts = Publisher(c).order.casts
      /\ o.pendingRemoves = Publisher(c).order.pendingRemoves
      /\ o.forgotten = Publisher(c).order.forgotten
  BY <1>1, PublisherFields, LapseFields
<1> HIDE DEF o
<1>4. /\ p \in PublisherRec /\ p.order = o /\ p.up = Publisher(c).up /\ p.base = Publisher(c).base
      /\ p.owed = Publisher(c).owed
  BY <1>1, <1>3 DEF PublisherRec
<1> HIDE DEF p
<1>5. Follows(canvas[c], Publisher(c), Ahead(c), V(c), pos[c])
  BY DEF FollowInv
<1>6. QueueRight(o, Queue(Ahead(c), p.up), pos[c])
  BY <1>3, <1>4, <1>5 DEF Follows, QueueRight, Unforgotten, GateHolds
<1>7. \A j \in Key : /\ BaseAt(o, Queue(Ahead(c), p.up), p.base, V(c), j)
                     /\ OwedAt(Queue(Ahead(c), p.up), canvas[c], p.base, p.owed, j)
  BY <1>3, <1>4, <1>5 DEF Follows, BaseAt, LastRight
<1>8. Follows(canvas[c], p, Ahead(c), V(c), pos[c])
  BY <1>4, <1>6, <1>7 DEF Follows
<1> QED
  BY <1>1, <1>2, <1>4, <1>8, LocalFollows

\* Everybody follows from the start.
LEMMA FollowInvInit ==
    ASSUME Init
    PROVE  FollowInv
<1>1. BusInv /\ TypeOK /\ log = << >> /\ << >> \in Seq(Mutation) /\ Len(<< >>) = 0 /\ DOMAIN << >> = {}
  BY BusInvInit, EmptySeq DEF BusInv, Init
<1>2. ASSUME NEW c \in Client PROVE Follows(canvas[c], Publisher(c), Ahead(c), V(c), pos[c])
  <2> DEFINE p == Publisher(c)
             q == Queue(Ahead(c), p.up)
  <2>1. /\ canvas[c] = Loaded /\ pos[c] = 0 /\ p.order = NewOrder /\ p.up = << >>
        /\ p.base = Loaded /\ p.owed = {}
    BY DEF Init, Publisher
  <2>2. p \in PublisherRec
    BY <1>1, PublisherType
  <2>3. V(c) = Blank
    BY <1>1, <2>1, VerdictBlank DEF V
  <2>4. Len(Ahead(c)) = 0
    <3> DEFINE t == SubSeq(log, pos[c] + 1, Len(log))
    <3>1. t \in Seq(Mutation) /\ DOMAIN t = 1 .. 0
      BY <1>1, <2>1, RestList
    <3> HIDE DEF t
    <3>2. ToSet(Only(t, Own(c))) = {} /\ Only(t, Own(c)) \in Seq(Mutation)
      <4>1. ToSet(t) = {}
        BY <3>1 DEF ToSet
      <4>2. ToSet(Only(t, Own(c))) = ToSet(t) \cap Own(c) /\ Only(t, Own(c)) \in Seq(Mutation)
        BY <3>1, OnlyList
      <4> QED
        BY <4>1, <4>2
    <3>3. DOMAIN Only(t, Own(c)) = 1 .. Len(Only(t, Own(c))) /\ Len(Only(t, Own(c))) \in Nat
      BY <3>2, LenProperties
    <3>4. DOMAIN Only(t, Own(c)) = {}
      BY <3>2 DEF ToSet
    <3> QED
      BY <3>3, <3>4 DEF Ahead, t
  <2>5. Len(q) = 0 /\ DOMAIN q = {}
    <3>1. Ahead(c) \in Seq(Mutation) /\ Len(q) = Len(Ahead(c)) + Len(p.up) /\ DOMAIN q = 1 .. 0
      BY <1>1, <2>1, <2>4, AheadType, QueueIs
    <3> QED
      BY <1>1, <2>1, <2>4, <3>1
  <2> HIDE DEF p, q
  <2>6. QueueRight(NewOrder, q, 0)
    <3>1. /\ NewOrder.casts = << >>
          /\ \A k \in Key : /\ NewOrder.forgotten[k] = 0 /\ NewOrder.pending[k] = 0
                            /\ NewOrder.pendingRemoves[k] = 0
      BY DEF NewOrder
    <3>2. \A k \in Key : RemovesOf(<< >>, k) = {} /\ CastsIn(q, k) = {}
      BY <1>1, <2>5 DEF RemovesOf, CastsIn
    <3>3. Cardinality({}) = 0
      BY FS_EmptySet
    <3>4. GateHolds(NewOrder) /\ Unforgotten(NewOrder)
      BY <3>1, <3>2, <3>3 DEF GateHolds, Unforgotten
    <3>5. \A k \in Key : NewOrder.pending[k] = Cardinality(CastsIn(q, k))
      BY <3>1, <3>2, <3>3
    <3> QED
      BY <1>1, <2>5, <3>1, <3>4, <3>5 DEF QueueRight
  <2>7. ASSUME NEW k \in Key
        PROVE  BaseAt(NewOrder, q, Loaded, Blank, k) /\ OwedAt(q, Loaded, Loaded, {}, k)
    <3>1. Blank[k].val = Loaded[k]
      BY DEF Blank
    <3> QED
      BY <2>5, <3>1 DEF BaseAt, OwedAt
  <2> QED
    BY <2>1, <2>2, <2>3, <2>6, <2>7 DEF Follows, p, q
<1> QED
  BY <1>2 DEF FollowInv

\* No client has more casts out, unanswered or on their way, than the record of them holds.
FewOut == \A c \in Client : Len(Ahead(c)) + Len(up[c]) <= LocalCastsMax

\* ... and after every step that leaves as few.
LEMMA FollowInvNext ==
    ASSUME Draggers = {}, OrderKept, Cardinality(Key) <= RemovedMax,
           BusInv, FitsInv, TombInv, FollowInv, FewOut', [Next]_vars
    PROVE  FollowInv'
<1>1. /\ TypeOK
      /\ \A c \in Client : /\ dragging[c] = FALSE /\ throttle[c] = "idle"
                           /\ Len(Ahead(c)') + Len(up'[c]) <= LocalCastsMax
  BY DEF BusInv, FitsInv, PublisherFits, Publisher, FewOut
<1>2. ASSUME NEW c \in Client, NEW e \in Edits, Edit(c, e[1], e[2]) PROVE FollowInv'
  <2>1. e[1] \in Key /\ e[2] \in Val \cup {Absent}
    BY SyncAssumption
  <2>2. Ahead(c)' = Ahead(c)
    BY <1>2 DEF Edit, Ahead, Own
  <2> QED
    BY <1>1, <1>2, <2>1, <2>2, EditFollows
<1>3. ASSUME NEW c \in Client, NEW k \in Key, TtlLapses(c, k) PROVE FollowInv'
  BY <1>1, <1>3, LapseFollows
<1>4. ASSUME NEW c \in Client, DragStart(c) \/ DragStop(c) \/ TimerFires(c) PROVE FollowInv'
  BY <1>1, <1>4 DEF DragStart, DragStop, TimerFires
<1>5. ASSUME NEW c \in Client, Reflect(c) PROVE FollowInv'
  BY <1>5, ReflectFollows
<1>6. ASSUME NEW c \in Client, Hear(c) PROVE FollowInv'
  BY <1>1, <1>6, HearFollowInv
<1>7. ASSUME UNCHANGED vars PROVE FollowInv'
  <2>1. \A d \in Client : Publisher(d)' = Publisher(d) /\ V(d)' = V(d) /\ Ahead(d)' = Ahead(d)
    BY <1>7 DEF Publisher, V, Ahead, Own, vars
  <2> QED
    BY <1>7, <2>1 DEF FollowInv, vars
<1> QED
  BY <1>2, <1>3, <1>4, <1>5, <1>6, <1>7 DEF Next

-------------------------------------------------------------------------------
(* What follows the log shows it.                                              *)

\* What the canvases are compared under: nobody drags, there is room for every tombstone and
\* the keys of a board's order are never removed.
Undragged == Draggers = {} /\ OrderKept /\ Cardinality(Key) <= RemovedMax

ReplicaInv == BusInv /\ FitsInv /\ TombInv /\ FollowInv

\* The invariant, with everything that it rests on.
LEMMA ReplicaInvAlways == Undragged => (Spec /\ []FewOut => []ReplicaInv)
<1> SUFFICES ASSUME Undragged PROVE Spec /\ []FewOut => []ReplicaInv
  OBVIOUS
<1>1. Init => ReplicaInv
  BY BusInvInit, FitsInvInit, TombInvInit, FollowInvInit DEF ReplicaInv, Undragged
<1>2. ReplicaInv /\ [Next]_vars /\ FewOut' => ReplicaInv'
  BY BusInvNext, FitsInvNext, TombInvNext, FollowInvNext DEF ReplicaInv, Undragged
<1> QED
  BY <1>1, <1>2, PTL DEF Spec

\* Where a client has no edit outstanding, it shows the verdict.
LEMMA OutstandingIs ==
    ASSUME TypeOK, NEW c \in Client,
           Follows(canvas[c], Publisher(c), Ahead(c), V(c), pos[c]), NEW k \in Key,
           k \notin Outstanding(c)
    PROVE  canvas[c][k] = V(c)[k].val
<1> DEFINE q == Queue(Ahead(c), up[c])
<1>1. /\ Publisher(c).order = order[c] /\ Publisher(c).base = base[c] /\ Publisher(c).up = up[c]
  BY DEF Publisher
<1>2. QueueRight(order[c], q, pos[c]) /\ BaseAt(order[c], q, base[c], V(c), k)
  BY <1>1 DEF Follows
<1>3. canvas[c][k] = base[c][k] /\ ~(order[c].pending[k] > 0)
  BY DEF Outstanding
<1>4. q \in Seq(Out)
  <2>1. up[c] \in Seq(Mutation)
    BY DEF TypeOK
  <2> QED
    BY <2>1, AheadType, QueueIs
<1> HIDE DEF q
<1>5. order[c].pending[k] = Cardinality(CastsIn(q, k))
  BY <1>2 DEF QueueRight
<1>6. \A i \in DOMAIN q : q[i].key # k
  <2>1. /\ Cardinality(CastsIn(q, k)) \in Nat
        /\ Cardinality(CastsIn(q, k)) = 0 <=> \A i \in DOMAIN q : q[i].key # k
    BY <1>4, PendingMeans
  <2> QED
    BY <1>3, <1>5, <2>1
<1> QED
  BY <1>2, <1>3, <1>6 DEF BaseAt

\* Convergence, for any clients, keys and edits: "every client ends on the mutation with the
\* highest seq for that node".  Where no client has more casts out than LOCAL_CASTS_MAX.
THEOREM ClientsConverge ==
    Undragged => (Spec /\ []FewOut => []Convergence)
<1> SUFFICES ASSUME Undragged PROVE Spec /\ []FewOut => []Convergence
  OBVIOUS
<1>1. ASSUME ReplicaInv, Quiet, NEW c \in Client, NEW k \in Key \ Refused(c)
      PROVE  canvas[c][k] = Replica!Verdict(Len(log))[k].val
  <2>1. up[c] = << >> /\ pos[c] = Len(log) /\ owed[c] = Refused(c)
    BY <1>1 DEF Quiet
  <2>2. TypeOK /\ PublisherRight(c, Publisher(c), pos[c], Due(c))
    BY <1>1 DEF ReplicaInv, BusInv
  <2>3. Publisher(c).up = up[c] /\ Publisher(c).order = order[c] /\ Publisher(c).owed = owed[c]
        /\ Publisher(c).base = base[c]
    BY DEF Publisher
  <2>4. canvas[c][k] = base[c][k]
    BY <1>1, <2>1, <2>3 DEF ReplicaInv, FitsInv, PublisherFits, Undragged
  <2>5. order[c].pending[k] = 0
    <3>1. CastsIn(up[c], k) = {}
      <4>1. DOMAIN << >> = {}
        BY EmptySeq
      <4> QED
        BY <2>1, <4>1 DEF CastsIn
    <3>2. OwnAhead(c, k) = {}
      <4>1. Len(log) \in Nat
        BY <2>2, LogType
      <4> QED
        BY <2>1, <4>1 DEF OwnAhead
    <3>3. Cardinality({}) = 0
      BY FS_EmptySet
    <3>4. order[c].pending[k] = Cardinality(CastsIn(up[c], k)) + Due(c)[k]
      BY <2>2, <2>3 DEF PublisherRight
    <3>5. Due(c)[k] = 0
      BY <3>2, <3>3 DEF Due
    <3> QED
      BY <3>1, <3>3, <3>4, <3>5
  <2>6. k \notin Outstanding(c)
    BY <1>1, <2>1, <2>4, <2>5 DEF Outstanding
  <2>7. canvas[c][k] = V(c)[k].val
    BY <1>1, <2>2, <2>6, OutstandingIs DEF ReplicaInv, FollowInv
  <2> QED
    BY <2>1, <2>7, VerdictIs DEF V
<1>2. ReplicaInv => Convergence
  BY <1>1 DEF Convergence
<1> QED
  BY <1>2, ReplicaInvAlways, PTL

-------------------------------------------------------------------------------
(* The replica's steps.                                                        *)

\* On what the canvas and the baseline agree on, e has no more out than p had, and owes no more.
Quieter(scene, p, e) ==
    \A k \in Key : scene[k] = p.base[k] => /\ e.order.pending[k] = p.order.pending[k]
                                           /\ k \in e.owed => k \in p.owed
                                           /\ scene[k] = e.base[k]

\* ... which is so of publishing.
LEMMA PublishQuieter ==
    ASSUME NEW c \in Client, NEW scene \in Scene, NEW p \in PublisherRec
    PROVE  Quieter(scene, p, Publish(c, scene, FALSE, p))
<1> DEFINE e == Emit(c, scene, p)
           f == [e EXCEPT !.throttle = "idle"]
<1>1. EmitOutcome(c, scene, p, e) /\ e \in PublisherRec
  BY EmitIs DEF EmitOutcome
<1>2. Publish(c, scene, FALSE, p) = f
  BY DEF Publish
<1> HIDE DEF e
<1>3. f.base = e.base /\ f.owed = e.owed /\ f.order = e.order
  BY <1>1 DEF PublisherRec
<1> HIDE DEF f
<1>4. /\ e.base = [k \in Key |-> IF k \in HeldKeys(scene, p) THEN p.base[k] ELSE scene[k]]
      /\ e.owed = {k \in (p.owed \ SentKeys(scene, p)) \cup HeldKeys(scene, p) : scene[k] # Absent}
  BY <1>1 DEF EmitOutcome
<1>5. PICK batch \in Seq(Key) : /\ ToSet(batch) = SentKeys(scene, p)
                                /\ CastsUpTo(c, scene, p, e.order, e.up, batch, Len(batch))
  BY <1>1 DEF EmitOutcome
<1>6. DOMAIN batch = 1 .. Len(batch) /\ p.order.pending \in [Key -> Nat]
  BY LenProperties, PublisherFields
<1>7. ASSUME NEW k \in Key, scene[k] = p.base[k]
      PROVE  e.order.pending[k] = p.order.pending[k]
  <2>1. ~\E j \in 1 .. Len(batch) : batch[j] = k
    BY <1>5, <1>6, <1>7 DEF SentKeys, ToSet
  <2>2. e.order.pending[k] = p.order.pending[k] + 0
    BY <1>5, <2>1 DEF CastsUpTo
  <2> QED
    BY <1>6, <2>2
<1> QED
  BY <1>2, <1>3, <1>4, <1>7 DEF Quieter, HeldKeys

\* An entry never makes a key pending.
LEMMA AcceptedFewer ==
    ASSUME NEW o \in Order, NEW m \in Mutation, m.seq \in Nat \ {0}, NEW c, NEW k \in Key,
           o.pending[k] = 0
    PROVE  Accepted(o, m, c).pending[k] = 0
<1> DEFINE h == Heard(o, m)
           e == Ack(h, m.key)
           z == Accepted(o, m, c)
<1>1. m.key \in Key
  BY DEF Mutation
<1>2. h \in Order /\ h.pending = o.pending /\ h.pending \in [Key -> Nat]
  BY <1>1, HeardFields DEF Keeps, Order
<1>3. AcceptedOutcome(o, m, c, z)
  BY <1>1, AcceptedFields
<1> HIDE DEF h, z
<1>4. AckOutcome(h, m.key, e)
  BY <1>1, <1>2, AckFields
<1> HIDE DEF e
<1>5. CASE m.src = c
  <2>1. e \in Order /\ e.pending = [h.pending EXCEPT ![m.key] = Less(@, 1)]
    BY <1>4 DEF AckOutcome
  <2>2. z = MatchEcho(e, m.key)
    BY <1>3, <1>5 DEF AcceptedOutcome, h, e
  <2>3. MatchOutcome(e, m.key, z)
    BY <1>1, <2>1, <2>2, MatchEchoFields
  <2>4. z.pending = e.pending
    BY <2>3 DEF MatchOutcome
  <2> QED
    BY <1>2, <2>1, <2>4 DEF Less, z
<1>6. CASE m.src # c
  BY <1>3, <1>6 DEF AcceptedOutcome, z
<1> QED
  BY <1>5, <1>6

\* Hearing an entry makes nothing outstanding that was not.
LEMMA HearOutstanding ==
    ASSUME BusInv, NEW c \in Client, Hear(c),
           dragging[c] = FALSE, PublisherFits(canvas[c], Publisher(c)),
           \A k \in owed[c] : canvas[c][k] # Absent
    PROVE  /\ Outstanding(c)' \subseteq Outstanding(c)
           /\ \A d \in Client \ {c} : Outstanding(d)' = Outstanding(d)
<1> DEFINE t == HeardScene(c)
           p == Adopted(c)
           f == Freed(c)
           e == HeardPublisher(c)
           m == Entry(c)
<1>1. /\ TypeOK /\ LogRight /\ pos[c] < Len(log) /\ Becomes(c, t, e)
  BY HearIs DEF BusInv
<1>2. /\ t \in Scene /\ e \in PublisherRec /\ m \in Mutation /\ m.seq \in Nat \ {0}
  <2>1. pos[c] \in Nat /\ m.seq = pos[c] + 1 /\ m \in Mutation
    BY <1>1, EntryIs
  <2> QED
    BY <1>1, <2>1, HeardSceneType, HeardPublisherRight
<1>3. /\ canvas' = [canvas EXCEPT ![c] = t] /\ Publisher(c)' = e
      /\ \A d \in Client \ {c} : Publisher(d)' = Publisher(d)
  BY <1>1, <1>2, BecomesIs
<1>4. canvas'[c] = t /\ \A d \in Client \ {c} : canvas'[d] = canvas[d]
  BY <1>1, <1>3 DEF TypeOK
<1>5. /\ p \in PublisherRec /\ p.order = Accepted(order[c], m, c) /\ p.owed = owed[c]
      /\ \A k \in Key : AdoptedAt(canvas[c], t, base[c], p.base, owed[c], k)
  BY <1>1, AdoptedIs
<1> HIDE DEF t, p, m
<1>6. f \in PublisherRec /\ Quieter(t, p, f)
  <2>1. f = p \/ f = Publish(c, t, FALSE, p)
    BY DEF Freed, ReleaseHeld, t, p
  <2>2. Quieter(t, p, p)
    BY DEF Quieter
  <2> QED
    BY <1>2, <1>5, <2>1, <2>2, PublishType, PublishQuieter
<1> HIDE DEF f
<1>7. Quieter(t, f, e)
  <2>1. e = f \/ e = Publish(c, t, FALSE, f)
    BY DEF HeardPublisher, t, f
  <2>2. Quieter(t, f, f)
    BY DEF Quieter
  <2> QED
    BY <1>2, <1>6, <2>1, <2>2, PublishQuieter
<1> HIDE DEF e
<1>8. order[c] \in Order /\ order[c].pending \in [Key -> Nat]
  BY <1>1 DEF TypeOK, Order
<1>9. ASSUME NEW k \in Key \ Outstanding(c)
      PROVE  t[k] = e.base[k] /\ e.order.pending[k] = 0 /\ k \notin e.owed
  <2>1. canvas[c][k] = base[c][k] /\ order[c].pending[k] = 0 /\ k \notin owed[c]
    BY <1>8 DEF Outstanding
  <2>2. t[k] = p.base[k]
    BY <1>5, <2>1 DEF AdoptedAt
  <2>3. p.order.pending[k] = 0
    BY <1>2, <1>5, <1>8, <2>1, AcceptedFewer
  <2> QED
    BY <1>5, <1>6, <1>7, <2>1, <2>2, <2>3 DEF Quieter
<1>10. /\ Publisher(c)'.base = base'[c] /\ Publisher(c)'.order = order'[c]
       /\ Publisher(c)'.owed = owed'[c]
  BY DEF Publisher
<1>11. Outstanding(c)' \subseteq Outstanding(c)
  <2>1. Outstanding(c)' \subseteq Key
    <3>1. owed'[c] \subseteq Key
      BY <1>2, <1>3, <1>10, PublisherFields DEF e
    <3> QED
      BY <3>1 DEF Outstanding
  <2>2. ASSUME NEW k \in Key \ Outstanding(c) PROVE k \notin Outstanding(c)'
    <3>1. canvas'[c][k] = base'[c][k] /\ order'[c].pending[k] = 0 /\ k \notin owed'[c]
      BY <1>3, <1>4, <1>9, <1>10 DEF e
    <3> QED
      BY <3>1 DEF Outstanding
  <2> QED
    BY <2>1, <2>2
<1>12. ASSUME NEW d \in Client \ {c} PROVE Outstanding(d)' = Outstanding(d)
  <2>1. base'[d] = base[d] /\ order'[d] = order[d] /\ owed'[d] = owed[d]
    BY <1>3 DEF Publisher
  <2> QED
    BY <1>4, <2>1 DEF Outstanding
<1> QED
  BY <1>11, <1>12

\* Every client shows the verdict wherever it has no edit outstanding.
Shown == \A c \in Client : \A k \in Key \ Outstanding(c) : canvas[c][k] = V(c)[k].val

\* ... which is so of those who follow.
LEMMA ShownIs ==
    ASSUME ReplicaInv
    PROVE  Shown
  BY OutstandingIs DEF ReplicaInv, BusInv, FollowInv, Shown

Mine == [c \in Client |-> Outstanding(c)]

\* A step that changes c's canvas and what c has outstanding, alone.
LEMMA OnlyOfIs ==
    ASSUME NEW c \in Client, NEW scene \in Scene, TypeOK, TypeOK', canvas' = [canvas EXCEPT ![c] = scene],
           \A d \in Client \ {c} : Outstanding(d)' = Outstanding(d)
    PROVE  Replica!OnlyOf(c)
<1>1. canvas'[c] = scene /\ canvas' = [canvas EXCEPT ![c] = canvas'[c]]
  BY DEF TypeOK
<1>2. Mine'[c] = Outstanding(c)' /\ Outstanding(c)' \subseteq Key
  BY DEF Mine, Outstanding, TypeOK
<1>3. Mine' = [Mine EXCEPT ![c] = Mine'[c]]
  BY <1>2 DEF Mine
<1>4. canvas'[c] \in [Key -> Val \cup {Absent}]
  BY <1>1 DEF Scene
<1> QED
  BY <1>1, <1>2, <1>3, <1>4 DEF Replica!OnlyOf, Mine

\* A canvas just loaded is a replica of an empty log.
LEMMA StartsReplica ==
    ASSUME Init
    PROVE  Replica!Init
<1>1. ASSUME NEW c \in Client PROVE Outstanding(c) = {}
  <2>1. \A k \in Key : canvas[c][k] = base[c][k] /\ order[c].pending[k] = 0
    BY DEF Init, NewOrder
  <2>2. owed[c] = {}
    BY DEF Init
  <2> QED
    BY <2>1, <2>2 DEF Outstanding
<1>2. [c \in Client |-> Outstanding(c)] = [c \in Client |-> {}]
  BY <1>1
<1> QED
  BY <1>2 DEF Init, Replica!Init

\* What a step of c's own, with no part of the log in it, is to the replica.
LEMMA EditsReplica ==
    ASSUME Draggers = {}, TypeOK, TypeOK', FitsInv, Shown',
           NEW c \in Client, NEW k \in Key, NEW x \in Val \cup {Absent}, Edit(c, k, x)
    PROVE  Replica!Edit(c)
<1> DEFINE scene == [canvas[c] EXCEPT ![k] = x]
           e == Publish(c, scene, FALSE, Publisher(c))
<1>1. /\ dragging[c] = FALSE /\ scene \in Scene /\ Publisher(c) \in PublisherRec
  <2>1. canvas[c] \in Scene /\ Publisher(c) \in PublisherRec
    BY PublisherType
  <2> QED
    BY <2>1 DEF FitsInv, Scene
<1>2. Becomes(c, scene, e) /\ log' = log /\ pos' = pos
  BY <1>1 DEF Edit
<1> HIDE DEF scene
<1>3. e \in PublisherRec
  BY <1>1, PublishType
<1> HIDE DEF e
<1>4. /\ canvas' = [canvas EXCEPT ![c] = scene]
      /\ \A d \in Client \ {c} : Publisher(d)' = Publisher(d)
  BY <1>1, <1>2, <1>3, BecomesIs
<1>5. ASSUME NEW d \in Client \ {c} PROVE Outstanding(d)' = Outstanding(d)
  <2>1. base'[d] = base[d] /\ order'[d] = order[d] /\ owed'[d] = owed[d] /\ canvas'[d] = canvas[d]
    BY <1>4 DEF Publisher, TypeOK
  <2> QED
    BY <2>1 DEF Outstanding
<1>6. Replica!OnlyOf(c)
  BY <1>1, <1>4, <1>5, OnlyOfIs
<1>7. Mine'[c] = Outstanding(c)' /\ V(c)' = Replica!Verdict(pos[c])
  <2>1. V(c)' = VerdictOf(log, pos[c])
    BY <1>2 DEF V
  <2> QED
    BY <2>1, VerdictIs DEF Mine
<1>8. Replica!Shows(canvas'[c], Replica!Verdict(pos[c]), Mine'[c])
  BY <1>7 DEF Shown, Replica!Shows
<1> QED
  BY <1>2, <1>6, <1>8 DEF Replica!Edit, Mine

\* What hearing an entry is to the replica.
LEMMA HearsReplica ==
    ASSUME Undragged, ReplicaInv, TypeOK', Shown', NEW c \in Client, Hear(c)
    PROVE  Replica!Hear(c)
<1>1. /\ TypeOK /\ LogRight /\ pos[c] < Len(log) /\ pos' = [pos EXCEPT ![c] = @ + 1] /\ log' = log
      /\ Becomes(c, HeardScene(c), HeardPublisher(c))
  BY HearIs DEF ReplicaInv, BusInv
<1>2. HeardScene(c) \in Scene /\ HeardPublisher(c) \in PublisherRec
  BY <1>1, HeardSceneType, HeardPublisherRight DEF ReplicaInv
<1>3. canvas' = [canvas EXCEPT ![c] = HeardScene(c)]
  BY <1>1, <1>2, BecomesIs
<1>4. dragging[c] = FALSE /\ PublisherFits(canvas[c], Publisher(c))
  BY DEF ReplicaInv, FitsInv, Undragged
<1>5. \A k \in owed[c] : canvas[c][k] # Absent
  <2>1. Publisher(c).owed = owed[c] /\ owed[c] \in SUBSET Key
    BY <1>1 DEF Publisher, TypeOK
  <2>2. Follows(canvas[c], Publisher(c), Ahead(c), V(c), pos[c])
    BY DEF ReplicaInv, FollowInv
  <2> QED
    BY <2>1, <2>2 DEF Follows, OwedAt
<1>6. /\ Outstanding(c)' \subseteq Outstanding(c)
      /\ \A d \in Client \ {c} : Outstanding(d)' = Outstanding(d)
  BY <1>4, <1>5, HearOutstanding DEF ReplicaInv
<1>7. Replica!OnlyOf(c)
  BY <1>1, <1>2, <1>3, <1>6, OnlyOfIs
<1>8. Mine'[c] = Outstanding(c)' /\ Mine[c] = Outstanding(c)
  BY DEF Mine
<1>9. V(c)' = Replica!Verdict(pos[c] + 1)
  <2>1. pos'[c] = pos[c] + 1
    BY <1>1, LogType
  <2>2. V(c)' = VerdictOf(log, pos[c] + 1)
    BY <1>1, <2>1 DEF V
  <2> QED
    BY <2>2, VerdictIs
<1>10. Replica!Shows(canvas'[c], Replica!Verdict(pos[c] + 1), Mine'[c])
  BY <1>8, <1>9 DEF Shown, Replica!Shows
<1> QED
  BY <1>1, <1>6, <1>7, <1>8, <1>10 DEF Replica!Hear, Mine

\* What is stamped grows the log, and is in nobody's canvas yet.
LEMMA ReflectsReplica ==
    ASSUME BusInv, NEW c \in Client, Reflect(c)
    PROVE  Replica!Grow
<1> DEFINE m == Stamped(c)
<1>1. /\ up[c] # << >> /\ log' = Append(log, m)
      /\ UNCHANGED <<canvas, base, owed, throttle, dragging, order, pos>>
  BY DEF Reflect, Stamped
<1>2. m \in Mutation /\ log \in Seq(Mutation)
  BY <1>1, StampedIs, LogType DEF BusInv
<1> HIDE DEF m
<1>3. /\ log' \in Seq(Mutation) /\ Len(log') = Len(log) + 1 /\ Len(log) \in Nat
      /\ \A i \in 1 .. Len(log) : log'[i] = log[i]
  BY <1>1, <1>2, AppendProperties, LenProperties
<1>4. SubSeq(log, 1, Len(log)) = SubSeq(log', 1, Len(log))
  <2> DEFINE s == SubSeq(log, 1, Len(log))
             t == SubSeq(log', 1, Len(log))
             n == Len(log)
  <2>1. s \in Seq(Mutation) /\ DOMAIN s = 1 .. n /\ \A i \in 1 .. n : s[i] = log[i]
    BY <1>2, <1>3, TakeList
  <2>2. n \in 0 .. Len(log')
    BY <1>3
  <2>3. t \in Seq(Mutation) /\ DOMAIN t = 1 .. n /\ \A i \in 1 .. n : t[i] = log'[i]
    BY <1>3, <2>2, TakeList
  <2> HIDE DEF s, t
  <2>4. Len(s) = n /\ Len(t) = n
    BY <1>3, <2>1, <2>3, LenProperties
  <2>5. s = t
    BY <1>3, <2>1, <2>3, <2>4, SeqEqual
  <2> QED
    BY <2>5 DEF s, t
<1>5. \A d \in Client : Outstanding(d)' = Outstanding(d)
  BY <1>1 DEF Outstanding
<1>6. Mine' = Mine
  BY <1>5 DEF Mine
<1> QED
  BY <1>1, <1>3, <1>4, <1>6 DEF Replica!Grow, Replica!IsPrefix, Mine

\* Every step is a step of the replica's, or none.
LEMMA StepsReplica ==
    ASSUME Undragged, ReplicaInv, ReplicaInv', Shown', [Next]_vars
    PROVE  [Replica!Next]_(Replica!vars)
<1>1. /\ TypeOK /\ TypeOK' /\ BusInv /\ FitsInv /\ Draggers = {}
      /\ \A c \in Client : dragging[c] = FALSE /\ throttle[c] = "idle"
  BY DEF ReplicaInv, BusInv, FitsInv, PublisherFits, Publisher, Undragged
<1>2. ASSUME NEW c \in Client, NEW e \in Edits, Edit(c, e[1], e[2]) PROVE Replica!Edit(c)
  <2>1. e[1] \in Key /\ e[2] \in Val \cup {Absent}
    BY SyncAssumption
  <2> QED
    BY <1>1, <1>2, <2>1, EditsReplica
<1>3. ASSUME NEW c \in Client, NEW k \in Key, TtlLapses(c, k) PROVE UNCHANGED Replica!vars
  <2>1. /\ UNCHANGED <<canvas, base, owed, log, pos>>
        /\ order' = [order EXCEPT ![c] = Lapse(@, k)]
    BY <1>3 DEF TtlLapses
  <2>2. \A d \in Client : order'[d].pending = order[d].pending
    BY <1>1, <2>1, LapseFields DEF TypeOK
  <2>3. \A d \in Client : Outstanding(d)' = Outstanding(d)
    BY <2>1, <2>2 DEF Outstanding
  <2>4. Mine' = Mine
    BY <2>3 DEF Mine
  <2> QED
    BY <2>1, <2>4 DEF Replica!vars, Mine
<1>4. ASSUME NEW c \in Client, DragStart(c) \/ DragStop(c) \/ TimerFires(c) PROVE FALSE
  BY <1>1, <1>4 DEF DragStart, DragStop, TimerFires
<1>5. ASSUME NEW c \in Client, Reflect(c) PROVE Replica!Grow
  BY <1>1, <1>5, ReflectsReplica
<1>6. ASSUME NEW c \in Client, Hear(c) PROVE Replica!Hear(c)
  BY <1>1, <1>6, HearsReplica
<1>7. ASSUME UNCHANGED vars PROVE UNCHANGED Replica!vars
  <2>1. \A d \in Client : Outstanding(d)' = Outstanding(d)
    BY <1>7 DEF Outstanding, vars
  <2>2. Mine' = Mine
    BY <2>1 DEF Mine
  <2> QED
    BY <1>7, <2>2 DEF Replica!vars, Mine, vars
<1> QED
  BY <1>2, <1>3, <1>4, <1>5, <1>6, <1>7 DEF Next, Replica!Next

\* ImplementsReplica, for any clients, keys and edits: with edits crossing on the bus, lapses
\* and gates held, a client shows what the log it has heard says on every key that it has no
\* edit outstanding on, and what it hears makes nothing outstanding.  Under the same conditions.
THEOREM SyncImplementsReplica ==
    Undragged => (Spec /\ []FewOut => ImplementsReplica)
<1> SUFFICES ASSUME Undragged PROVE Spec /\ []FewOut => ImplementsReplica
  OBVIOUS
<1>1. Init => Replica!Init
  BY StartsReplica
<1>2. ReplicaInv => Shown
  BY ShownIs
<1>3. ReplicaInv /\ ReplicaInv' /\ Shown' /\ [Next]_vars => [Replica!Next]_(Replica!vars)
  BY StepsReplica
<1> QED
  BY <1>1, <1>2, <1>3, ReplicaInvAlways, PTL DEF Spec, ImplementsReplica, Replica!Spec
================================================================================
