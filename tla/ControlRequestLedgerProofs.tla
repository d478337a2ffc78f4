----------------------- MODULE ControlRequestLedgerProofs -----------------------
(* The request ledger, for any callers, ids, calls, caps, clocks and exits: a call runs
   once until its row is lost, in one of four ways, and what a retry is told is so; where
   every quit flushes, none of the four is a quit.  Beside the session
   host, whose proofs it extends, every variable keeps its type.                      *)
EXTENDS MCOperationIds, ServicesProofs

-------------------------------------------------------------------------------
(* The inductive invariant.                                                    *)

\* A row says what its run was for and when, and replays no reply but its run's.
RowTrue(r) ==
    /\ r.run \in DOMAIN ran
    /\ ran[r.run].call = [key |-> r.key, fingerprint |-> r.fingerprint]
    /\ ran[r.run].at = r.claimedAt
    /\ r.state = "settled" => r.reply = r.run
    /\ r.state = "in-flight" => r.touchedAt = r.claimedAt

OnePerKey(q) == \A i, j \in DOMAIN q : q[i].key = q[j].key => i = j

ListTrue(q) == OnePerKey(q) /\ \A r \in ToSet(q) : RowTrue(r)

\* The ledger, and only it, knows what is in flight.
RowsRight == /\ ListTrue(rows)
             /\ \A r \in ToSet(rows) : r.state = "in-flight" => r.run \in running

\* Only retention takes a row from under its handler.
RunsRight == \A c \in running :
                 /\ c \in DOMAIN ran
                 /\ \/ \E r \in ToSet(rows) : r.run = c /\ r.state = "in-flight"
                    \/ now - ran[c].at > Ttl

\* A run whose row nothing took has it in the ledger, or on the disk of a dead process.
Remembered == \A c \in DOMAIN ran \ (forgot \cup cut) :
                  c \in IF up THEN RunsOf(rows) ELSE RunsOf(file.disk)

\* A snapshot holds the rows that the file has room for.
Covers(s) == \A j \in DOMAIN rows : j + GlobalMax > Len(rows) => rows[j].run \in RunsOf(s)

\* Snapshots are true, and the newest one is of the rows as they are.
FileRight ==
    /\ \A s \in file.pending \cup file.writing \cup {file.disk} : ListTrue(s)
    /\ \A s \in file.pending : Covers(s)
    /\ file.pending = {} => \A s \in file.writing : Covers(s)
    /\ Settled(file) /\ ~file.failed => Covers(file.disk)

DownRight == ~up => /\ rows = << >> /\ running = {} /\ late = {}
                    /\ file.pending = {} /\ file.writing = {}

LedgerInv == /\ TypeOK /\ RowsRight /\ RunsRight /\ Remembered /\ FileRight /\ DownRight
             /\ ForgottenFirst /\ OneAtATime

-------------------------------------------------------------------------------
(* Rows.                                                                       *)

States == {"settled", "in-flight", "unknown"}

LEMMA RowIs ==
    ASSUME NEW r \in Row
    PROVE  /\ r.key \in Key /\ r.fingerprint \in Fingerprint /\ r.run \in Run
           /\ r.claimedAt \in 0 .. MaxNow /\ r.touchedAt \in 0 .. MaxNow
           /\ r.state \in States
           /\ r.state = "settled" => r.reply \in Run
           /\ r.state # "settled" => r.reply = NoReply
  BY DEF Row, RowOf, States

\* A row that moves to another state is a row, and the same run's.
Moved(r, st, reply, t) == [r EXCEPT !.state = st, !.reply = reply, !.touchedAt = t]

LEMMA MovedRow ==
    ASSUME NEW r \in Row, NEW st \in States, NEW reply, NEW t \in 0 .. MaxNow,
           st = "settled" => reply \in Run,
           st # "settled" => reply = NoReply
    PROVE  /\ Moved(r, st, reply, t) \in Row
           /\ Moved(r, st, reply, t).key = r.key
           /\ Moved(r, st, reply, t).fingerprint = r.fingerprint
           /\ Moved(r, st, reply, t).run = r.run
           /\ Moved(r, st, reply, t).claimedAt = r.claimedAt
           /\ Moved(r, st, reply, t).state = st /\ Moved(r, st, reply, t).reply = reply
<1>1. CASE st = "settled"
  BY <1>1 DEF Moved, Row, RowOf, States
<1>2. CASE st # "settled"
  BY <1>2 DEF Moved, Row, RowOf, States
<1> QED
  BY <1>1, <1>2

\* Exporting a row, or waking it up, moves its state and its reply alone.
LEMMA ExportedIs ==
    ASSUME NEW r \in Row
    PROVE  /\ Exported(r) \in Row
           /\ Exported(r).key = r.key /\ Exported(r).fingerprint = r.fingerprint
           /\ Exported(r).run = r.run
           /\ Exported(r).claimedAt = r.claimedAt /\ Exported(r).touchedAt = r.touchedAt
           /\ Exported(r).state # "unknown" => /\ Exported(r).state = r.state
                                               /\ Exported(r).reply = r.reply
  BY DEF Exported, Row, RowOf

LEMMA AwokenIs ==
    ASSUME NEW r \in Row
    PROVE  /\ Awoken(r) \in Row /\ Awoken(r).key = r.key /\ Awoken(r).run = r.run
           /\ Awoken(r).state # "in-flight"
           /\ RowTrue(r) => RowTrue(Awoken(r))
<1>1. Awoken(r) \in Row /\ Awoken(r).state # "in-flight"
  BY DEF Awoken, Row, RowOf
<1>2. /\ Awoken(r).key = r.key /\ Awoken(r).fingerprint = r.fingerprint
      /\ Awoken(r).run = r.run
      /\ Awoken(r).claimedAt = r.claimedAt
      /\ Awoken(r).state = "settled" => Awoken(r).state = r.state /\ Awoken(r).reply = r.reply
  BY DEF Awoken, Row, RowOf
<1> QED
  BY <1>1, <1>2 DEF RowTrue

-------------------------------------------------------------------------------
(* Lists of rows.                                                              *)

\* What is left of a list in its order has one row per key still.
LEMMA SubKeys ==
    ASSUME NEW q \in Seq(Row), NEW t \in Seq(Row), InOrder(t, q), OnePerKey(q)
    PROVE  OnePerKey(t)
<1>1. DOMAIN t = 1 .. Len(t) /\ DOMAIN q = 1 .. Len(q) /\ Len(t) \in Nat /\ Len(q) \in Nat
  BY LenProperties
<1>2. ASSUME NEW a \in DOMAIN t, NEW b \in DOMAIN t, a < b, t[a].key = t[b].key PROVE FALSE
  <2>1. PICK j, k \in DOMAIN q : j < k /\ t[a] = q[j] /\ t[b] = q[k]
    BY <1>2 DEF InOrder
  <2>2. j = k
    BY <1>2, <2>1 DEF OnePerKey
  <2> QED
    BY <1>1, <2>1, <2>2
<1> QED
  BY <1>1, <1>2 DEF OnePerKey

LEMMA SubTrue ==
    ASSUME NEW q \in Seq(Row), NEW t \in Seq(Row), InOrder(t, q), ListTrue(q)
    PROVE  ListTrue(t)
<1>1. OnePerKey(t)
  BY SubKeys DEF ListTrue
<1>2. ToSet(t) \subseteq ToSet(q)
  BY InOrderIsSub
<1> QED
  BY <1>1, <1>2 DEF ListTrue

LEMMA PrunedIs ==
    ASSUME NEW q \in Seq(Row)
    PROVE  /\ Pruned(q) \in Seq(Row) /\ InOrder(Pruned(q), q)
           /\ ToSet(Pruned(q)) = {r \in ToSet(q) : ~Lapsed(r)}
<1>1. /\ Pruned(q) \in Seq(Row) /\ InOrder(Pruned(q), q)
      /\ ToSet(Pruned(q)) = ToSet(q) \cap {r \in ToSet(q) : ~Lapsed(r)}
  BY OnlyList DEF Pruned
<1> QED
  BY <1>1

\* An eviction takes one row that is not in flight, or nothing.
Evicts(t, q) == /\ t \in Seq(Row) /\ InOrder(t, q)
                /\ \A r \in ToSet(q) : r.state = "in-flight" => r \in ToSet(t)

LEMMA SameEvicts ==
    ASSUME NEW q \in Seq(Row)
    PROVE  Evicts(q, q)
<1>1. DOMAIN q = 1 .. Len(q) /\ Len(q) \in Nat
  BY LenProperties
<1> QED
  BY <1>1 DEF Evicts, InOrder

LEMMA EvictOldestIs ==
    ASSUME NEW q \in Seq(Row), NEW callers
    PROVE  Evicts(EvictOldest(q, callers), q)
<1> DEFINE can == {i \in DOMAIN q : q[i].key[1] \in callers /\ q[i].state # "in-flight"}
<1>1. DOMAIN q = 1 .. Len(q) /\ Len(q) \in Nat
  BY LenProperties
<1>2. CASE can = {}
  BY <1>2, SameEvicts DEF EvictOldest
<1>3. CASE can # {}
  <2>1. can \in SUBSET (1 .. Len(q)) /\ \A i \in can : i \in DOMAIN q /\ q[i].state # "in-flight"
    BY <1>1
  <2>2. EvictOldest(q, callers) = RemoveAt(q, Min(can))
    BY <1>3 DEF EvictOldest
  <2> HIDE DEF can
  <2>3. \E i \in can : \A j \in can : i <= j
    BY <1>1, <1>3, <2>1, LeastIndex
  <2>4. Min(can) \in can
    BY <2>3 DEF Min
  <2> DEFINE m == Min(can)
  <2>5. m \in DOMAIN q /\ q[m].state # "in-flight"
    BY <2>1, <2>4
  <2> HIDE DEF m
  <2>6. /\ RemoveAt(q, m) \in Seq(Row) /\ InOrder(RemoveAt(q, m), q)
        /\ \A j \in DOMAIN q : j # m => q[j] \in ToSet(RemoveAt(q, m))
    BY <2>5, RemoveList
  <2>7. ASSUME NEW r \in ToSet(q), r.state = "in-flight" PROVE r \in ToSet(RemoveAt(q, m))
    <3>1. PICK j \in DOMAIN q : q[j] = r
      BY DEF ToSet
    <3> QED
      BY <2>5, <2>6, <2>7, <3>1
  <2> QED
    BY <2>2, <2>6, <2>7 DEF m, Evicts
<1> QED
  BY <1>2, <1>3

LEMMA EvictsTwice ==
    ASSUME NEW q \in Seq(Row), NEW t, NEW u, Evicts(t, q), Evicts(u, t)
    PROVE  Evicts(u, q)
<1>1. t \in Seq(Row) /\ u \in Seq(Row) /\ InOrder(t, q) /\ InOrder(u, t)
  BY DEF Evicts
<1>2. InOrder(u, q)
  BY <1>1, InOrderIn
<1> QED
  BY <1>1, <1>2 DEF Evicts

LEMMA CappedIs ==
    ASSUME NEW q \in Seq(Row), NEW caller
    PROVE  Evicts(Capped(q, caller), q)
<1> DEFINE own == {i \in DOMAIN q : q[i].key[1] = caller}
           one == IF Cardinality(own) > PerCallerMax THEN EvictOldest(q, {caller}) ELSE q
<1>1. Evicts(one, q)
  BY SameEvicts, EvictOldestIs
<1>2. Capped(q, caller) = IF Len(one) > GlobalMax THEN EvictOldest(one, Caller) ELSE one
  BY DEF Capped
<1> HIDE DEF one
<1>3. one \in Seq(Row)
  BY <1>1 DEF Evicts
<1>4. Evicts(EvictOldest(one, Caller), one)
  BY <1>3, EvictOldestIs
<1> QED
  BY <1>1, <1>2, <1>3, <1>4, EvictsTwice

-------------------------------------------------------------------------------
(* restore: its recursion, and what comes back.                                *)

\* f is what restore has brought back of q up to each index.
RestoreWay(f, q) ==
    /\ f \in [0 .. Len(q) -> Seq(Row)]
    /\ f[0] = << >>
    /\ \A i \in 1 .. Len(q) : f[i] = Capped(Append(f[i - 1], q[i]), q[i].key[1])
    /\ Restored(q) = f[Len(q)]

\* The recursion by which Restored is defined has a solution, so that it is what it computes.
LEMMA RestoredUnfolds ==
    ASSUME NEW q \in Seq(Row)
    PROVE  \E f : RestoreWay(f, q)
<1> DEFINE n == Len(q)
           nil == << >>
           X == Seq(Row)
           step(t, i) == Capped(Append(t, q[i]), q[i].key[1])
           g == [i \in 1 .. n |-> [t \in X |-> step(t, i)]]
           along(f) == [i \in 0 .. n |-> IF i = 0 THEN nil ELSE step(f[i - 1], i)]
           F == CHOOSE f : f = along(f)
<1>1. n \in Nat /\ nil \in X /\ \A i \in 1 .. n : \A t \in X : step(t, i) \in X
  <2>1. n \in Nat /\ nil \in X /\ \A i \in 1 .. n : q[i] \in Row
    BY LenProperties, ElementOfSeq
  <2>2. ASSUME NEW i \in 1 .. n, NEW t \in X PROVE step(t, i) \in X
    <3>1. Append(t, q[i]) \in X
      BY <2>1, AppendProperties
    <3> QED
      BY <3>1, CappedIs DEF Evicts
  <2> QED
    BY <2>1, <2>2
<1>2. Restored(q) = F[n]
  BY DEF Restored
<1> HIDE DEF n, nil, X, step
<1>3. g \in Steps(n, X)
  BY <1>1 DEF Steps
<1>4. PICK f : IsWay(f, n, X, nil, g)
  <2> HIDE DEF g
  <2> QED
    BY <1>1, <1>3, Iterates
<1>5. f \in [0 .. n -> X] /\ f[0] = nil /\ \A i \in 1 .. n : f[i] = g[i][f[i - 1]]
  BY <1>4 DEF IsWay
<1>6. \A i \in 1 .. n : f[i - 1] \in X /\ f[i] = step(f[i - 1], i)
  BY <1>1, <1>5
<1>7. f = along(f)
  <2>1. \A i \in 0 .. n : f[i] = along(f)[i]
    BY <1>1, <1>5, <1>6
  <2> QED
    BY <2>1, <1>5
<1>8. F = along(F)
  <2> HIDE DEF along
  <2> QED
    BY <1>7
<1> HIDE DEF F
<1>9. F[0] = nil /\ \A i \in 1 .. n : F[i] = step(F[i - 1], i)
  <2>1. \A i \in 0 .. n : F[i] = along(F)[i]
    BY <1>8
  <2>2. \A i \in 0 .. n : F[i] = IF i = 0 THEN nil ELSE step(F[i - 1], i)
    BY <2>1
  <2> QED
    BY <2>2, <1>1
<1>10. F \in [0 .. n -> X]
  <2> DEFINE G == {i \in 0 .. n : F[i] \in X}
  <2>1. 0 \in G
    BY <1>1, <1>9
  <2>2. ASSUME NEW i \in 1 .. n, i - 1 \in G PROVE i \in G
    BY <1>1, <1>9, <2>2
  <2>3. G = 0 .. n
    <3>1. G \in SUBSET (0 .. n)
      OBVIOUS
    <3> HIDE DEF G
    <3> QED
      BY <1>1, <2>1, <2>2, <3>1, Along
  <2>4. \A i \in 0 .. n : F[i] \in X
    BY <2>3
  <2> QED
    BY <2>4, <1>8
<1> QED
  BY <1>2, <1>9, <1>10 DEF n, nil, X, step, RestoreWay

\* What restore brings back are rows it was given, one per key.
LEMMA RestoredIs ==
    ASSUME NEW q \in Seq(Row), OnePerKey(q)
    PROVE  /\ Restored(q) \in Seq(Row) /\ OnePerKey(Restored(q))
           /\ ToSet(Restored(q)) \subseteq ToSet(q)
<1>1. PICK f : RestoreWay(f, q)
  BY RestoredUnfolds
<1>2. Len(q) \in Nat /\ DOMAIN q = 1 .. Len(q) /\ \A i \in 1 .. Len(q) : q[i] \in Row
  BY LenProperties, ElementOfSeq
<1> DEFINE first(i) == {q[j] : j \in 1 .. i}
           G == {i \in 0 .. Len(q) : OnePerKey(f[i]) /\ ToSet(f[i]) \subseteq first(i)}
<1>3. 0 \in G
  <2>1. f[0] = << >>
    BY <1>1 DEF RestoreWay
  <2>2. OnePerKey(<< >>) /\ ToSet(<< >>) = {}
    BY DEF OnePerKey, ToSet
  <2> QED
    BY <1>2, <2>1, <2>2
<1>4. ASSUME NEW i \in 1 .. Len(q), i - 1 \in G PROVE i \in G
  <2>1. /\ f[i - 1] \in Seq(Row) /\ f[i] \in Seq(Row)
        /\ f[i] = Capped(Append(f[i - 1], q[i]), q[i].key[1])
    BY <1>1, <1>2 DEF RestoreWay
  <2>2. OnePerKey(f[i - 1]) /\ ToSet(f[i - 1]) \subseteq first(i - 1)
    BY <1>4
  <2> DEFINE t == Append(f[i - 1], q[i])
             d == f[i - 1]
  <2>3. /\ t \in Seq(Row) /\ ToSet(t) = ToSet(d) \cup {q[i]}
        /\ Len(d) \in Nat /\ DOMAIN d = 1 .. Len(d) /\ DOMAIN t = 1 .. Len(d) + 1
        /\ \A a \in 1 .. Len(d) : t[a] = d[a]
        /\ t[Len(d) + 1] = q[i]
    BY <1>2, <2>1, AppendList, AppendProperties, LenProperties
  <2>4. \A a \in DOMAIN d : d[a].key # q[i].key
    <3>1. ASSUME NEW a \in DOMAIN d PROVE d[a].key # q[i].key
      <4>1. PICK j \in 1 .. i - 1 : d[a] = q[j]
        BY <2>2 DEF ToSet
      <4> QED
        BY <1>2, <4>1 DEF OnePerKey
    <3> QED
      BY <3>1
  <2>5. OnePerKey(t)
    <3>1. OnePerKey(d)
      BY <2>2
    <3>2. ASSUME NEW a \in DOMAIN t, NEW b \in DOMAIN t, t[a].key = t[b].key PROVE a = b
      <4> HIDE DEF t, d
      <4> QED
        BY <2>3, <2>4, <3>1, <3>2 DEF OnePerKey
    <3> HIDE DEF t, d
    <3> QED
      BY <3>2 DEF OnePerKey
  <2>6. Evicts(f[i], t)
    BY <2>1, <2>3, CappedIs
  <2>7. InOrder(f[i], t)
    BY <2>6 DEF Evicts
  <2> HIDE DEF t
  <2>8. OnePerKey(f[i]) /\ ToSet(f[i]) \subseteq ToSet(t)
    BY <2>1, <2>3, <2>5, <2>7, SubKeys, InOrderIsSub
  <2>9. ToSet(t) \subseteq first(i)
    BY <1>2, <2>2, <2>3
  <2> QED
    BY <2>8, <2>9
<1>5. Len(q) \in G
  <2>1. G \in SUBSET (0 .. Len(q))
    OBVIOUS
  <2> HIDE DEF G
  <2> QED
    BY <1>2, <1>3, <1>4, <2>1, Along
<1>6. first(Len(q)) = ToSet(q)
  BY <1>2 DEF ToSet
<1>7. Restored(q) = f[Len(q)] /\ f[Len(q)] \in Seq(Row)
  BY <1>1, <1>2 DEF RestoreWay
<1> QED
  BY <1>5, <1>6, <1>7

\* Loading a disk keeps the rows not yet lapsed, none of them in flight.
LEMMA LoadedIs ==
    ASSUME NEW disk \in Seq(Row), ListTrue(disk)
    PROVE  /\ Loaded(disk) \in Seq(Row) /\ ListTrue(Loaded(disk))
           /\ \A r \in ToSet(Loaded(disk)) : r.state # "in-flight"
           /\ \A r \in ToSet(disk) : ~Lapsed(r) => r.run \in RunsOf(Loaded(disk))
           /\ RunsOf(Loaded(disk)) \subseteq RunsOf(disk)
<1> DEFINE q == Only(disk, {r \in ToSet(disk) : ComesBack(r)})
           t == Loaded(disk)
<1>1. /\ q \in Seq(Row) /\ InOrder(q, disk)
      /\ ToSet(q) = ToSet(disk) \cap {r \in ToSet(disk) : ComesBack(r)}
  BY OnlyList
<1>2. ListTrue(q)
  BY <1>1, SubTrue
<1>3. t = [i \in DOMAIN q |-> Awoken(q[i])]
  BY DEF Loaded
<1> HIDE DEF q
<1>4. Len(q) \in Nat /\ DOMAIN q = 1 .. Len(q) /\ \A i \in 1 .. Len(q) : q[i] \in Row
  BY <1>1, LenProperties, ElementOfSeq
<1> HIDE DEF t
<1>5. /\ t \in [1 .. Len(q) -> Row] /\ DOMAIN t = DOMAIN q
      /\ \A i \in DOMAIN q : t[i] = Awoken(q[i])
  BY <1>3, <1>4, AwokenIs
<1>6. t \in Seq(Row)
  BY <1>4, <1>5, IsASeq
<1>7. OnePerKey(t)
  BY <1>2, <1>4, <1>5, AwokenIs DEF OnePerKey, ListTrue
<1>8. ASSUME NEW i \in DOMAIN q
      PROVE  RowTrue(t[i]) /\ t[i].state # "in-flight" /\ t[i].run = q[i].run
  <2>1. q[i] \in Row /\ RowTrue(q[i]) /\ t[i] = Awoken(q[i])
    BY <1>2, <1>4, <1>5 DEF ListTrue, ToSet
  <2> QED
    BY <2>1, AwokenIs
<1>9. \A r \in ToSet(t) : RowTrue(r) /\ r.state # "in-flight"
  BY <1>5, <1>8 DEF ToSet
<1>10. ASSUME NEW r \in ToSet(disk), ~Lapsed(r) PROVE r.run \in RunsOf(t)
  <2>1. r \in ToSet(q)
    BY <1>1, <1>10 DEF ComesBack
  <2>2. PICK i \in DOMAIN q : q[i] = r
    BY <2>1 DEF ToSet
  <2> QED
    BY <1>5, <1>8, <2>2 DEF RunsOf
<1>11. RunsOf(t) \subseteq RunsOf(disk)
  <2>1. ASSUME NEW i \in DOMAIN q PROVE q[i].run \in RunsOf(disk)
    <3>1. PICK j \in DOMAIN disk : q[i] = disk[j]
      BY <1>1 DEF InOrder
    <3> QED
      BY <3>1 DEF RunsOf
  <2> QED
    BY <1>5, <1>8, <2>1 DEF RunsOf
<1> QED
  BY <1>6, <1>7, <1>9, <1>10, <1>11 DEF t, ListTrue

-------------------------------------------------------------------------------
(* What a step keeps of what it does not touch.                                *)

RanGrows == \A c \in DOMAIN ran : c \in DOMAIN ran' /\ ran'[c] = ran[c]

LEMMA TrueStays ==
    ASSUME RanGrows, NEW s \in Seq(Row), ListTrue(s)
    PROVE  ListTrue(s)'
<1>1. \A r \in ToSet(s) : RowTrue(r)'
  <2>1. ASSUME NEW r, RowTrue(r) PROVE RowTrue(r)'
    BY <2>1 DEF RowTrue, RanGrows
  <2> QED
    BY <2>1 DEF ListTrue
<1> QED
  BY <1>1 DEF ListTrue, OnePerKey

\* The snapshot of q that the file is given.
Snapshot(q) == LET all == [i \in DOMAIN q |-> Exported(q[i])]
               IN  SubSeq(all, 1 + Len(all) - Min({Len(all), GlobalMax}), Len(all))

LEMMA SnapshotIs ==
    ASSUME NEW q \in Seq(Row)
    PROVE  /\ Snapshot(q) \in Seq(Row)
           /\ OnePerKey(q) => OnePerKey(Snapshot(q))
           /\ \A r \in ToSet(Snapshot(q)) : \E e \in ToSet(q) : r = Exported(e)
           /\ \A j \in DOMAIN q : j + GlobalMax > Len(q) => q[j].run \in RunsOf(Snapshot(q))
<1> DEFINE all == [i \in DOMAIN q |-> Exported(q[i])]
           k == Len(all) - Min({Len(all), GlobalMax})
           t == SubSeq(all, k + 1, Len(all))
<1>1. Len(q) \in Nat /\ DOMAIN q = 1 .. Len(q) /\ \A i \in 1 .. Len(q) : q[i] \in Row
  BY LenProperties, ElementOfSeq
<1>2. /\ all \in [1 .. Len(q) -> Row] /\ DOMAIN all = DOMAIN q
      /\ \A i \in DOMAIN q : all[i] = Exported(q[i])
  BY <1>1, ExportedIs
<1> HIDE DEF all
<1>3. all \in Seq(Row)
  BY <1>1, <1>2, IsASeq
<1>4. Len(all) = Len(q)
  BY <1>1, <1>2, <1>3, LenProperties
<1>5. GlobalMax \in Nat
  BY LedgerAssumption
<1>6. k \in 0 .. Len(all) /\ \A j \in Nat : j + GlobalMax > Len(q) => j > k \/ j = 0
  <2>1. Min({Len(all), GlobalMax}) = IF Len(all) <= GlobalMax THEN Len(all) ELSE GlobalMax
    <3> DEFINE n == Len(all)
    <3>1. n \in Nat
      BY <1>1, <1>4
    <3> HIDE DEF n
    <3>2. \A x \in {n, GlobalMax} : (\A y \in {n, GlobalMax} : x <= y)
              <=> x = IF n <= GlobalMax THEN n ELSE GlobalMax
      BY <3>1, <1>5
    <3>3. Min({n, GlobalMax}) = IF n <= GlobalMax THEN n ELSE GlobalMax
      <4> DEFINE m == IF n <= GlobalMax THEN n ELSE GlobalMax
      <4>1. m \in {n, GlobalMax} /\ \A y \in {n, GlobalMax} : m <= y
        BY <3>2
      <4>2. Min({n, GlobalMax}) \in {n, GlobalMax}
            /\ \A y \in {n, GlobalMax} : Min({n, GlobalMax}) <= y
        BY <4>1 DEF Min
      <4> QED
        BY <3>2, <4>2
    <3> QED
      BY <3>3 DEF n
  <2> DEFINE n == Len(all)
  <2>2. n \in Nat /\ n = Len(q) /\ k = IF n <= GlobalMax THEN 0 ELSE n - GlobalMax
    BY <1>1, <1>4, <1>5, <2>1
  <2> HIDE DEF k
  <2>3. k \in 0 .. n /\ \A j \in Nat : j + GlobalMax > n => j > k \/ j = 0
    <3> HIDE DEF n
    <3> QED
      BY <1>5, <2>2
  <2> QED
    BY <2>2, <2>3
<1>7. Snapshot(q) = t
  <2>1. 1 + Len(all) - Min({Len(all), GlobalMax}) = k + 1
    <3>1. k + Min({Len(all), GlobalMax}) = Len(all) /\ Min({Len(all), GlobalMax}) \in Int
      <4>1. Min({Len(all), GlobalMax}) \in {Len(all), GlobalMax}
        <5>1. \E m \in {Len(all), GlobalMax} : \A y \in {Len(all), GlobalMax} : m <= y
          BY <1>1, <1>4, <1>5
        <5> QED
          BY <5>1 DEF Min
      <4> QED
        BY <4>1, <1>1, <1>4, <1>5
    <3> QED
      BY <3>1, <1>1, <1>4
  <2> QED
    BY <2>1 DEF Snapshot, all
<1> HIDE DEF k
<1>8. /\ t \in Seq(Row) /\ DOMAIN t = 1 .. Len(all) - k
      /\ \A i \in 1 .. Len(all) - k : t[i] = all[k + i]
      /\ InOrder(t, all)
  BY <1>3, <1>6, RestList
<1> HIDE DEF t
<1>9. ASSUME OnePerKey(q) PROVE OnePerKey(t)
  <2>1. OnePerKey(all)
    BY <1>1, <1>2, <1>9, ExportedIs DEF OnePerKey
  <2> QED
    BY <1>3, <1>8, <2>1, SubKeys
<1>10. ASSUME NEW r \in ToSet(t) PROVE \E e \in ToSet(q) : r = Exported(e)
  <2>1. r \in ToSet(all)
    BY <1>3, <1>8, InOrderIsSub
  <2> QED
    BY <1>2, <2>1 DEF ToSet
<1>11. ASSUME NEW j \in DOMAIN q, j + GlobalMax > Len(q) PROVE q[j].run \in RunsOf(t)
  <2>1. j - k \in 1 .. Len(all) - k /\ k + (j - k) = j
    BY <1>1, <1>4, <1>6, <1>11
  <2>2. t[j - k] = Exported(q[j])
    BY <1>2, <1>8, <2>1
  <2>3. t[j - k].run = q[j].run
    BY <1>1, <2>2, ExportedIs
  <2> QED
    BY <1>8, <2>1, <2>3 DEF RunsOf
<1> QED
  BY <1>7, <1>8, <1>9, <1>10, <1>11

\* The rows are mirrored: the new snapshot is pending, true, and holds what there is room for.
LEMMA MirroredRight ==
    ASSUME LedgerInv, RanGrows, rows' \in Seq(Row), ListTrue(rows)', Mirrored(rows')
    PROVE  file' \in FactFile(Row) /\ FileRight'
<1> PICK q \in Seq(Row) : q = rows'
  OBVIOUS
<1> DEFINE s == Snapshot(q)
<1>1. file \in FactFile(Row)
  BY DEF LedgerInv, TypeOK
<1>2. s \in Seq(Row)
  BY SnapshotIs
<1>3. file' = Save(file, s)
  BY DEF Mirrored, Snapshot
<1>4. ListTrue(q)'
  OBVIOUS
<1>5. ListTrue(s)'
  <2>1. OnePerKey(q) /\ \A r \in ToSet(q) : RowTrue(r)'
    BY <1>4 DEF ListTrue, OnePerKey
  <2>2. OnePerKey(s)
    BY <2>1, SnapshotIs
  <2>3. ASSUME NEW r \in ToSet(s) PROVE RowTrue(r)'
    <3>1. PICK e \in ToSet(q) : r = Exported(e)
      BY SnapshotIs
    <3>2. e \in Row /\ RowTrue(e)'
      BY <2>1, LenProperties, ElementOfSeq DEF ToSet
    <3>3. /\ r.key = e.key /\ r.fingerprint = e.fingerprint /\ r.run = e.run
          /\ r.claimedAt = e.claimedAt /\ r.touchedAt = e.touchedAt
          /\ r.state # "unknown" => r.state = e.state /\ r.reply = e.reply
      BY <3>1, <3>2, ExportedIs
    <3> QED
      BY <3>2, <3>3 DEF RowTrue
  <2> HIDE DEF s
  <2> QED
    BY <2>2, <2>3 DEF ListTrue, OnePerKey
<1>6. \A j \in DOMAIN q : j + GlobalMax > Len(q) => q[j].run \in RunsOf(s)
  BY SnapshotIs
<1> HIDE DEF s
<1>7. /\ file' \in FactFile(Row) /\ file'.pending = {s} /\ file'.writing = file.writing
      /\ file'.disk = file.disk
  BY <1>1, <1>2, <1>3, SaveIs
<1>8. \A u \in file.writing \cup {file.disk} : u \in Seq(Row) /\ ListTrue(u)
  BY <1>1 DEF FactFile, LedgerInv, FileRight
<1>9. \A u \in file.writing \cup {file.disk} : ListTrue(u)'
  BY <1>8, TrueStays
<1>10. Covers(s)'
  BY <1>6 DEF Covers, RunsOf
<1> QED
  BY <1>5, <1>7, <1>9, <1>10 DEF FileRight, Settled

-------------------------------------------------------------------------------
(* begin                                                                       *)

\* The types that the steps below take from the invariant.
LEMMA TypesAre ==
    ASSUME LedgerInv
    PROVE  /\ now \in Int /\ Ttl \in Int
           /\ rows \in Seq(Row) /\ Len(rows) \in Nat /\ DOMAIN rows = 1 .. Len(rows)
           /\ \A i \in DOMAIN rows : rows[i] \in Row
           /\ file \in FactFile(Row)
           /\ ran \in Seq([call : Call, at : 0 .. MaxNow]) /\ Len(ran) \in Nat
           /\ DOMAIN ran = 1 .. Len(ran)
           /\ \A c \in DOMAIN ran : ran[c].call \in Call /\ ran[c].at \in Int
<1>1. /\ now \in 0 .. MaxNow /\ rows \in Seq(Row) /\ file \in FactFile(Row)
      /\ ran \in Seq([call : Call, at : 0 .. MaxNow])
  BY DEF LedgerInv, TypeOK
<1>2. {Ttl, MaxNow} \subseteq Nat
  BY LedgerAssumption
<1>3. /\ Len(rows) \in Nat /\ DOMAIN rows = 1 .. Len(rows)
      /\ \A i \in DOMAIN rows : rows[i] \in Row
  BY <1>1, LenProperties, ElementOfSeq
<1>4. /\ Len(ran) \in Nat /\ DOMAIN ran = 1 .. Len(ran)
      /\ \A c \in DOMAIN ran : ran[c] \in [call : Call, at : 0 .. MaxNow]
  BY <1>1, LenProperties, ElementOfSeq
<1> QED
  BY <1>1, <1>2, <1>3, <1>4

\* What begin forgets: a row that lapsed or ended, and is gone.
BeginForgets ==
    forgot' = forgot \cup ({rows[i].run : i \in {j \in DOMAIN rows :
                                Lapsed(rows[j]) \/ rows[j].state # "in-flight"}}
                            \ RunsOf(rows'))

LEMMA ForgetsIs ==
    ASSUME LedgerInv, BeginForgets
    PROVE  /\ forgot' \subseteq Run /\ forgot \subseteq forgot'
           /\ \A r \in ToSet(rows) : Lapsed(r) \/ r.state # "in-flight" =>
                  r.run \in forgot' \cup RunsOf(rows')
<1>1. forgot \subseteq Run
  BY DEF LedgerInv, TypeOK
<1>2. \A i \in DOMAIN rows : rows[i].run \in Run
  BY TypesAre, RowIs
<1>3. ASSUME NEW r \in ToSet(rows), Lapsed(r) \/ r.state # "in-flight"
      PROVE  r.run \in forgot' \cup RunsOf(rows')
  <2>1. PICK i \in DOMAIN rows : rows[i] = r
    BY DEF ToSet
  <2> QED
    BY <1>3, <2>1 DEF BeginForgets
<1> QED
  BY <1>1, <1>2, <1>3 DEF BeginForgets

\* A call answered from a row only shows the pruning.
LEMMA AnsweredKeeps ==
    ASSUME LedgerInv, NEW call \in Call, up, Answered(call), BeginForgets,
           UNCHANGED <<up, now, late, cut, exits>>
    PROVE  LedgerInv'
<1>0. PICK kept : kept = Pruned(rows)
  OBVIOUS
<1>1. /\ rows' = kept /\ running' = running /\ ran' = ran
      /\ IF rows' = rows THEN UNCHANGED file ELSE Mirrored(rows')
  BY <1>0 DEF Answered
<1>2. /\ kept \in Seq(Row) /\ InOrder(kept, rows)
      /\ ToSet(kept) = {r \in ToSet(rows) : ~Lapsed(r)}
  BY <1>0, TypesAre, PrunedIs
<1>3. RanGrows
  BY <1>1 DEF RanGrows
<1>4. ListTrue(kept)
  BY <1>2, TypesAre, SubTrue DEF LedgerInv, RowsRight
<1>5. RowsRight'
  <2>1. ListTrue(kept)'
    BY <1>2, <1>3, <1>4, TrueStays
  <2> QED
    BY <1>1, <1>2, <2>1 DEF RowsRight, LedgerInv, ListTrue
<1>6. file' \in FactFile(Row) /\ FileRight'
  <2>1. CASE rows' = rows
    <3>1. file' = file
      BY <1>1, <2>1
    <3> QED
      BY <1>1, <2>1, <3>1, TypesAre
      DEF LedgerInv, FileRight, ListTrue, RowTrue, OnePerKey, Covers, Settled
  <2>2. CASE rows' # rows
    BY <1>1, <1>2, <1>3, <1>5, <2>2, MirroredRight DEF RowsRight
  <2> QED
    BY <2>1, <2>2
<1>7. RunsRight'
  <2>1. ASSUME NEW c \in running
        PROVE  /\ c \in DOMAIN ran
               /\ \/ \E r \in ToSet(kept) : r.run = c /\ r.state = "in-flight"
                  \/ now - ran[c].at > Ttl
    <3>1. c \in DOMAIN ran
      BY DEF LedgerInv, RunsRight
    <3>2. CASE \E r \in ToSet(rows) : r.run = c /\ r.state = "in-flight"
      <4>1. PICK r \in ToSet(rows) : r.run = c /\ r.state = "in-flight"
        BY <3>2
      <4>2. RowTrue(r)
        BY DEF LedgerInv, RowsRight, ListTrue
      <4>3. r.touchedAt = ran[c].at
        BY <4>1, <4>2 DEF RowTrue
      <4> QED
        BY <1>2, <3>1, <4>1, <4>3 DEF Lapsed
    <3> QED
      BY <3>1, <3>2 DEF LedgerInv, RunsRight
  <2> QED
    BY <1>1, <2>1 DEF RunsRight
<1>8. Remembered'
  <2>1. ASSUME NEW c \in DOMAIN ran, c \notin forgot' \cup cut' PROVE c \in RunsOf(kept)
    <3>1. c \in RunsOf(rows)
      BY <2>1, ForgetsIs DEF LedgerInv, Remembered
    <3>2. PICK r \in ToSet(rows) : r.run = c
      BY <3>1 DEF RunsOf, ToSet
    <3>3. CASE Lapsed(r)
      BY <1>1, <2>1, <3>2, <3>3, ForgetsIs
    <3>4. CASE ~Lapsed(r)
      <4>1. r \in ToSet(kept)
        BY <1>2, <3>4
      <4> QED
        BY <3>2, <4>1 DEF ToSet, RunsOf
    <3> QED
      BY <3>3, <3>4
  <2> QED
    BY <1>1, <2>1 DEF Remembered
<1>9. ForgottenFirst' /\ OneAtATime'
  BY <1>1, ForgetsIs DEF LedgerInv, ForgottenFirst, OneAtATime
<1>10. TypeOK'
  BY <1>1, <1>2, <1>6, ForgetsIs DEF LedgerInv, TypeOK
<1>11. DownRight'
  BY DEF DownRight
<1> QED
  BY <1>5, <1>6, <1>7, <1>8, <1>9, <1>10, <1>11 DEF LedgerInv

\* A call that finds no row claims its key.
LEMMA ClaimedKeeps ==
    ASSUME LedgerInv, NEW call \in Call, up, Claimed(call), BeginForgets,
           UNCHANGED <<up, now, late, cut, exits>>
    PROVE  LedgerInv'
<1>0. PICK kept, d, row, all :
          /\ kept = Pruned(rows)
          /\ d = Len(ran) + 1
          /\ row = [key |-> call.key, fingerprint |-> call.fingerprint, run |-> d,
                    claimedAt |-> now, touchedAt |-> now,
                    state |-> "in-flight", reply |-> NoReply]
          /\ all = Append(kept, row)
  OBVIOUS
<1>1. /\ d \in Run /\ Found(call) = {}
      /\ rows' = Capped(all, call.key[1])
      /\ Mirrored(rows')
      /\ running' = running \cup {d}
      /\ ran' = Append(ran, [call |-> call, at |-> now])
  BY <1>0 DEF Claimed
<1>2. /\ kept \in Seq(Row) /\ InOrder(kept, rows)
      /\ ToSet(kept) = {r \in ToSet(rows) : ~Lapsed(r)}
  BY <1>0, TypesAre, PrunedIs
<1>3. \A i \in DOMAIN kept : kept[i].key # call.key
  BY <1>0, <1>1 DEF Found
<1>4. now \in 0 .. MaxNow
  BY DEF LedgerInv, TypeOK
<1>5. /\ row \in Row /\ row.key = call.key /\ row.fingerprint = call.fingerprint
      /\ row.run = d /\ row.claimedAt = now /\ row.touchedAt = now
      /\ row.state = "in-flight"
  BY <1>0, <1>1, <1>4 DEF Row, RowOf, Call
<1>6. /\ all \in Seq(Row) /\ ToSet(all) = ToSet(kept) \cup {row}
      /\ Len(kept) \in Nat /\ DOMAIN kept = 1 .. Len(kept) /\ DOMAIN all = 1 .. Len(kept) + 1
      /\ \A i \in 1 .. Len(kept) : all[i] = kept[i]
      /\ all[Len(kept) + 1] = row
  BY <1>0, <1>2, <1>5, AppendList, AppendProperties, LenProperties
<1>7. Evicts(rows', all)
  BY <1>1, <1>6, CappedIs
<1>8. /\ rows' \in Seq(Row) /\ InOrder(rows', all) /\ ToSet(rows') \subseteq ToSet(all)
      /\ \A r \in ToSet(all) : r.state = "in-flight" => r \in ToSet(rows')
  BY <1>6, <1>7, InOrderIsSub DEF Evicts
<1>9. /\ RanGrows /\ DOMAIN ran' = DOMAIN ran \cup {d} /\ d \notin DOMAIN ran
      /\ ran'[d] = [call |-> call, at |-> now]
      /\ ran' \in Seq([call : Call, at : 0 .. MaxNow])
  <2>1. [call |-> call, at |-> now] \in [call : Call, at : 0 .. MaxNow]
    BY <1>4
  <2>2. /\ ran' \in Seq([call : Call, at : 0 .. MaxNow])
        /\ Len(ran') = Len(ran) + 1
        /\ \A i \in 1 .. Len(ran) : ran'[i] = ran[i]
        /\ ran'[Len(ran) + 1] = [call |-> call, at |-> now]
    BY <1>0, <1>1, <2>1, TypesAre, AppendProperties
  <2>3. DOMAIN ran' = 1 .. Len(ran')
    BY <2>2, LenProperties
  <2> QED
    BY <1>0, <2>2, <2>3, TypesAre DEF RanGrows
<1>10. ListTrue(all)'
  <2>1. ListTrue(kept)
    BY <1>2, TypesAre, SubTrue DEF LedgerInv, RowsRight
  <2>2. ListTrue(kept)'
    BY <1>2, <1>9, <2>1, TrueStays
  <2>3. RowTrue(row)'
    <3>1. [call |-> call, at |-> now].call = call /\ [call |-> call, at |-> now].at = now
      OBVIOUS
    <3>2. call = [key |-> call.key, fingerprint |-> call.fingerprint]
      BY DEF Call
    <3> QED
      BY <1>5, <1>9, <3>1, <3>2 DEF RowTrue
  <2>4. OnePerKey(all)
    <3>1. OnePerKey(kept)
      BY <2>1 DEF ListTrue
    <3>2. ASSUME NEW a \in DOMAIN all, NEW b \in DOMAIN all, all[a].key = all[b].key PROVE a = b
      BY <1>3, <1>5, <1>6, <3>1, <3>2 DEF OnePerKey
    <3> QED
      BY <3>2 DEF OnePerKey
  <2> QED
    BY <1>6, <2>2, <2>3, <2>4 DEF ListTrue, OnePerKey
<1>11. ListTrue(rows)'
  <2>1. OnePerKey(all) /\ \A r \in ToSet(all) : RowTrue(r)'
    BY <1>10 DEF ListTrue, OnePerKey
  <2>2. PICK q \in Seq(Row) : q = rows'
    BY <1>8
  <2>3. OnePerKey(q)
    BY <1>6, <1>8, <2>1, <2>2, SubKeys
  <2> QED
    BY <1>8, <2>1, <2>2, <2>3 DEF ListTrue, OnePerKey
<1>12. RowsRight'
  <2>1. ASSUME NEW r \in ToSet(all), r.state = "in-flight" PROVE r.run \in running'
    <3>1. CASE r = row
      BY <1>1, <1>5, <3>1
    <3>2. CASE r \in ToSet(rows)
      BY <1>1, <2>1, <3>2 DEF LedgerInv, RowsRight
    <3> QED
      BY <1>2, <1>6, <3>1, <3>2
  <2> QED
    BY <1>8, <1>11, <2>1 DEF RowsRight
<1>13. file' \in FactFile(Row) /\ FileRight'
  BY <1>1, <1>8, <1>9, <1>11, MirroredRight
<1>14. RunsRight'
  <2>1. ASSUME NEW c \in running
        PROVE  /\ c \in DOMAIN ran'
               /\ \/ \E r \in ToSet(rows') : r.run = c /\ r.state = "in-flight"
                  \/ now - ran'[c].at > Ttl
    <3>1. c \in DOMAIN ran /\ c \in DOMAIN ran' /\ ran'[c] = ran[c]
      BY <1>9 DEF LedgerInv, RunsRight, RanGrows
    <3>2. CASE \E r \in ToSet(rows) : r.run = c /\ r.state = "in-flight"
      <4>1. PICK r \in ToSet(rows) : r.run = c /\ r.state = "in-flight"
        BY <3>2
      <4>2. RowTrue(r)
        BY DEF LedgerInv, RowsRight, ListTrue
      <4>3. r.touchedAt = ran[c].at
        BY <4>1, <4>2 DEF RowTrue
      <4>4. CASE Lapsed(r)
        BY <3>1, <4>3, <4>4 DEF Lapsed
      <4>5. CASE ~Lapsed(r)
        BY <1>2, <1>6, <1>8, <3>1, <4>1, <4>5
      <4> QED
        BY <4>4, <4>5
    <3> QED
      BY <3>1, <3>2 DEF LedgerInv, RunsRight
  <2>2. row \in ToSet(rows') /\ d \in DOMAIN ran'
    BY <1>5, <1>6, <1>8, <1>9
  <2> QED
    BY <1>1, <1>5, <2>1, <2>2 DEF RunsRight
<1>15. \A c \in DOMAIN ran' \ (forgot' \cup cut') : c \in RunsOf(rows')
  <2>1. ASSUME NEW c \in DOMAIN ran, c \notin forgot' \cup cut' PROVE c \in RunsOf(rows')
    <3>1. c \in RunsOf(rows)
      BY <2>1, ForgetsIs DEF LedgerInv, Remembered
    <3>2. PICK r \in ToSet(rows) : r.run = c
      BY <3>1 DEF RunsOf, ToSet
    <3>3. CASE Lapsed(r) \/ r.state # "in-flight"
      BY <2>1, <3>2, <3>3, ForgetsIs
    <3>4. CASE ~Lapsed(r) /\ r.state = "in-flight"
      <4>1. r \in ToSet(rows')
        BY <1>2, <1>6, <1>8, <3>4
      <4> QED
        BY <3>2, <4>1 DEF ToSet, RunsOf
    <3> QED
      BY <3>3, <3>4
  <2>2. d \in RunsOf(rows')
    <3>1. row \in ToSet(rows')
      BY <1>5, <1>6, <1>8
    <3> QED
      BY <1>5, <3>1 DEF ToSet, RunsOf
  <2> QED
    BY <1>9, <2>1, <2>2
<1>16. Remembered'
  BY <1>15 DEF Remembered
<1>17. ASSUME NEW c \in DOMAIN ran, ran[c].call.key = call.key
       PROVE  c \in forgot' \cup cut' /\ (c \in running => now - ran[c].at > Ttl)
  <2>1. ASSUME NEW r \in ToSet(rows), r.run = c PROVE Lapsed(r) /\ r.touchedAt \in Int
    <3>1. RowTrue(r)
      BY DEF LedgerInv, RowsRight, ListTrue
    <3>2. r.key = call.key
      <4>1. ran[c].call = [key |-> r.key, fingerprint |-> r.fingerprint]
        BY <2>1, <3>1 DEF RowTrue
      <4> QED
        BY <1>17, <4>1
    <3>3. r \notin ToSet(kept)
      BY <1>3, <3>2 DEF ToSet
    <3>4. r \in Row
      BY TypesAre DEF ToSet
    <3> QED
      BY <1>2, <3>3, <3>4, RowIs
  <2>2. c \notin RunsOf(rows')
    <3>1. ASSUME NEW r \in ToSet(all), r.run = c PROVE FALSE
      <4>1. CASE r = row
        BY <1>5, <1>9, <3>1, <4>1
      <4>2. CASE r \in ToSet(kept)
        BY <1>2, <2>1, <3>1, <4>2
      <4> QED
        BY <1>6, <4>1, <4>2
    <3> QED
      BY <1>8, <3>1 DEF RunsOf, ToSet
  <2>3. c \in forgot' \cup cut'
    BY <1>9, <1>15, <2>2
  <2>4. ASSUME c \in running PROVE now - ran[c].at > Ttl
    <3>1. ASSUME NEW r \in ToSet(rows), r.run = c, r.state = "in-flight"
          PROVE  now - ran[c].at > Ttl
      <4>1. RowTrue(r)
        BY DEF LedgerInv, RowsRight, ListTrue
      <4>2. r.touchedAt = ran[c].at
        BY <3>1, <4>1 DEF RowTrue
      <4> QED
        BY <2>1, <3>1, <4>2 DEF Lapsed
    <3> QED
      BY <2>4, <3>1 DEF LedgerInv, RunsRight
  <2> QED
    BY <2>3, <2>4
<1>18. ForgottenFirst'
  <2>1. ASSUME NEW c \in DOMAIN ran', NEW e \in DOMAIN ran', c < e,
               ran'[c].call.key = ran'[e].call.key
        PROVE  c \in forgot' \cup cut'
    <3>1. c \in DOMAIN ran /\ ran'[c] = ran[c]
      BY <1>0, <1>9, <2>1, TypesAre DEF RanGrows
    <3>2. CASE e = d
      <4>1. ran'[e].call = call
        BY <1>9, <3>2
      <4> QED
        BY <1>17, <2>1, <3>1, <4>1
    <3>3. CASE e \in DOMAIN ran
      <4>1. ran'[e] = ran[e]
        BY <1>9, <3>3 DEF RanGrows
      <4>2. c \in forgot \cup cut
        BY <2>1, <3>1, <3>3, <4>1 DEF LedgerInv, ForgottenFirst
      <4> QED
        BY <4>2, ForgetsIs
    <3> QED
      BY <1>9, <3>2, <3>3
  <2> QED
    BY <2>1 DEF ForgottenFirst
<1>19. OneAtATime'
  <2>1. ASSUME NEW c \in running', NEW e \in running', c < e,
               ran'[c].call.key = ran'[e].call.key
        PROVE  ran'[e].at - ran'[c].at > Ttl
    <3>1. running \subseteq DOMAIN ran
      BY DEF LedgerInv, RunsRight
    <3>2. c \in DOMAIN ran /\ c \in running /\ ran'[c] = ran[c]
      BY <1>0, <1>1, <1>9, <2>1, <3>1, TypesAre DEF RanGrows
    <3>3. CASE e = d
      <4>1. ran'[e].call = call /\ ran'[e].at = now
        BY <1>9, <3>3
      <4> QED
        BY <1>17, <2>1, <3>2, <4>1
    <3>4. CASE e \in running
      <4>1. ran'[e] = ran[e]
        BY <1>9, <3>1, <3>4 DEF RanGrows
      <4> QED
        BY <2>1, <3>2, <3>4, <4>1 DEF LedgerInv, OneAtATime
    <3> QED
      BY <1>1, <3>3, <3>4
  <2> QED
    BY <2>1 DEF OneAtATime
<1>20. TypeOK'
  BY <1>1, <1>8, <1>9, <1>13, ForgetsIs DEF LedgerInv, TypeOK
<1>21. DownRight'
  BY DEF DownRight
<1> QED
  BY <1>12, <1>13, <1>14, <1>16, <1>18, <1>19, <1>20, <1>21 DEF LedgerInv

-------------------------------------------------------------------------------
(* A handler's end.                                                            *)

\* The claim of run c moves its own row alone, and only out of the state it expects.
LEMMA MovesKeep ==
    ASSUME LedgerInv, up, NEW c \in Run, NEW from \in {"in-flight", "unknown"},
           NEW st \in {"settled", "unknown"}, NEW reply,
           st = "settled" => reply = c, st = "unknown" => reply = NoReply,
           Moves(c, from, st, reply),
           running' = IF from = "in-flight" THEN running \ {c} ELSE running,
           late' \subseteq Run,
           UNCHANGED <<up, now, ran, forgot, cut, exits>>
    PROVE  LedgerInv'
<1>1. now \in 0 .. MaxNow
  BY DEF LedgerInv, TypeOK
<1>2. /\ DOMAIN rows' = DOMAIN rows
      /\ \A i \in DOMAIN rows :
            rows'[i] = IF rows[i].run = c /\ rows[i].state = from
                       THEN [rows[i] EXCEPT !.state = st, !.reply = reply, !.touchedAt = now]
                       ELSE rows[i]
      /\ Mirrored(rows')
  BY DEF Moves, OwnRow
<1>3. ASSUME NEW i \in DOMAIN rows
      PROVE  /\ rows'[i] \in Row
             /\ rows'[i].key = rows[i].key /\ rows'[i].run = rows[i].run
             /\ rows'[i].fingerprint = rows[i].fingerprint
             /\ rows'[i].claimedAt = rows[i].claimedAt
             /\ \/ rows'[i] = rows[i] /\ ~(rows[i].run = c /\ rows[i].state = from)
                \/ rows[i].run = c /\ rows'[i].state = st /\ rows'[i].reply = reply
  <2>1. rows[i] \in Row
    BY TypesAre
  <2>2. st \in States /\ (st = "settled" => reply \in Run) /\ (st # "settled" => reply = NoReply)
    BY DEF States
  <2>3. CASE rows[i].run = c /\ rows[i].state = from
    <3>1. rows'[i] = Moved(rows[i], st, reply, now)
      BY <1>2, <2>3 DEF Moved
    <3> QED
      BY <1>1, <2>1, <2>2, <2>3, <3>1, MovedRow
  <2>4. CASE ~(rows[i].run = c /\ rows[i].state = from)
    BY <1>2, <2>1, <2>4
  <2> QED
    BY <2>3, <2>4
<1>4. rows' \in Seq(Row) /\ Len(rows') = Len(rows)
  <2>1. rows' = [i \in 1 .. Len(rows) |-> rows'[i]]
    BY <1>2, TypesAre DEF Moves
  <2>2. rows' \in [1 .. Len(rows) -> Row]
    BY <1>2, <1>3, <2>1, TypesAre
  <2>3. rows' \in Seq(Row)
    BY <2>2, TypesAre, IsASeq
  <2>4. DOMAIN rows' = 1 .. Len(rows') /\ Len(rows') \in Nat
    BY <2>3, LenProperties
  <2>5. Len(rows') = Len(rows)
    <3>1. 1 .. Len(rows') = 1 .. Len(rows) /\ Len(rows) \in Nat
      BY <1>2, <2>4, TypesAre
    <3> QED
      BY <2>4, <3>1
  <2> QED
    BY <2>3, <2>5
<1>5. RanGrows
  BY DEF RanGrows
<1>6. \A i \in DOMAIN rows : RowTrue(rows[i]) /\ (rows[i].state = "in-flight" => rows[i].run \in running)
  BY DEF LedgerInv, RowsRight, ListTrue, ToSet
<1>7. ListTrue(rows)'
  <2>1. ASSUME NEW i \in DOMAIN rows, NEW r, r = rows'[i] PROVE RowTrue(r)'
    <3>1. CASE r = rows[i]
      BY <1>6, <3>1 DEF RowTrue
    <3>2. CASE rows[i].run = c /\ r.state = st /\ r.reply = reply
      BY <1>3, <1>6, <2>1, <3>2 DEF RowTrue
    <3> QED
      BY <1>3, <2>1, <3>1, <3>2
  <2>2. \A r \in ToSet(rows') : RowTrue(r)'
    BY <1>2, <2>1 DEF ToSet
  <2>3. \A i, j \in DOMAIN rows : rows[i].key = rows[j].key => i = j
    BY DEF LedgerInv, RowsRight, ListTrue, OnePerKey
  <2> QED
    BY <1>2, <1>3, <2>2, <2>3 DEF ListTrue, OnePerKey
<1>8. RowsRight'
  <2>1. ASSUME NEW i \in DOMAIN rows, rows'[i].state = "in-flight" PROVE rows'[i].run \in running'
    BY <1>3, <1>6, <2>1
  <2> QED
    BY <1>2, <1>7, <2>1 DEF RowsRight, ToSet
<1>9. file' \in FactFile(Row) /\ FileRight'
  BY <1>2, <1>4, <1>5, <1>7, MirroredRight
<1>10. RunsRight'
  <2>1. ASSUME NEW e \in running'
        PROVE  /\ e \in DOMAIN ran'
               /\ \/ \E r \in ToSet(rows') : r.run = e /\ r.state = "in-flight"
                  \/ now' - ran'[e].at > Ttl
    <3>1. e \in running /\ (from = "in-flight" => e # c)
      OBVIOUS
    <3>2. CASE \E r \in ToSet(rows) : r.run = e /\ r.state = "in-flight"
      <4>1. PICK i \in DOMAIN rows : rows[i].run = e /\ rows[i].state = "in-flight"
        BY <3>2 DEF ToSet
      <4>2. rows'[i] = rows[i]
        BY <1>2, <3>1, <4>1
      <4>3. rows'[i] \in ToSet(rows')
        BY <1>2 DEF ToSet
      <4> QED
        BY <3>1, <4>1, <4>2, <4>3 DEF LedgerInv, RunsRight
    <3> QED
      BY <3>1, <3>2 DEF LedgerInv, RunsRight
  <2> QED
    BY <2>1 DEF RunsRight
<1>11. Remembered'
  <2>1. RunsOf(rows') = RunsOf(rows)
    <3>1. \A i \in DOMAIN rows : rows'[i].run = rows[i].run
      BY <1>3
    <3> QED
      BY <1>2, <3>1 DEF RunsOf
  <2> QED
    BY <2>1 DEF LedgerInv, Remembered, RunsOf
<1>12. ForgottenFirst' /\ OneAtATime'
  BY DEF LedgerInv, ForgottenFirst, OneAtATime
<1>13. TypeOK'
  BY <1>4, <1>9 DEF LedgerInv, TypeOK
<1>14. DownRight'
  BY DEF DownRight
<1> QED
  BY <1>8, <1>9, <1>10, <1>11, <1>12, <1>13, <1>14 DEF LedgerInv

LEMMA HandlerKeeps ==
    ASSUME LedgerInv, NEW c \in Run,
           HandlerReplies(c) \/ HandlerGivesUp(c) \/ HandlerThrows(c) \/ LateAnswer(c)
    PROVE  LedgerInv'
<1>1. late \subseteq Run /\ running \subseteq Run
  BY DEF LedgerInv, TypeOK
<1>2. CASE HandlerReplies(c)
  BY <1>1, <1>2, MovesKeep DEF HandlerReplies
<1>3. CASE HandlerGivesUp(c)
  BY <1>1, <1>3, MovesKeep DEF HandlerGivesUp
<1>4. CASE HandlerThrows(c)
  BY <1>1, <1>4, MovesKeep DEF HandlerThrows
<1>5. CASE LateAnswer(c)
  BY <1>1, <1>5, MovesKeep DEF LateAnswer
<1> QED
  BY <1>2, <1>3, <1>4, <1>5

-------------------------------------------------------------------------------
(* The clock and the file.                                                     *)

LEMMA TickKeeps ==
    ASSUME LedgerInv, Tick
    PROVE  LedgerInv'
<1>1. /\ now < MaxNow /\ now' = now + 1
      /\ UNCHANGED <<up, rows, running, late, file, ran, forgot, cut, exits>>
  BY DEF Tick
<1>2. now \in 0 .. MaxNow /\ MaxNow \in Nat
  BY LedgerAssumption DEF LedgerInv, TypeOK
<1>3. TypeOK'
  BY <1>1, <1>2 DEF LedgerInv, TypeOK
<1>4. RowsRight' /\ FileRight' /\ Remembered' /\ DownRight' /\ ForgottenFirst' /\ OneAtATime'
  <2>1. RowsRight'
    BY <1>1 DEF LedgerInv, RowsRight, ListTrue, RowTrue, OnePerKey
  <2>2. FileRight'
    BY <1>1 DEF LedgerInv, FileRight, ListTrue, RowTrue, OnePerKey, Covers
  <2>3. Remembered' /\ DownRight' /\ ForgottenFirst' /\ OneAtATime'
    BY <1>1 DEF LedgerInv, Remembered, DownRight, ForgottenFirst, OneAtATime
  <2> QED
    BY <2>1, <2>2, <2>3
<1>5. RunsRight'
  <2>1. ASSUME NEW c \in running, now - ran[c].at > Ttl, c \in DOMAIN ran
        PROVE  now' - ran[c].at > Ttl
    BY <1>1, <1>2, <2>1, TypesAre
  <2> QED
    BY <1>1, <2>1 DEF LedgerInv, RunsRight
<1> QED
  BY <1>3, <1>4, <1>5 DEF LedgerInv

\* A step of the file alone: true snapshots stay so, and the newest one stays the newest.
LEMMA FileStepKeeps ==
    ASSUME LedgerInv, up, file' \in FactFile(Row),
           file'.pending \cup file'.writing \cup {file'.disk}
               \subseteq file.pending \cup file.writing \cup {file.disk},
           \A s \in file'.pending : Covers(s),
           file'.pending = {} => \A s \in file'.writing : Covers(s),
           Settled(file') /\ ~file'.failed => Covers(file'.disk),
           UNCHANGED <<up, now, rows, running, late, ran, forgot, cut, exits>>
    PROVE  LedgerInv'
<1>1. TypeOK'
  BY DEF LedgerInv, TypeOK
<1>2. RowsRight' /\ RunsRight' /\ ForgottenFirst' /\ OneAtATime'
  BY DEF LedgerInv, RowsRight, RunsRight, ListTrue, RowTrue, OnePerKey, ForgottenFirst, OneAtATime
<1>3. Remembered' /\ DownRight'
  BY DEF LedgerInv, Remembered, DownRight
<1>4. FileRight'
  <2>1. \A s \in file.pending \cup file.writing \cup {file.disk} : ListTrue(s)'
    BY DEF LedgerInv, FileRight, ListTrue, RowTrue, OnePerKey
  <2>2. \A s : Covers(s) => Covers(s)'
    BY DEF Covers
  <2> QED
    BY <2>1, <2>2 DEF FileRight, Settled
<1> QED
  BY <1>1, <1>2, <1>3, <1>4 DEF LedgerInv

LEMMA SaveTimerKeeps ==
    ASSUME LedgerInv, SaveTimer
    PROVE  LedgerInv'
<1>1. /\ up /\ file' = TimerFired(file)
      /\ UNCHANGED <<up, now, rows, running, late, ran, forgot, cut, exits>>
  BY DEF SaveTimer
<1>2. /\ file' \in FactFile(Row)
      /\ file'.disk = file.disk /\ file'.failed = file.failed
      /\ \/ file'.pending = file.pending /\ file'.writing = file.writing
         \/ file'.pending = {} /\ file'.writing = file.pending /\ file.writing = {}
  BY <1>1, TypesAre, TimerFiredIs
<1>3. /\ \A s \in file.pending : Covers(s)
      /\ file.pending = {} => \A s \in file.writing : Covers(s)
      /\ file.pending = {} /\ file.writing = {} /\ ~file.failed => Covers(file.disk)
  BY DEF LedgerInv, FileRight, Settled
<1>4. /\ \A s \in file'.pending : Covers(s)
      /\ file'.pending = {} => \A s \in file'.writing : Covers(s)
      /\ file'.pending = {} /\ file'.writing = {} /\ ~file'.failed => Covers(file'.disk)
  BY <1>2, <1>3
<1> QED
  BY <1>1, <1>2, <1>4, FileStepKeeps DEF Settled

LEMMA SaveEndsKeeps ==
    ASSUME LedgerInv, SaveEnds
    PROVE  LedgerInv'
<1>1. /\ up /\ file.writing # {}
      /\ UNCHANGED <<up, now, rows, running, late, ran, forgot, cut, exits>>
  BY DEF SaveEnds
<1>2. PICK landed \in BOOLEAN : file' = WriteEnded(file, landed)
  BY DEF SaveEnds
<1>3. /\ file' \in FactFile(Row) /\ file'.failed = ~landed
      /\ landed => file'.disk \in file.writing
      /\ ~landed => file'.disk = file.disk
      /\ \/ file'.pending = file.pending /\ file'.writing = {}
         \/ file'.pending = {} /\ file'.writing = file.pending
  BY <1>1, <1>2, TypesAre, WriteEndedIs
<1>4. /\ \A s \in file.pending : Covers(s)
      /\ file.pending = {} => \A s \in file.writing : Covers(s)
  BY DEF LedgerInv, FileRight
<1>5. /\ \A s \in file'.pending : Covers(s)
      /\ file'.pending = {} => \A s \in file'.writing : Covers(s)
      /\ file'.pending = {} /\ file'.writing = {} /\ ~file'.failed => Covers(file'.disk)
  BY <1>3, <1>4
<1> QED
  BY <1>1, <1>3, <1>5, FileStepKeeps DEF Settled

-------------------------------------------------------------------------------
(* An exit and a start.                                                        *)

\* An exit that leaves a true disk and takes note of every row the disk does not have.
LEMMA GoneKeeps ==
    ASSUME LedgerInv, NEW disk, disk \in file.pending \cup file.writing \cup {file.disk},
           Gone(disk), forgot' \cup cut' \subseteq Run,
           forgot \subseteq forgot', cut \subseteq cut',
           \A c \in RunsOf(rows) : c \in forgot' \cup cut' \cup RunsOf(disk)
    PROVE  LedgerInv'
<1>1. /\ up /\ exits < MaxExits /\ ~up' /\ exits' = exits + 1
      /\ file' = NewFile(disk) /\ rows' = << >> /\ running' = {} /\ late' = {}
      /\ now' = now /\ ran' = ran
  BY DEF Gone
<1>2. disk \in Seq(Row) /\ ListTrue(disk)
  BY TypesAre DEF FactFile, LedgerInv, FileRight
<1>3. /\ file'.pending = {} /\ file'.writing = {} /\ file'.disk = disk
      /\ file' \in FactFile(Row)
  BY <1>1, <1>2 DEF NewFile, FactFile
<1>4. ListTrue(disk)'
  BY <1>1, <1>2, TrueStays DEF RanGrows
<1>5. TypeOK'
  <2>1. exits \in 0 .. MaxExits /\ MaxExits \in Nat
    BY LedgerAssumption DEF LedgerInv, TypeOK
  <2>2. rows' \in Seq(Row) /\ up' \in BOOLEAN
    <3>1. << >> \in Seq(Row)
      BY EmptySeq
    <3> QED
      BY <1>1, <3>1 DEF Gone
  <2> QED
    BY <1>1, <1>3, <2>1, <2>2 DEF LedgerInv, TypeOK
<1>6. RowsRight' /\ RunsRight' /\ OneAtATime' /\ DownRight'
  BY <1>1, <1>3 DEF RowsRight, RunsRight, OneAtATime, DownRight, ListTrue, OnePerKey, ToSet
<1>7. Remembered'
  <2>1. ASSUME NEW c \in DOMAIN ran, c \notin forgot' \cup cut' PROVE c \in RunsOf(disk)
    <3>1. c \in RunsOf(rows)
      BY <1>1, <2>1 DEF LedgerInv, Remembered
    <3> QED
      BY <2>1, <3>1
  <2> QED
    BY <1>1, <1>3, <2>1 DEF Remembered, RunsOf
<1>8. FileRight'
  BY <1>1, <1>3, <1>4 DEF FileRight, Covers
<1>9. ForgottenFirst'
  BY <1>1 DEF LedgerInv, ForgottenFirst
<1> QED
  BY <1>5, <1>6, <1>7, <1>8, <1>9 DEF LedgerInv

LEMMA RowRuns ==
    ASSUME LedgerInv
    PROVE  RunsOf(rows) \subseteq Run /\ forgot \cup cut \subseteq Run
<1>1. \A i \in DOMAIN rows : rows[i].run \in Run
  BY TypesAre, RowIs
<1> QED
  BY <1>1 DEF RunsOf, LedgerInv, TypeOK

LEMMA CrashKeeps ==
    ASSUME LedgerInv, Crash
    PROVE  LedgerInv'
<1>1. /\ Gone(file.disk) /\ cut' = cut
      /\ forgot' = forgot \cup (RunsOf(rows) \ RunsOf(file.disk))
  BY DEF Crash
<1>2. forgot' \cup cut' \subseteq Run
  BY <1>1, RowRuns
<1> QED
  BY <1>1, <1>2, GoneKeeps

\* A quit whose flush finds the snapshot leaves it on the disk.
LEMMA FlushedQuit ==
    ASSUME LedgerInv, Flushes,
           NEW disk \in {FlushedSync(file).disk} \cup FlushedSync(file).writing
    PROVE  Covers(disk)
<1>1. CASE file.pending # {}
  <2>1. FlushedSync(file).writing = {} /\ FlushedSync(file).disk \in file.pending
    BY <1>1, TypesAre, FlushedIs DEF FactFile, FlushedSync
  <2> QED
    BY <2>1 DEF LedgerInv, FileRight
<1>2. CASE file.pending = {}
  <2>1. file.writing = {} /\ ~file.failed /\ FlushedSync(file) = file
    BY <1>2 DEF Flushes, FlushedSync
  <2> QED
    BY <1>2, <2>1 DEF LedgerInv, FileRight, Settled
<1> QED
  BY <1>1, <1>2

\* A row is on the disk a quit leaves, or noted as left off it.
LEMMA QuitKeeps ==
    ASSUME LedgerInv, Quit
    PROVE  LedgerInv'
<1>1. PICK disk \in {FlushedSync(file).disk} \cup FlushedSync(file).writing :
          Gone(disk) /\ cut' = cut \cup LeftOut(disk) /\ forgot' = forgot
  BY DEF Quit
<1>2. disk \in file.pending \cup file.writing \cup {file.disk}
  <2>1. /\ FlushedSync(file).disk \in file.pending \cup {file.disk}
        /\ FlushedSync(file).writing \subseteq file.writing
    BY TypesAre, FlushedIs
  <2> QED
    BY <2>1
<1>3. ASSUME NEW j \in DOMAIN rows, rows[j].run \notin LeftOut(disk)
      PROVE  rows[j].run \in RunsOf(disk)
  <2>1. CASE j + GlobalMax <= Len(rows) \/ ~Flushes
    BY <1>3, <2>1 DEF LeftOut
  <2>2. CASE ~(j + GlobalMax <= Len(rows)) /\ Flushes
    <3>1. j \in Nat /\ Len(rows) \in Nat /\ GlobalMax \in Nat
      BY TypesAre, LedgerAssumption
    <3>2. j + GlobalMax > Len(rows)
      BY <2>2, <3>1
    <3> QED
      BY <2>2, <3>2, FlushedQuit DEF Covers
  <2> QED
    BY <2>1, <2>2
<1>4. LeftOut(disk) \subseteq RunsOf(rows)
  BY DEF LeftOut, RunsOf
<1>5. /\ forgot' \cup cut' \subseteq Run /\ forgot \subseteq forgot' /\ cut \subseteq cut'
      /\ \A c \in RunsOf(rows) : c \in forgot' \cup cut' \cup RunsOf(disk)
  BY <1>1, <1>3, <1>4, RowRuns DEF RunsOf
<1> QED
  BY <1>1, <1>2, <1>5, GoneKeeps

\* A start remembers what it does not forget, and finds nothing under way.
LEMMA StartKeeps ==
    ASSUME LedgerInv, Start
    PROVE  LedgerInv'
<1>0. PICK disk, q : disk = file.disk /\ q = Loaded(disk)
  OBVIOUS
<1>1. /\ ~up /\ up' /\ rows' = Restored(q)
      /\ forgot' = forgot \cup (RunsOf(q) \ RunsOf(rows'))
                          \cup {disk[i].run : i \in {j \in DOMAIN disk : Lapsed(disk[j])}}
      /\ UNCHANGED <<now, running, late, file, ran, cut, exits>>
  BY <1>0 DEF Start
<1>2. disk \in Seq(Row) /\ ListTrue(disk) /\ \A i \in DOMAIN disk : disk[i] \in Row
  <2>1. disk \in Seq(Row) /\ ListTrue(disk)
    BY <1>0, TypesAre DEF FactFile, LedgerInv, FileRight
  <2> QED
    BY <2>1, LenProperties, ElementOfSeq
<1>3. /\ q \in Seq(Row) /\ ListTrue(q) /\ \A r \in ToSet(q) : r.state # "in-flight"
      /\ \A r \in ToSet(disk) : ~Lapsed(r) => r.run \in RunsOf(q)
      /\ RunsOf(q) \subseteq RunsOf(disk)
  BY <1>0, <1>2, LoadedIs
<1>4. /\ rows' \in Seq(Row) /\ OnePerKey(rows') /\ ToSet(rows') \subseteq ToSet(q)
  BY <1>1, <1>3, RestoredIs DEF ListTrue
<1>5. RanGrows
  BY <1>1 DEF RanGrows
<1>6. ListTrue(rows)' /\ \A r \in ToSet(rows') : r.state # "in-flight"
  <2>1. ListTrue(q)'
    BY <1>3, <1>5, TrueStays
  <2> QED
    BY <1>3, <1>4, <2>1 DEF ListTrue, OnePerKey
<1>7. running = {} /\ file.pending = {} /\ file.writing = {}
  BY <1>1 DEF LedgerInv, DownRight
<1>8. RunsOf(rows') \subseteq RunsOf(disk)
  <2>1. RunsOf(rows') \subseteq RunsOf(q)
    BY <1>4 DEF RunsOf, ToSet
  <2> QED
    BY <1>3, <2>1
<1>9. FileRight'
  <2>1. ListTrue(disk)'
    BY <1>2, <1>5, TrueStays
  <2>2. Covers(disk)'
    BY <1>8 DEF Covers, RunsOf
  <2> QED
    BY <1>0, <1>1, <1>7, <2>1, <2>2 DEF FileRight
<1>10. Remembered'
  <2>1. ASSUME NEW c \in DOMAIN ran, c \notin forgot' \cup cut' PROVE c \in RunsOf(rows')
    <3>1. c \in RunsOf(disk)
      BY <1>0, <1>1, <2>1 DEF LedgerInv, Remembered
    <3>2. PICK i \in DOMAIN disk : disk[i].run = c
      BY <3>1 DEF RunsOf
    <3>3. ~Lapsed(disk[i])
      BY <1>1, <2>1, <3>2
    <3>4. disk[i] \in ToSet(disk)
      BY DEF ToSet
    <3>5. c \in RunsOf(q)
      BY <1>3, <3>2, <3>3, <3>4
    <3> QED
      BY <1>1, <2>1, <3>5
  <2> QED
    BY <1>1, <2>1 DEF Remembered
<1>11. forgot' \cup cut' \subseteq Run
  <2>1. \A i \in DOMAIN disk : disk[i].run \in Run
    BY <1>2, RowIs
  <2>2. RunsOf(q) \subseteq Run /\ {disk[i].run : i \in {j \in DOMAIN disk : Lapsed(disk[j])}} \subseteq Run
    BY <1>3, <2>1 DEF RunsOf
  <2>3. forgot \cup cut \subseteq Run
    BY RowRuns
  <2> QED
    BY <1>1, <2>2, <2>3
<1>12. TypeOK'
  BY <1>1, <1>4, <1>11 DEF LedgerInv, TypeOK, Start
<1>13. RowsRight' /\ RunsRight' /\ OneAtATime' /\ DownRight'
  BY <1>1, <1>6, <1>7 DEF RowsRight, RunsRight, OneAtATime, DownRight
<1>14. ForgottenFirst'
  BY <1>1 DEF LedgerInv, ForgottenFirst
<1> QED
  BY <1>9, <1>10, <1>12, <1>13, <1>14 DEF LedgerInv

-------------------------------------------------------------------------------
(* The specification.                                                          *)

LEMMA NoRowsRight ==
    ASSUME Init
    PROVE  LedgerInv
<1>1. /\ up = TRUE /\ now = 0 /\ rows = << >> /\ running = {} /\ late = {}
      /\ ran = << >> /\ forgot = {} /\ cut = {} /\ exits = 0
      /\ file.disk = << >> /\ file.pending = {} /\ file.writing = {}
      /\ file \in FactFile(Row)
  BY DEF Init, NewFile, FactFile
<1>2. {MaxNow, MaxExits} \subseteq Nat
  BY LedgerAssumption
<1>3. TypeOK
  BY <1>1, <1>2 DEF TypeOK
<1>4. DOMAIN rows = {} /\ DOMAIN ran = {} /\ ToSet(rows) = {}
  BY <1>1 DEF ToSet
<1>5. ListTrue(rows)
  BY <1>4 DEF ListTrue, OnePerKey
<1>6. RowsRight /\ RunsRight /\ Remembered /\ DownRight
  BY <1>1, <1>4, <1>5 DEF RowsRight, RunsRight, Remembered, DownRight
<1>7. FileRight
  BY <1>1, <1>4, <1>5 DEF FileRight, Covers
<1>8. ForgottenFirst /\ OneAtATime
  BY <1>1, <1>4 DEF ForgottenFirst, OneAtATime
<1> QED
  BY <1>3, <1>6, <1>7, <1>8 DEF LedgerInv

LEMMA BeginKeeps ==
    ASSUME LedgerInv, NEW call \in Call, Begin(call)
    PROVE  LedgerInv'
<1>1. BeginForgets
  BY DEF Begin, BeginForgets
<1>2. up /\ UNCHANGED <<up, now, late, cut, exits>>
  BY DEF Begin
<1>3. CASE Answered(call)
  BY <1>1, <1>2, <1>3, AnsweredKeeps
<1>4. CASE Claimed(call)
  BY <1>1, <1>2, <1>4, ClaimedKeeps
<1> QED
  BY <1>3, <1>4 DEF Begin

LEMMA StutterKeeps ==
    ASSUME LedgerInv, UNCHANGED vars
    PROVE  LedgerInv'
<1>1. TypeOK'
  BY DEF LedgerInv, TypeOK, vars
<1>2. RowsRight' /\ RunsRight'
  BY DEF LedgerInv, RowsRight, RunsRight, ListTrue, OnePerKey, RowTrue, vars
<1>3. Remembered' /\ DownRight' /\ ForgottenFirst' /\ OneAtATime'
  BY DEF LedgerInv, Remembered, RunsOf, DownRight, ForgottenFirst, OneAtATime, vars
<1>4. FileRight'
  BY DEF LedgerInv, FileRight, ListTrue, OnePerKey, RowTrue, Covers, Settled, RunsOf, vars
<1> QED
  BY <1>1, <1>2, <1>3, <1>4 DEF LedgerInv

LEMMA StepKeeps ==
    ASSUME LedgerInv, [Next]_vars
    PROVE  LedgerInv'
<1>1. ASSUME NEW call \in Call, Begin(call) PROVE LedgerInv'
  BY <1>1, BeginKeeps
<1>2. ASSUME NEW c \in Run,
             HandlerReplies(c) \/ HandlerGivesUp(c) \/ HandlerThrows(c) \/ LateAnswer(c)
      PROVE  LedgerInv'
  BY <1>2, HandlerKeeps
<1>3. CASE Tick
  BY <1>3, TickKeeps
<1>4. CASE SaveTimer
  BY <1>4, SaveTimerKeeps
<1>5. CASE SaveEnds
  BY <1>5, SaveEndsKeeps
<1>6. CASE Crash
  BY <1>6, CrashKeeps
<1>7. CASE Quit
  BY <1>7, QuitKeeps
<1>8. CASE Start
  BY <1>8, StartKeeps
<1>9. CASE UNCHANGED vars
  BY <1>9, StutterKeeps
<1> QED
  BY <1>1, <1>2, <1>3, <1>4, <1>5, <1>6, <1>7, <1>8, <1>9 DEF Next

\* The ledger, its file and its history stay well-typed through every begin, end, save,
\* crash, quit and start, and the invariant the results below rest on holds.
THEOREM LedgerAlways == Spec => []LedgerInv
<1>1. Init => LedgerInv
  BY NoRowsRight
<1>2. LedgerInv /\ [Next]_vars => LedgerInv'
  BY StepKeeps
<1> QED
  BY <1>1, <1>2, PTL DEF Spec

\* The ledger's type invariant: every row a sequence of whole rows, a settled row, and
\* only a settled one, with a reply; the caps, the restore and the saves keep it so.
THEOREM TypeCorrect == Spec => []TypeOK
<1>1. LedgerInv => TypeOK
  BY DEF LedgerInv
<1> QED
  BY <1>1, LedgerAlways, PTL

\* A call runs once, for any callers, caps, clocks and exits: begin runs it again only when
\* the row of every earlier run of it was taken by retention, by a cap or by a crash before
\* a write of it landed, or was left off the disk by a quit; and beside an earlier run only
\* past the retention time.
THEOREM CallsRunOnce == Spec => []RunsOnce
<1>1. LedgerInv => RunsOnce
  BY DEF LedgerInv, RunsOnce
<1> QED
  BY <1>1, LedgerAlways, PTL

\* What the header claims of a clean quit, and under what: where every quit finds a snapshot
\* to flush or the last one written, and no more rows than the file has room for, no call
\* runs again for want of what a quit did not write.  Without either the code breaks it.
THEOREM FlushedQuitsLoseNothing ==
    Spec /\ [][Quit => Flushes /\ Len(rows) <= GlobalMax]_vars => []RunsOnceOverQuits
<1>1. Init => cut = {}
  BY DEF Init
<1>2. LedgerInv /\ cut = {} /\ [Next]_vars /\ [Quit => Flushes /\ Len(rows) <= GlobalMax]_vars
          => (cut = {})'
  <2> SUFFICES ASSUME LedgerInv, cut = {}, [Next]_vars,
                      [Quit => Flushes /\ Len(rows) <= GlobalMax]_vars
               PROVE  cut' = {}
    OBVIOUS
  <2>1. CASE UNCHANGED cut
    BY <2>1
  <2>2. CASE Quit
    <3>1. up /\ up' = FALSE
      BY <2>2 DEF Quit, Gone
    <3>2. Flushes /\ Len(rows) <= GlobalMax
      BY <2>2, <3>1 DEF vars
    <3>3. PICK disk : cut' = cut \cup LeftOut(disk)
      BY <2>2 DEF Quit
    <3>4. \A j \in DOMAIN rows : ~(j + GlobalMax <= Len(rows))
      BY <3>2, TypesAre, LedgerAssumption
    <3>5. LeftOut(disk) = {}
      BY <3>2, <3>4 DEF LeftOut
    <3> QED
      BY <3>3, <3>5
  <2>3. CASE Next /\ ~Quit
    BY <2>1, <2>3 DEF Next, Begin, HandlerReplies, HandlerGivesUp, HandlerThrows,
                      LateAnswer, Tick, SaveTimer, SaveEnds, Crash, Start
  <2>4. CASE UNCHANGED vars
    BY <2>1, <2>4 DEF vars
  <2> QED
    BY <2>2, <2>3, <2>4
<1>3. LedgerInv /\ cut = {} => RunsOnceOverQuits
  BY DEF LedgerInv, ForgottenFirst, RunsOnceOverQuits
<1> QED
  BY <1>1, <1>2, <1>3, LedgerAlways, PTL DEF Spec

LEMMA FoundIsTrue ==
    ASSUME LedgerInv
    PROVE  AnswersAreTrue
<1>1. SUFFICES ASSUME NEW call \in Call, NEW r \in Found(call)
               PROVE  /\ AnswerFrom(r, call) = "replay" => ran[r.reply].call = call
                      /\ AnswerFrom(r, call) = "request-in-flight" =>
                             \E c \in running : ran[c].call = call
  BY DEF AnswersAreTrue
<1>2. r \in ToSet(Pruned(rows)) /\ r.key = call.key
  BY DEF Found, ToSet
<1>3. r \in ToSet(rows) /\ RowTrue(r) /\ (r.state = "in-flight" => r.run \in running)
  <2>1. r \in ToSet(rows)
    BY <1>2, TypesAre, PrunedIs
  <2> QED
    BY <2>1 DEF LedgerInv, RowsRight, ListTrue
<1>4. call = [key |-> call.key, fingerprint |-> call.fingerprint]
  BY DEF Call
<1>5. ASSUME AnswerFrom(r, call) \in {"replay", "request-in-flight"}
      PROVE  r.fingerprint = call.fingerprint
  BY <1>5 DEF AnswerFrom
<1>6. ASSUME r.fingerprint = call.fingerprint PROVE ran[r.run].call = call
  BY <1>2, <1>3, <1>4, <1>6 DEF RowTrue
<1>7. ASSUME AnswerFrom(r, call) = "replay" PROVE ran[r.reply].call = call
  <2>1. r.state = "settled"
    BY <1>7 DEF AnswerFrom
  <2> QED
    BY <1>3, <1>5, <1>6, <1>7, <2>1 DEF RowTrue
<1>8. ASSUME AnswerFrom(r, call) = "request-in-flight"
      PROVE  \E c \in running : ran[c].call = call
  <2>1. r.state = "in-flight"
    BY <1>8 DEF AnswerFrom
  <2> QED
    BY <1>3, <1>5, <1>6, <1>8, <2>1
<1> QED
  BY <1>7, <1>8

\* Answers are true, for any ids, fingerprints and exits: a replay is the reply of a run of that
\* very call, and "in flight" is said only of a call some handler is working on.
THEOREM TrueAnswers == Spec => []AnswersAreTrue
<1>1. LedgerInv => AnswersAreTrue
  BY FoundIsTrue
<1> QED
  BY <1>1, LedgerAlways, PTL

-------------------------------------------------------------------------------
(* The ledger beside the session host, as the run that answers retried operation ids has
   them.                                                                               *)

LEMMA IdsInvInit == IdsInit => LedgerInv /\ HostInv
  BY NoRowsRight, HostInvInit DEF IdsInit

LEMMA IdsInvNext ==
    ASSUME LedgerInv, HostInv, [IdsNext]_<<whose, vars, sessionVars>>
    PROVE  LedgerInv' /\ HostInv'
<1>1. [Next]_vars /\ [SessionNext]_sessionVars
  <2>1. CASE IdsNext
    BY <2>1 DEF IdsNext
  <2>2. CASE UNCHANGED <<whose, vars, sessionVars>>
    BY <2>2
  <2> QED
    BY <2>1, <2>2
<1> QED
  BY <1>1, StepKeeps, HostInvNext

\* Where a retried operation id is answered, by the ledger's begin or by the host's kill, every
\* variable keeps its type: a row is whole, only a settled one has a reply, and an operation is
\* remembered with the generation it was sent for.
THEOREM IdsTypes == IdsSpec => []IdsTypeOK
<1>1. LedgerInv /\ HostInv => IdsTypeOK
  BY HostInvTyped DEF LedgerInv, IdsTypeOK
<1>2. IdsInit => LedgerInv /\ HostInv
  BY IdsInvInit
<1>3. LedgerInv /\ HostInv /\ [IdsNext]_<<whose, vars, sessionVars>> => (LedgerInv /\ HostInv)'
  BY IdsInvNext
<1> QED
  BY <1>1, <1>2, <1>3, PTL DEF IdsSpec
===============================================================================
