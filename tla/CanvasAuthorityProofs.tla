------------------------- MODULE CanvasAuthorityProofs -------------------------
(* The canvas authority, for any keys, values and bounds: what is owed to the disk is on
   its way there, no op is lost on it, and in the end the file, the authority and the
   tabs agree.                                                                 *)
EXTENDS CanvasAuthority, CanvasOrderLemmas

-------------------------------------------------------------------------------
(* The inductive invariant.                                                    *)

\* The governed project's own books: what its next write, and the one in flight, retire.
GovRight(g) ==
    /\ g.written <= Len(g.unflushed)
    /\ ~g.dirty => IF g.writing = None THEN g.unflushed = << >>
                   ELSE g.written = Len(g.unflushed)
    /\ stage = "running" => /\ g.dirty => g.writing # None \/ g.timers # {}
                            /\ "retry" \in g.timers => g.timers = {"retry"}

\* What the last drain left: nothing to write, or a write that failed.
DrainedRight ==
    stage \in {"flushing", "stopped"} =>
        /\ adopting.at = "no"
        /\ gov # None => /\ gov.failing \/ ~gov.dirty
                         /\ gov.writing # None => ~gov.dirty
                         /\ stage = "stopped" => gov.writing = None /\ gov.timers = {}

\* No order expects an echo, and none has seen a seq the reflector has not given.
Fresh(o, top) == \A k \in Key : o.pending[k] = 0 /\ o.seen[k] <= top

\* The content d is the content c but for the keys of some changes.
Within(d, c, changes) ==
    \A k \in Key : (\A i \in DOMAIN changes : changes[i].key # k) => d[k] = c[k]

\* The last change of each key is what the content shows.
LastShown(changes, c) ==
    \A i \in DOMAIN changes :
        (\A j \in DOMAIN changes : i < j => changes[j].key # changes[i].key)
            => c[changes[i].key] = changes[i].val

\* What will be unflushed when the write in flight has landed.
Rest(g) == SubSeq(g.unflushed, g.written + 1, Len(g.unflushed))

\* Governed since the boot: nothing was adopted since, and no save waits for an adoption.
SinceBoot == Governs /\ Baseline

GovernedRight ==
    SinceBoot => gov # None /\ adopting.at = "no" /\ saving.at # "wait"

\* A client's verdicts and the authority's are the same.
VerdictRight ==
    SinceBoot /\ TooLarge = {} => order = bus.order /\ gov.content = bus.canvas

\* All that the file d lacks of the project is unflushed; so will be what it lacks when the
\* write in flight, or the save v, has landed.
Covered(g, d, v) ==
    /\ LastShown(g.unflushed, g.content)
    /\ Within(d, g.content, g.unflushed)
    /\ g.writing # None => Within(g.writing, g.content, Rest(g))
    /\ v.at = "write" => Within(v.what, g.content, g.unflushed)

\* With nobody else at the file, all that is not unflushed is on disk, and will be.
NoEditRight ==
    boot # None /\ count.edits = 0 =>
        /\ disk = known /\ disk # None /\ watch.saw = None
        /\ SinceBoot => Covered(gov, disk, saving)

\* With edits of the file: when nothing is owed, the file as known is the content, and the
\* watcher is on its way to whatever else the file says.
EditRight ==
    SinceBoot /\ ~crossed =>
        /\ Clean => /\ known = gov.content
                    /\ saving.at = "write" => saving.what = gov.content
        /\ gov.writing # None /\ ~gov.dirty => gov.writing = gov.content
        /\ disk \notin {known, None} => watch.stirred \/ watch.saw # None

CountRight == count \in [ops : Nat, edits : Nat, shares : Nat, saves : Nat]

AuthorityInv ==
    /\ TypeOK /\ CountRight
    /\ gov # None => GovRight(gov)
    /\ DrainedRight /\ Fresh(bus.order, bus.seq)
    /\ saving.at # "no" => saving.what # None
    /\ GovernedRight /\ VerdictRight /\ NoEditRight /\ EditRight
-------------------------------------------------------------------------------
(* Changes one after another: each recursion has a solution, which stays in any set that
   its step does not leave.                                                    *)

\* Replaying passes through the contents that its first changes make.
LEMMA ReplayWay ==
    ASSUME NEW X, NEW d \in X, NEW q \in Seq(Change),
           \A t \in X : \A c \in Change : Put(t, c) \in X
    PROVE  \E f \in [0 .. Len(q) -> X] :
               /\ f[0] = d
               /\ \A i \in 1 .. Len(q) : f[i] = Put(f[i - 1], q[i])
               /\ Replay(q, d) = f[Len(q)]
<1> DEFINE n == Len(q)
           go(t, i) == Put(t, q[i])
           g == [i \in 1 .. n |-> [t \in X |-> go(t, i)]]
           along(f) == [i \in 0 .. n |-> IF i = 0 THEN d ELSE go(f[i - 1], i)]
           F == CHOOSE f : f = along(f)
<1>1. n \in Nat /\ \A i \in 1 .. n : \A t \in X : go(t, i) \in X
  BY LenProperties, ElementOfSeq
<1>2. Replay(q, d) = F[n]
  BY DEF Replay
<1> HIDE DEF n, go
<1>3. g \in Steps(n, X)
  BY <1>1 DEF Steps
<1>4. PICK f : IsWay(f, n, X, d, g)
  <2> HIDE DEF g
  <2> QED
    BY <1>1, <1>3, Iterates
<1>5. f \in [0 .. n -> X] /\ f[0] = d /\ \A i \in 1 .. n : f[i] = g[i][f[i - 1]]
  BY <1>4 DEF IsWay
<1>6. ASSUME NEW i \in 1 .. n PROVE f[i - 1] \in X /\ f[i] = go(f[i - 1], i)
  <2>1. i - 1 \in 0 .. n /\ f[i] = g[i][f[i - 1]]
    BY <1>1, <1>5
  <2>2. f[i - 1] \in X
    BY <1>5, <2>1
  <2>3. g[i] = [t \in X |-> go(t, i)]
    OBVIOUS
  <2> HIDE DEF g
  <2> QED
    BY <2>1, <2>2, <2>3
<1>7. f = along(f)
  <2>1. \A i \in 0 .. n : f[i] = along(f)[i]
    BY <1>1, <1>5, <1>6
  <2> QED
    BY <2>1, <1>5
<1>8. F = along(F)
  <2> HIDE DEF along
  <2> QED
    BY <1>7
<1> HIDE DEF F
<1>9. F[0] = d /\ \A i \in 1 .. n : F[i] = go(F[i - 1], i)
  <2>1. \A i \in 0 .. n : F[i] = along(F)[i]
    BY <1>8
  <2>2. \A i \in 0 .. n : F[i] = IF i = 0 THEN d ELSE go(F[i - 1], i)
    BY <2>1
  <2> QED
    BY <2>2, <1>1
<1>10. F \in [0 .. n -> X]
  <2> DEFINE G == {i \in 0 .. n : F[i] \in X}
  <2>1. 0 \in G
    BY <1>1, <1>9
  <2>2. ASSUME NEW i \in 1 .. n, i - 1 \in G PROVE i \in G
    BY <1>1, <1>9, <2>2
  <2>3. G = 0 .. n
    <3>1. G \in SUBSET (0 .. n)
      OBVIOUS
    <3> HIDE DEF G
    <3> QED
      BY <1>1, <2>1, <2>2, <3>1, Along
  <2>4. \A i \in 0 .. n : F[i] \in X
    BY <2>3
  <2> QED
    BY <2>4, <1>8
<1> QED
  BY <1>2, <1>9, <1>10 DEF n, go

\* So does applying changes to a governed project.
LEMMA ApplyAllWay ==
    ASSUME NEW X, NEW g0 \in X, NEW q \in Seq(Change),
           \A t \in X : \A c \in Change : ApplyTo(t, c) \in X
    PROVE  \E f \in [0 .. Len(q) -> X] :
               /\ f[0] = g0
               /\ \A i \in 1 .. Len(q) : f[i] = ApplyTo(f[i - 1], q[i])
               /\ ApplyAll(g0, q) = f[Len(q)]
<1> DEFINE n == Len(q)
           go(t, i) == ApplyTo(t, q[i])
           g == [i \in 1 .. n |-> [t \in X |-> go(t, i)]]
           along(f) == [i \in 0 .. n |-> IF i = 0 THEN g0 ELSE go(f[i - 1], i)]
           F == CHOOSE f : f = along(f)
<1>1. n \in Nat /\ \A i \in 1 .. n : \A t \in X : go(t, i) \in X
  BY LenProperties, ElementOfSeq
<1>2. ApplyAll(g0, q) = F[n]
  BY DEF ApplyAll
<1> HIDE DEF n, go
<1>3. g \in Steps(n, X)
  BY <1>1 DEF Steps
<1>4. PICK f : IsWay(f, n, X, g0, g)
  <2> HIDE DEF g
  <2> QED
    BY <1>1, <1>3, Iterates
<1>5. f \in [0 .. n -> X] /\ f[0] = g0 /\ \A i \in 1 .. n : f[i] = g[i][f[i - 1]]
  BY <1>4 DEF IsWay
<1>6. ASSUME NEW i \in 1 .. n PROVE f[i - 1] \in X /\ f[i] = go(f[i - 1], i)
  <2>1. i - 1 \in 0 .. n /\ f[i] = g[i][f[i - 1]]
    BY <1>1, <1>5
  <2>2. f[i - 1] \in X
    BY <1>5, <2>1
  <2>3. g[i] = [t \in X |-> go(t, i)]
    OBVIOUS
  <2> HIDE DEF g
  <2> QED
    BY <2>1, <2>2, <2>3
<1>7. f = along(f)
  <2>1. \A i \in 0 .. n : f[i] = along(f)[i]
    BY <1>1, <1>5, <1>6
  <2> QED
    BY <2>1, <1>5
<1>8. F = along(F)
  <2> HIDE DEF along
  <2> QED
    BY <1>7
<1> HIDE DEF F
<1>9. F[0] = g0 /\ \A i \in 1 .. n : F[i] = go(F[i - 1], i)
  <2>1. \A i \in 0 .. n : F[i] = along(F)[i]
    BY <1>8
  <2>2. \A i \in 0 .. n : F[i] = IF i = 0 THEN g0 ELSE go(F[i - 1], i)
    BY <2>1
  <2> QED
    BY <2>2, <1>1
<1>10. F \in [0 .. n -> X]
  <2> DEFINE G == {i \in 0 .. n : F[i] \in X}
  <2>1. 0 \in G
    BY <1>1, <1>9
  <2>2. ASSUME NEW i \in 1 .. n, i - 1 \in G PROVE i \in G
    BY <1>1, <1>9, <2>2
  <2>3. G = 0 .. n
    <3>1. G \in SUBSET (0 .. n)
      OBVIOUS
    <3> HIDE DEF G
    <3> QED
      BY <1>1, <2>1, <2>2, <3>1, Along
  <2>4. \A i \in 0 .. n : F[i] \in X
    BY <2>3
  <2> QED
    BY <2>4, <1>8
<1> QED
  BY <1>2, <1>9, <1>10 DEF n, go

\* So does reflecting the ops of an edit.
ReflectsInto(X, q) == \A i \in 1 .. Len(q) : \A t \in X : Reflect(t, q[i], Unstamped) \in X

LEMMA ReflectAllWay ==
    ASSUME NEW X, NEW s \in X, NEW q \in Seq(Change),
           ReflectsInto(X, q)
    PROVE  \E f \in [0 .. Len(q) -> X] :
               /\ f[0] = s
               /\ \A i \in 1 .. Len(q) : f[i] = Reflect(f[i - 1], q[i], Unstamped)
               /\ ReflectAll(s, q) = f[Len(q)]
<1> DEFINE n == Len(q)
           go(t, i) == Reflect(t, q[i], Unstamped)
           g == [i \in 1 .. n |-> [t \in X |-> go(t, i)]]
           along(f) == [i \in 0 .. n |-> IF i = 0 THEN s ELSE go(f[i - 1], i)]
           F == CHOOSE f : f = along(f)
<1>1. n \in Nat /\ \A i \in 1 .. n : \A t \in X : go(t, i) \in X
  BY LenProperties DEF ReflectsInto
<1>2. ReflectAll(s, q) = F[n]
  BY DEF ReflectAll
<1> HIDE DEF n, go
<1>3. g \in Steps(n, X)
  BY <1>1 DEF Steps
<1>4. PICK f : IsWay(f, n, X, s, g)
  <2> HIDE DEF g
  <2> QED
    BY <1>1, <1>3, Iterates
<1>5. f \in [0 .. n -> X] /\ f[0] = s /\ \A i \in 1 .. n : f[i] = g[i][f[i - 1]]
  BY <1>4 DEF IsWay
<1>6. ASSUME NEW i \in 1 .. n PROVE f[i - 1] \in X /\ f[i] = go(f[i - 1], i)
  <2>1. i - 1 \in 0 .. n /\ f[i] = g[i][f[i - 1]]
    BY <1>1, <1>5
  <2>2. f[i - 1] \in X
    BY <1>5, <2>1
  <2>3. g[i] = [t \in X |-> go(t, i)]
    OBVIOUS
  <2> HIDE DEF g
  <2> QED
    BY <2>1, <2>2, <2>3
<1>7. f = along(f)
  <2>1. \A i \in 0 .. n : f[i] = along(f)[i]
    BY <1>1, <1>5, <1>6
  <2> QED
    BY <2>1, <1>5
<1>8. F = along(F)
  <2> HIDE DEF along
  <2> QED
    BY <1>7
<1> HIDE DEF F
<1>9. F[0] = s /\ \A i \in 1 .. n : F[i] = go(F[i - 1], i)
  <2>1. \A i \in 0 .. n : F[i] = along(F)[i]
    BY <1>8
  <2>2. \A i \in 0 .. n : F[i] = IF i = 0 THEN s ELSE go(F[i - 1], i)
    BY <2>1
  <2> QED
    BY <2>2, <1>1
<1>10. F \in [0 .. n -> X]
  <2> DEFINE G == {i \in 0 .. n : F[i] \in X}
  <2>1. 0 \in G
    BY <1>1, <1>9
  <2>2. ASSUME NEW i \in 1 .. n, i - 1 \in G PROVE i \in G
    BY <1>1, <1>9, <2>2
  <2>3. G = 0 .. n
    <3>1. G \in SUBSET (0 .. n)
      OBVIOUS
    <3> HIDE DEF G
    <3> QED
      BY <1>1, <2>1, <2>2, <3>1, Along
  <2>4. \A i \in 0 .. n : F[i] \in X
    BY <2>3
  <2> QED
    BY <2>4, <1>8
<1> QED
  BY <1>2, <1>9, <1>10 DEF n, go

-------------------------------------------------------------------------------
(* Contents and changes.                                                       *)

LEMMA ChangeIs ==
    ASSUME NEW c \in Change
    PROVE  c.key \in Key /\ c.val \in Val \cup {Absent}
  BY DEF Change

LEMMA PutIs ==
    ASSUME NEW d \in Content, NEW c \in Change
    PROVE  /\ Put(d, c) \in Content /\ Put(d, c)[c.key] = c.val
           /\ \A k \in Key : k # c.key => Put(d, c)[k] = d[k]
  BY DEF Put, Content, Change

\* A non-empty set of indices has a greatest one.
LEMMA GreatestIndex ==
    ASSUME NEW n \in Nat, NEW S \in SUBSET (1 .. n), S # {}
    PROVE  \E i \in S : \A j \in S : j <= i
<1> DEFINE T == {n + 1 - i : i \in S}
<1>1. T \in SUBSET (1 .. n) /\ T # {}
  <2>1. \A i \in S : n + 1 - i \in 1 .. n
    OBVIOUS
  <2> QED
    BY <2>1
<1>2. PICK m \in T : \A j \in T : m <= j
  <2> HIDE DEF T
  <2> QED
    BY <1>1, LeastIndex
<1>3. PICK i \in S : m = n + 1 - i
  OBVIOUS
<1>4. \A j \in S : n + 1 - j \in T
  OBVIOUS
<1> HIDE DEF T
<1>5. \A j \in S : j <= i
  BY <1>2, <1>3, <1>4
<1> QED
  BY <1>5

\* What replaying changes over a content shows: of a key they name, the last value; of any
\* other, what was there.
LEMMA ReplayIs ==
    ASSUME NEW q \in Seq(Change), NEW d \in Content
    PROVE  /\ Replay(q, d) \in Content
           /\ Within(d, Replay(q, d), q)
           /\ LastShown(q, Replay(q, d))
<1>1. PICK f \in [0 .. Len(q) -> Content] :
          /\ f[0] = d
          /\ \A i \in 1 .. Len(q) : f[i] = Put(f[i - 1], q[i])
          /\ Replay(q, d) = f[Len(q)]
  <2>1. \A t \in Content : \A c \in Change : Put(t, c) \in Content
    BY PutIs
  <2> QED
    BY <2>1, ReplayWay
<1>2. Len(q) \in Nat /\ DOMAIN q = 1 .. Len(q) /\ \A i \in 1 .. Len(q) : q[i] \in Change
  BY LenProperties, ElementOfSeq
<1> DEFINE named(k, i) == \E j \in 1 .. i : q[j].key = k
           shown(c, k, i) == /\ ~named(k, i) => c[k] = d[k]
                             /\ \A j \in 1 .. i :
                                    q[j].key = k /\ (\A l \in 1 .. i : j < l => q[l].key # k)
                                        => c[k] = q[j].val
           G == {i \in 0 .. Len(q) : \A k \in Key : shown(f[i], k, i)}
<1>3. 0 \in G
  BY <1>1, <1>2
<1>4. ASSUME NEW i \in 1 .. Len(q), i - 1 \in G PROVE i \in G
  <2>1. /\ f[i - 1] \in Content /\ q[i] \in Change /\ f[i] = Put(f[i - 1], q[i])
        /\ \A k \in Key : shown(f[i - 1], k, i - 1)
    BY <1>1, <1>2, <1>4
  <2>2. ASSUME NEW k \in Key PROVE shown(f[i], k, i)
    <3>1. CASE q[i].key = k
      <4>1. f[i][k] = q[i].val /\ named(k, i)
        <5>1. Put(f[i - 1], q[i])[q[i].key] = q[i].val
          BY <2>1, PutIs
        <5> QED
          BY <1>2, <2>1, <3>1, <5>1
      <4>2. \A j \in 1 .. i : (\A l \in 1 .. i : j < l => q[l].key # k) => j = i
        BY <1>2, <3>1
      <4> QED
        BY <4>1, <4>2
    <3>2. CASE q[i].key # k
      <4>1. f[i][k] = f[i - 1][k]
        <5>1. \A j \in Key : j # q[i].key => Put(f[i - 1], q[i])[j] = f[i - 1][j]
          BY <2>1, PutIs
        <5> QED
          BY <2>1, <3>2, <5>1
      <4>2. \A j \in 1 .. i : q[j].key = k => j \in 1 .. i - 1
        BY <1>2, <3>2
      <4>3. 1 .. i - 1 \subseteq 1 .. i
        BY <1>2
      <4> QED
        BY <2>1, <4>1, <4>2, <4>3
    <3> QED
      BY <3>1, <3>2
  <2> HIDE DEF shown
  <2> QED
    BY <2>2
<1>5. Len(q) \in G
  <2>1. G \in SUBSET (0 .. Len(q))
    OBVIOUS
  <2> HIDE DEF G
  <2> QED
    BY <1>2, <1>3, <1>4, <2>1, Along
<1>6. f[Len(q)] \in Content
  BY <1>1, <1>2
<1>7. Within(d, f[Len(q)], q)
  BY <1>2, <1>5 DEF Within
<1>8. LastShown(q, f[Len(q)])
  <2>1. \A i \in 1 .. Len(q) : q[i].key \in Key
    BY <1>2, ChangeIs
  <2> QED
    BY <1>2, <1>5, <2>1 DEF LastShown
<1> QED
  BY <1>1, <1>6, <1>7, <1>8

\* ... and nothing else shows that.
LEMMA ReplayMakes ==
    ASSUME NEW q \in Seq(Change), NEW d \in Content, NEW c \in Content,
           Within(d, c, q), LastShown(q, c)
    PROVE  Replay(q, d) = c
<1>1. Len(q) \in Nat /\ DOMAIN q = 1 .. Len(q) /\ \A i \in 1 .. Len(q) : q[i] \in Change
  BY LenProperties, ElementOfSeq
<1>2. PICK r : r = Replay(q, d)
  OBVIOUS
<1>3. r \in Content /\ Within(d, r, q) /\ LastShown(q, r)
  BY <1>2, ReplayIs
<1>4. ASSUME NEW k \in Key PROVE r[k] = c[k]
  <2> DEFINE at == {i \in DOMAIN q : q[i].key = k}
  <2>1. CASE at = {}
    <3>1. \A i \in DOMAIN q : q[i].key # k
      BY <2>1
    <3> QED
      BY <1>3, <3>1 DEF Within
  <2>2. CASE at # {}
    <3>1. PICK i \in at : \A j \in at : j <= i
      <4>1. at \in SUBSET (1 .. Len(q))
        BY <1>1
      <4> HIDE DEF at
      <4> QED
        BY <1>1, <2>2, <4>1, GreatestIndex
    <3>2. i \in DOMAIN q /\ q[i].key = k
      OBVIOUS
    <3>3. \A j \in DOMAIN q : i < j => q[j].key # q[i].key
      BY <1>1, <3>1, <3>2
    <3> QED
      BY <1>3, <3>2, <3>3 DEF LastShown
  <2> QED
    BY <2>1, <2>2
<1> QED
  BY <1>2, <1>3, <1>4 DEF Content

\* The changes that turn one content into another name every key that differs, and each
\* says what the other content says.
LEMMA DiffIs ==
    ASSUME NEW before \in Content, NEW after \in Content
    PROVE  /\ Diff(before, after) \in Seq(Change)
           /\ \A i \in DOMAIN Diff(before, after) :
                  Diff(before, after)[i].val = after[Diff(before, after)[i].key]
           /\ \A k \in Key : before[k] # after[k] =>
                  \E i \in DOMAIN Diff(before, after) : Diff(before, after)[i].key = k
<1> DEFINE keys == {k \in Key : before[k] # after[k]}
           gone == {k \in keys : after[k] = Absent}
           list == SetToSeq(keys \ gone) \o SetToSeq(gone)
           a    == Cardinality(keys \ gone)
           b    == Cardinality(gone)
           diff == [i \in 1 .. Cardinality(keys) |-> [key |-> list[i], val |-> after[list[i]]]]
<1>1. IsFiniteSet(keys) /\ IsFiniteSet(gone) /\ IsFiniteSet(keys \ gone)
  BY KeyAssumption, FS_Subset
<1>2. Cardinality(keys) = a + b /\ a \in Nat /\ b \in Nat
  <2>1. keys = (keys \ gone) \cup gone /\ (keys \ gone) \cap gone = {}
    OBVIOUS
  <2>2. Cardinality(keys) = a + b - Cardinality((keys \ gone) \cap gone)
    BY <1>1, <2>1, FS_Union
  <2>3. Cardinality((keys \ gone) \cap gone) = 0
    BY <2>1, FS_EmptySet
  <2> QED
    BY <1>1, <2>2, <2>3, FS_CardinalityType
<1>3. list \in Seq(Key) /\ Len(list) = a + b /\ ToSet(list) = keys
  <2> DEFINE u == SetToSeq(keys \ gone)
             v == SetToSeq(gone)
  <2>1. u \in Seq(Key) /\ Len(u) = a /\ ToSet(u) = keys \ gone
    BY <1>1, ListOfSet
  <2>2. v \in Seq(Key) /\ Len(v) = b /\ ToSet(v) = gone
    BY <1>1, ListOfSet
  <2>3. (keys \ gone) \cup gone = keys
    OBVIOUS
  <2> HIDE DEF u, v, a, b, keys, gone
  <2>4. u \o v \in Seq(Key) /\ Len(u \o v) = a + b /\ ToSet(u \o v) = keys
    <3>1. u \in Seq(Key) /\ v \in Seq(Key)
      BY <2>1, <2>2
    <3>2. /\ u \o v \in Seq(Key) /\ Len(u \o v) = Len(u) + Len(v)
          /\ ToSet(u \o v) = ToSet(u) \cup ToSet(v)
      BY ONLY <3>1, BothLists
    <3> QED
      BY <2>1, <2>2, <2>3, <3>2
  <2> QED
    BY <2>4 DEF u, v
<1>4. Diff(before, after) = diff
  BY DEF Diff
<1> HIDE DEF list, a, b
<1>5. DOMAIN list = 1 .. a + b /\ \A i \in 1 .. a + b : list[i] \in Key
  BY <1>3, LenProperties, ElementOfSeq
<1>6. \A i \in 1 .. a + b : after[list[i]] \in Val \cup {Absent}
  BY <1>5 DEF Content
<1>7. /\ diff \in [1 .. a + b -> Change] /\ DOMAIN diff = 1 .. a + b
      /\ \A i \in 1 .. a + b : diff[i].key = list[i] /\ diff[i].val = after[list[i]]
  BY <1>2, <1>5, <1>6 DEF Change
<1> HIDE DEF diff
<1>8. diff \in Seq(Change)
  BY <1>2, <1>7, IsASeq
<1>9. ASSUME NEW k \in Key, before[k] # after[k] PROVE \E i \in DOMAIN diff : diff[i].key = k
  <2>1. k \in ToSet(list)
    BY <1>3, <1>9
  <2>2. PICK i \in DOMAIN list : list[i] = k
    BY <2>1 DEF ToSet
  <2> QED
    BY <1>5, <1>7, <2>2
<1> QED
  BY <1>4, <1>7, <1>8, <1>9

LEMMA OversizedIs ==
    ASSUME NEW copy \in Content
    PROVE  /\ Oversized(copy) \in Seq(Change)
           /\ TooLarge = {} => Oversized(copy) = << >>
<1> DEFINE S == {k \in Key : copy[k] \in TooLarge}
           keys == SetToSeq(S)
<1>1. IsFiniteSet(S)
  BY KeyAssumption, FS_Subset
<1>2. /\ DOMAIN keys = 1 .. Cardinality(S) /\ Cardinality(S) \in Nat
      /\ \A i \in 1 .. Cardinality(S) : keys[i] \in Key
  <2>1. keys \in Seq(Key) /\ Len(keys) = Cardinality(S) /\ Cardinality(S) \in Nat
    BY <1>1, ListOfSet
  <2> HIDE DEF keys
  <2> QED
    BY <2>1, LenProperties, ElementOfSeq
<1>3. Oversized(copy) = [i \in DOMAIN keys |-> [key |-> keys[i], val |-> copy[keys[i]]]]
  BY DEF Oversized
<1>4. TooLarge = {} => Cardinality(S) = 0
  BY FS_EmptySet
<1> HIDE DEF keys
<1>5. Oversized(copy) \in [1 .. Cardinality(S) -> Change]
  BY <1>2, <1>3 DEF Content, Change
<1> HIDE DEF S
<1>6. Oversized(copy) \in Seq(Change)
  BY <1>2, <1>5, IsASeq
<1>7. TooLarge = {} => Oversized(copy) = << >>
  <2>1. Len(Oversized(copy)) = Cardinality(S)
    BY <1>2, <1>5, <1>6, LenProperties
  <2> QED
    BY <1>4, <1>6, <2>1, EmptySeq
<1> QED
  BY <1>6, <1>7

-------------------------------------------------------------------------------
(* One governed project.                                                       *)

\* How a project moves while ops are applied to it: what is in flight stays, whatever
\* moves is owed, and what the disk has but for the unflushed, it has still.
Evolves(g, h) ==
    /\ h.writing = g.writing /\ h.written = g.written /\ h.failing = g.failing
    /\ h = g \/ h.dirty
    /\ LastShown(g.unflushed, g.content) => LastShown(h.unflushed, h.content)
    /\ \A d \in Content : Within(d, g.content, g.unflushed) => Within(d, h.content, h.unflushed)
    /\ \A d \in Content : Within(d, g.content, Rest(g)) => Within(d, h.content, Rest(h))

LEMMA GovernedIs ==
    ASSUME NEW g \in Governed
    PROVE  /\ g # None /\ g.content \in Content /\ g.unflushed \in Seq(Change)
           /\ g.dirty \in BOOLEAN /\ g.failing \in BOOLEAN /\ g.timers \in SUBSET Timers
           /\ g.writing \in Content \cup {None} /\ g.written \in Nat
           /\ Len(g.unflushed) \in Nat /\ DOMAIN g.unflushed = 1 .. Len(g.unflushed)
           /\ None \notin Content
  BY AuthorityAssumption, LenProperties DEF Governed

LEMMA ScheduleIs ==
    ASSUME NEW T \in SUBSET Timers, "retry" \in T => T = {"retry"}
    PROVE  /\ Schedule(T) \in SUBSET Timers
           /\ "retry" \in Schedule(T) => Schedule(T) = {"retry"}
           /\ stage = "running" => Schedule(T) # {}
  BY DEF Schedule, Timers

\* The same, of timers nothing is known of.
LEMMA ScheduleType ==
    ASSUME NEW T \in SUBSET Timers
    PROVE  /\ Schedule(T) \in SUBSET Timers
           /\ stage # "running" => Schedule(T) = T
  BY DEF Schedule, Timers

LEMMA MarkDirtyIs ==
    ASSUME NEW g \in Governed, GovRight(g)
    PROVE  LET h == MarkDirty(g)
           IN  /\ h \in Governed /\ GovRight(h) /\ h.dirty
               /\ h.content = g.content /\ h.unflushed = g.unflushed
               /\ h.writing = g.writing /\ h.written = g.written /\ h.failing = g.failing
<1> DEFINE T == Schedule(g.timers)
           h == [g EXCEPT !.dirty = TRUE, !.timers = T]
<1>1. g.timers \in SUBSET Timers
  BY GovernedIs
<1>2. /\ T \in SUBSET Timers
      /\ stage = "running" => ("retry" \in T => T = {"retry"}) /\ T # {}
  <2>1. CASE stage = "running"
    <3>1. "retry" \in g.timers => g.timers = {"retry"}
      BY <2>1 DEF GovRight
    <3> QED
      BY <1>1, <3>1, ScheduleIs
  <2>2. CASE stage # "running"
    BY <1>1, <2>2, ScheduleType
  <2> QED
    BY <2>1, <2>2
<1>3. MarkDirty(g) = h
  BY DEF MarkDirty, Governed
<1> HIDE DEF T
<1>4. /\ h \in Governed /\ h.dirty /\ h.timers = T
      /\ h.content = g.content /\ h.unflushed = g.unflushed
      /\ h.writing = g.writing /\ h.written = g.written /\ h.failing = g.failing
  BY <1>2 DEF Governed
<1> HIDE DEF h
<1>5. GovRight(h)
  BY <1>2, <1>4 DEF GovRight
<1> QED
  BY <1>3, <1>4, <1>5

LEMMA EvolvesOn ==
    ASSUME NEW g \in Governed, NEW h \in Governed, NEW e \in Governed,
           Evolves(g, h), Evolves(h, e)
    PROVE  Evolves(g, e)
  BY DEF Evolves

\* What is covered stays covered while the project evolves.
LEMMA EvolvesCovered ==
    ASSUME NEW g \in Governed, NEW h \in Governed, Evolves(g, h), NEW d \in Content, NEW v,
           v.at = "write" => v.what \in Content, Covered(g, d, v)
    PROVE  Covered(h, d, v)
<1>1. LastShown(h.unflushed, h.content) /\ Within(d, h.content, h.unflushed)
  BY DEF Covered, Evolves
<1>2. h.writing # None => Within(h.writing, h.content, Rest(h))
  BY GovernedIs DEF Covered, Evolves
<1>3. v.at = "write" => Within(v.what, h.content, h.unflushed)
  BY DEF Covered, Evolves
<1> QED
  BY <1>1, <1>2, <1>3 DEF Covered

LEMMA EvolvesNot ==
    ASSUME NEW g \in Governed
    PROVE  Evolves(g, g)
  BY DEF Evolves

\* A project with one more change unflushed has it left when the write in flight has landed,
\* behind whatever was left before.
LEMMA RestGrows ==
    ASSUME NEW g \in Governed, g.written <= Len(g.unflushed), NEW c \in Change,
           NEW h \in Governed, h.written = g.written, h.unflushed = Append(g.unflushed, c)
    PROVE  \A k \in Key : (\A i \in DOMAIN Rest(h) : Rest(h)[i].key # k) =>
               k # c.key /\ \A i \in DOMAIN Rest(g) : Rest(g)[i].key # k
<1>1. PICK q, u, w, r, t : /\ q = g.unflushed /\ u = h.unflushed /\ w = g.written
                           /\ r = Rest(g) /\ t = Rest(h)
  OBVIOUS
<1>2. /\ q \in Seq(Change) /\ u \in Seq(Change) /\ w \in Nat /\ w <= Len(q)
      /\ Len(q) \in Nat /\ u = Append(q, c)
  BY <1>1, GovernedIs
<1>3. Len(u) = Len(q) + 1 /\ u[Len(q) + 1] = c /\ \A i \in 1 .. Len(q) : u[i] = q[i]
  BY <1>2, AppendProperties
<1>4. DOMAIN r = 1 .. Len(q) - w /\ \A i \in 1 .. Len(q) - w : r[i] = q[w + i]
  <2>1. w \in 0 .. Len(q)
    BY <1>2
  <2> QED
    BY <1>1, <1>2, <2>1, RestList DEF Rest
<1>5. DOMAIN t = 1 .. Len(u) - w /\ \A i \in 1 .. Len(u) - w : t[i] = u[w + i]
  <2>1. w \in 0 .. Len(u)
    BY <1>2, <1>3
  <2>2. t = SubSeq(u, w + 1, Len(u))
    BY <1>1 DEF Rest
  <2>3. /\ DOMAIN SubSeq(u, w + 1, Len(u)) = 1 .. Len(u) - w
        /\ \A i \in 1 .. Len(u) - w : SubSeq(u, w + 1, Len(u))[i] = u[w + i]
    BY ONLY <1>2, <2>1, RestList
  <2> QED
    BY ONLY <2>2, <2>3
<1>6. Len(u) - w \in DOMAIN t /\ t[Len(u) - w] = c
  BY <1>2, <1>3, <1>5
<1>7. \A i \in DOMAIN r : i \in DOMAIN t /\ t[i] = r[i]
  <2>1. \A i \in 1 .. Len(q) - w : w + i \in 1 .. Len(q) /\ i \in 1 .. Len(u) - w
    BY <1>2, <1>3
  <2> QED
    BY <1>3, <1>4, <1>5, <2>1
<1> QED
  BY <1>1, <1>6, <1>7

\* A change applied is shown and owed, and the content is what a client shows.
LEMMA ApplyToIs ==
    ASSUME NEW g \in Governed, GovRight(g), NEW c \in Change
    PROVE  LET h == ApplyTo(g, c)
           IN  /\ h \in Governed /\ GovRight(h) /\ Evolves(g, h)
               /\ h.content = Put(g.content, c)
               /\ g.content[c.key] = c.val => h = g
<1>1. CASE g.content[c.key] = c.val
  <2>1. ApplyTo(g, c) = g
    BY <1>1 DEF ApplyTo
  <2>2. Put(g.content, c) = g.content
    BY <1>1, GovernedIs DEF Put, Content
  <2> QED
    BY <2>1, <2>2, EvolvesNot
<1>2. CASE g.content[c.key] # c.val
  <2> DEFINE p == Put(g.content, c)
             u == Append(g.unflushed, c)
             e == [g EXCEPT !.content = p, !.unflushed = u]
             T == Schedule(g.timers)
             h == [g EXCEPT !.content = p, !.unflushed = u, !.dirty = TRUE, !.timers = T]
  <2>1. /\ g.content \in Content /\ g.unflushed \in Seq(Change) /\ Len(g.unflushed) \in Nat
        /\ g.written \in Nat /\ g.timers \in SUBSET Timers
        /\ DOMAIN g.unflushed = 1 .. Len(g.unflushed)
    BY GovernedIs
  <2>2. /\ p \in Content /\ p[c.key] = c.val
        /\ \A k \in Key : k # c.key => p[k] = g.content[k]
    BY <2>1, PutIs
  <2>3. /\ u \in Seq(Change) /\ Len(u) = Len(g.unflushed) + 1
        /\ DOMAIN u = 1 .. Len(g.unflushed) + 1
        /\ u[Len(g.unflushed) + 1] = c
        /\ \A i \in 1 .. Len(g.unflushed) : u[i] = g.unflushed[i]
    BY <2>1, AppendProperties
  <2>4. /\ T \in SUBSET Timers
        /\ stage = "running" => ("retry" \in T => T = {"retry"}) /\ T # {}
    <3>1. CASE stage = "running"
      <4>1. "retry" \in g.timers => g.timers = {"retry"}
        BY <3>1 DEF GovRight
      <4> QED
        BY <2>1, <4>1, ScheduleIs
    <3>2. CASE stage # "running"
      BY <2>1, <3>2, ScheduleType
    <3> QED
      BY <3>1, <3>2
  <2>5. ApplyTo(g, c) = h
    BY <1>2 DEF ApplyTo, MarkDirty, Governed
  <2> HIDE DEF p, u, T
  <2>6. /\ h \in Governed /\ h.content = p /\ h.unflushed = u /\ h.dirty /\ h.timers = T
        /\ h.writing = g.writing /\ h.written = g.written /\ h.failing = g.failing
    BY <2>2, <2>3, <2>4 DEF Governed
  <2> HIDE DEF h
  <2>7. g.written <= Len(g.unflushed)
    BY DEF GovRight
  <2>8. GovRight(h)
    BY <2>1, <2>3, <2>4, <2>6, <2>7 DEF GovRight
  <2>9. \A k \in Key : (\A i \in DOMAIN u : u[i].key # k) =>
            k # c.key /\ (\A i \in DOMAIN g.unflushed : g.unflushed[i].key # k)
    BY <2>1, <2>3
  <2>10. \A d \in Content : Within(d, g.content, g.unflushed) => Within(d, p, u)
    BY <2>2, <2>9 DEF Within
  <2>11. ASSUME LastShown(g.unflushed, g.content) PROVE LastShown(u, p)
    <3>1. SUFFICES ASSUME NEW i \in DOMAIN u,
                          \A j \in DOMAIN u : i < j => u[j].key # u[i].key
                   PROVE  p[u[i].key] = u[i].val
      BY DEF LastShown
    <3>2. CASE i = Len(g.unflushed) + 1
      BY <2>2, <2>3, <3>2
    <3>3. CASE i \in 1 .. Len(g.unflushed)
      <4>1. u[i] = g.unflushed[i] /\ c.key # u[i].key
        BY <2>1, <2>3, <3>1, <3>3
      <4>2. \A j \in DOMAIN g.unflushed : i < j => g.unflushed[j].key # g.unflushed[i].key
        BY <2>1, <2>3, <3>1, <3>3, <4>1
      <4>3. u[i].key \in Key
        <5>1. g.unflushed[i] \in Change
          BY <2>1, <3>3, ElementOfSeq
        <5> QED
          BY <4>1, <5>1 DEF Change
      <4> QED
        BY <2>1, <2>2, <2>11, <3>3, <4>1, <4>2, <4>3 DEF LastShown
    <3> QED
      BY <2>1, <2>3, <3>2, <3>3
  <2>12. \A d \in Content : Within(d, g.content, Rest(g)) => Within(d, p, Rest(h))
    <3>1. h.unflushed = Append(g.unflushed, c)
      BY <2>6 DEF u
    <3>2. \A k \in Key : (\A i \in DOMAIN Rest(h) : Rest(h)[i].key # k) =>
              k # c.key /\ (\A i \in DOMAIN Rest(g) : Rest(g)[i].key # k)
      BY <2>6, <2>7, <3>1, RestGrows
    <3> QED
      BY <2>2, <3>2 DEF Within
  <2>13. Evolves(g, h)
    BY <2>6, <2>10, <2>11, <2>12 DEF Evolves
  <2> QED
    BY <1>2, <2>5, <2>6, <2>8, <2>13 DEF p
<1> QED
  BY <1>1, <1>2

LEMMA ApplyAllIs ==
    ASSUME NEW g \in Governed, GovRight(g), NEW q \in Seq(Change)
    PROVE  /\ ApplyAll(g, q) \in Governed /\ GovRight(ApplyAll(g, q))
           /\ Evolves(g, ApplyAll(g, q))
           /\ q = << >> => ApplyAll(g, q) = g
<1> DEFINE X == {h \in Governed : GovRight(h) /\ Evolves(g, h)}
<1>1. g \in X
  BY EvolvesNot
<1>2. ASSUME NEW h \in X, NEW c \in Change PROVE ApplyTo(h, c) \in X
  <2>1. h \in Governed /\ GovRight(h) /\ Evolves(g, h)
    OBVIOUS
  <2>2. ApplyTo(h, c) \in Governed /\ GovRight(ApplyTo(h, c)) /\ Evolves(h, ApplyTo(h, c))
    BY <2>1, ApplyToIs
  <2> QED
    BY <2>1, <2>2, EvolvesOn
<1> HIDE DEF X
<1>3. PICK f \in [0 .. Len(q) -> X] : f[0] = g /\ ApplyAll(g, q) = f[Len(q)]
  BY <1>1, <1>2, ApplyAllWay
<1>4. Len(q) \in Nat
  BY LenProperties
<1>5. ApplyAll(g, q) \in X
  BY <1>3, <1>4
<1>6. q = << >> => ApplyAll(g, q) = g
  BY <1>3, EmptySeq
<1> QED
  BY <1>5, <1>6 DEF X

\* release and flush: the project is let go, or stays as it is, or its content is written.
FlushStarts(g, h) ==
    /\ g.dirty /\ g.writing = None
    /\ h.writing = g.content /\ h.written = Len(g.unflushed) /\ ~h.dirty /\ h.timers = {}

LEMMA FlushIs ==
    ASSUME NEW g \in Governed, g.written <= Len(g.unflushed),
           ~g.dirty => IF g.writing = None THEN g.unflushed = << >>
                       ELSE g.written = Len(g.unflushed),
           stage = "running" => ("retry" \in g.timers => g.timers = {"retry"})
    PROVE  LET h == Flush(g)
           IN  \/ h = None /\ ~shared /\ ~g.dirty /\ g.writing = None
               \/ /\ h \in Governed /\ GovRight(h)
                  /\ h.content = g.content /\ h.unflushed = g.unflushed
                  /\ h.failing = g.failing
                  /\ (h = g /\ (~g.dirty \/ g.writing # None)) \/ FlushStarts(g, h)
<1>1. CASE g.writing # None \/ ~g.dirty
  <2>1. Flush(g) = g \/ (Flush(g) = None /\ ~shared /\ ~g.dirty /\ g.writing = None)
    BY <1>1 DEF Flush, Release
  <2>2. GovRight(g)
    BY <1>1 DEF GovRight
  <2> QED
    BY <1>1, <2>1, <2>2
<1>2. CASE g.writing = None /\ g.dirty
  <2> DEFINE n == Len(g.unflushed)
             h == [g EXCEPT !.timers = {}, !.writing = g.content, !.written = n,
                            !.dirty = FALSE]
  <2>1. Flush(g) = h
    BY <1>2 DEF Flush
  <2>2. n \in Nat /\ g.content \in Content
    BY GovernedIs
  <2> HIDE DEF n
  <2>3. /\ h \in Governed /\ h.content = g.content /\ h.unflushed = g.unflushed
        /\ h.failing = g.failing /\ h.writing = g.content /\ h.written = n /\ ~h.dirty
        /\ h.timers = {}
    BY <2>2 DEF Governed
  <2> HIDE DEF h
  <2>4. GovRight(h)
    BY <2>2, <2>3, GovernedIs DEF GovRight, n
  <2> QED
    BY <1>2, <2>1, <2>3, <2>4 DEF FlushStarts, n
<1> QED
  BY <1>1, <1>2

\* A landed write leaves unflushed what came since, and the project is let go if it was
\* unshared and owes nothing.
LEMMA LandedIs ==
    ASSUME NEW g \in Governed, GovRight(g), g.writing # None
    PROVE  LET h == Landed(g)
           IN  \/ h = None /\ ~shared /\ ~g.dirty
               \/ /\ h \in Governed /\ GovRight(h)
                  /\ h.content = g.content /\ h.unflushed = Rest(g) /\ h.dirty = g.dirty
                  /\ h.writing = None /\ ~h.failing
                  /\ stage # "running" => h.timers = g.timers
<1> DEFINE r == Rest(g)
           T == Schedule(g.timers)
           done == [g EXCEPT !.unflushed = r, !.writing = None, !.written = 0,
                             !.failing = FALSE]
           late == [g EXCEPT !.unflushed = r, !.writing = None, !.written = 0,
                             !.failing = FALSE, !.timers = T]
<1>1. /\ g.timers \in SUBSET Timers /\ g.written \in Nat /\ g.dirty \in BOOLEAN
      /\ g.unflushed \in Seq(Change) /\ Len(g.unflushed) \in Nat
      /\ g.written <= Len(g.unflushed)
  BY GovernedIs DEF GovRight
<1>2. r \in Seq(Change) /\ Len(r) \in Nat /\ (~g.dirty => r = << >>)
  <2>1. g.written \in 0 .. Len(g.unflushed)
    BY <1>1
  <2>2. r \in Seq(Change) /\ DOMAIN r = 1 .. Len(g.unflushed) - g.written
    BY <1>1, <2>1, RestList DEF Rest
  <2>3. ~g.dirty => Len(g.unflushed) - g.written = 0
    BY <1>1 DEF GovRight
  <2>4. Len(r) \in Nat /\ DOMAIN r = 1 .. Len(r)
    BY <2>2, LenProperties
  <2>5. ~g.dirty => Len(r) = 0
    BY <2>2, <2>3, <2>4
  <2> QED
    BY <2>2, <2>4, <2>5, EmptySeq
<1>3. /\ T \in SUBSET Timers
      /\ stage = "running" => ("retry" \in T => T = {"retry"}) /\ T # {}
      /\ stage # "running" => T = g.timers
  <2>1. CASE stage = "running"
    <3>1. "retry" \in g.timers => g.timers = {"retry"}
      BY <2>1 DEF GovRight
    <3> QED
      BY <1>1, <2>1, <3>1, ScheduleIs
  <2>2. CASE stage # "running"
    BY <1>1, <2>2, ScheduleType
  <2> QED
    BY <2>1, <2>2
<1>4. Landed(g) = IF g.dirty THEN late ELSE Release(done)
  BY DEF Landed, Rest, Governed
<1> HIDE DEF r, T
<1>5. /\ done \in Governed /\ done.content = g.content /\ done.unflushed = r
      /\ done.writing = None /\ done.written = 0 /\ ~done.failing /\ done.dirty = g.dirty
      /\ done.timers = g.timers
  BY <1>2 DEF Governed
<1>6. /\ late \in Governed /\ late.content = g.content /\ late.unflushed = r
      /\ late.writing = None /\ late.written = 0 /\ ~late.failing /\ late.dirty = g.dirty
      /\ late.timers = T
  BY <1>2, <1>3 DEF Governed
<1> HIDE DEF done, late
<1>7. CASE g.dirty
  <2>1. GovRight(late)
    BY <1>2, <1>3, <1>6, <1>7 DEF GovRight
  <2> QED
    BY <1>3, <1>4, <1>6, <1>7, <2>1 DEF r
<1>8. CASE ~g.dirty
  <2>1. Landed(g) = done \/ (Landed(g) = None /\ ~shared)
    BY <1>4, <1>8 DEF Release
  <2>2. GovRight(done)
    BY <1>2, <1>5, <1>8 DEF GovRight
  <2> QED
    BY <1>5, <1>8, <2>1, <2>2 DEF r
<1> QED
  BY <1>7, <1>8

LEMMA FailedIs ==
    ASSUME NEW g \in Governed, GovRight(g)
    PROVE  LET h == Failed(g)
           IN  /\ h \in Governed /\ GovRight(h)
               /\ h.content = g.content /\ h.unflushed = g.unflushed
               /\ h.dirty /\ h.writing = None /\ h.failing
               /\ stage # "running" => h.timers = {}
<1> DEFINE T == IF stage = "running" THEN {"retry"} ELSE {}
           h == [g EXCEPT !.writing = None, !.written = 0, !.dirty = TRUE,
                          !.failing = TRUE, !.timers = T]
<1>1. Failed(g) = h
  BY DEF Failed
<1>2. /\ T \in SUBSET Timers
      /\ stage = "running" => T = {"retry"}
      /\ stage # "running" => T = {}
  BY DEF Timers
<1> HIDE DEF T
<1>3. /\ h \in Governed /\ h.content = g.content /\ h.unflushed = g.unflushed
      /\ h.dirty /\ h.writing = None /\ h.written = 0 /\ h.failing /\ h.timers = T
  BY <1>2 DEF Governed
<1>4. Len(g.unflushed) \in Nat
  BY GovernedIs
<1> HIDE DEF h
<1>5. GovRight(h)
  BY <1>2, <1>3, <1>4 DEF GovRight
<1> QED
  BY <1>1, <1>2, <1>3, <1>5

\* The last changes of what is left are the last changes of the whole.
LEMMA RestShown ==
    ASSUME NEW g \in Governed, g.written <= Len(g.unflushed),
           LastShown(g.unflushed, g.content)
    PROVE  LastShown(Rest(g), g.content)
<1>1. PICK q, w, r, c : /\ q = g.unflushed /\ w = g.written /\ r = Rest(g)
                        /\ c = g.content
  OBVIOUS
<1>2. /\ q \in Seq(Change) /\ w \in Nat /\ w <= Len(q) /\ Len(q) \in Nat
      /\ DOMAIN q = 1 .. Len(q) /\ LastShown(q, c)
  BY <1>1, GovernedIs
<1>3. DOMAIN r = 1 .. Len(q) - w /\ \A i \in 1 .. Len(q) - w : r[i] = q[w + i]
  <2>1. w \in 0 .. Len(q)
    BY <1>2
  <2> QED
    BY <1>1, <1>2, <2>1, RestList DEF Rest
<1>4. ASSUME NEW i \in DOMAIN r, \A j \in DOMAIN r : i < j => r[j].key # r[i].key
      PROVE  c[r[i].key] = r[i].val
  <2>1. w + i \in DOMAIN q /\ r[i] = q[w + i]
    BY <1>2, <1>3
  <2>2. ASSUME NEW j \in DOMAIN q, w + i < j PROVE q[j].key # q[w + i].key
    <3>1. j - w \in DOMAIN r /\ i < j - w /\ r[j - w] = q[j]
      <4>1. j - w \in 1 .. Len(q) - w /\ i < j - w /\ w + (j - w) = j
        BY <1>2, <1>3, <2>2
      <4> QED
        BY <1>3, <4>1
    <3> QED
      BY <1>4, <2>1, <3>1
  <2> QED
    BY <1>2, <2>1, <2>2 DEF LastShown
<1> QED
  BY <1>1, <1>4 DEF LastShown

-------------------------------------------------------------------------------
(* The states between two awaits.                                              *)

HeldState == [bus      : [seq : Nat, order : Order, canvas : Content],
              order    : Order,
              gov      : Governed \cup {None},
              adopting : [at : {"no", "asked", "read"}, saw : Content \cup {None}],
              queued   : Seq(Change)]

HeldRight(s) == /\ s \in HeldState
                /\ s.gov # None => GovRight(s.gov)
                /\ Fresh(s.bus.order, s.bus.seq)

\* A client that heard everything judges and shows what the authority judges and holds.
Same(s) == s.order = s.bus.order /\ s.gov.content = s.bus.canvas

\* A new record with one field of s replaced is a state again.
LEMMA HeldFields ==
    ASSUME NEW s \in HeldState
    PROVE  /\ s.bus \in [seq : Nat, order : Order, canvas : Content] /\ s.order \in Order
           /\ s.gov \in Governed \cup {None} /\ s.queued \in Seq(Change)
           /\ s.adopting \in [at : {"no", "asked", "read"}, saw : Content \cup {None}]
           /\ s.bus.seq \in Nat /\ s.bus.order \in Order /\ s.bus.canvas \in Content
  BY DEF HeldState

LEMMA WithGov ==
    ASSUME NEW s, HeldRight(s), NEW g \in Governed \cup {None}, g # None => GovRight(g)
    PROVE  LET t == [s EXCEPT !.gov = g]
           IN  /\ HeldRight(t) /\ t.gov = g
               /\ t.bus = s.bus /\ t.order = s.order
               /\ t.adopting = s.adopting /\ t.queued = s.queued
<1> DEFINE t == [s EXCEPT !.gov = g]
<1>1. s \in HeldState
  BY DEF HeldRight
<1>2. /\ t \in HeldState /\ t.gov = g /\ t.bus = s.bus /\ t.order = s.order
      /\ t.adopting = s.adopting /\ t.queued = s.queued
  BY <1>1 DEF HeldState
<1> HIDE DEF t
<1>3. HeldRight(t)
  BY <1>2 DEF HeldRight
<1> QED
  BY <1>2, <1>3 DEF t

LEMMA WithCanvas ==
    ASSUME NEW s, HeldRight(s), NEW c \in Content
    PROVE  LET t == [s EXCEPT !.bus.canvas = c]
           IN  /\ HeldRight(t) /\ t.gov = s.gov /\ t.order = s.order
               /\ t.adopting = s.adopting /\ t.queued = s.queued
               /\ t.bus.canvas = c /\ t.bus.order = s.bus.order /\ t.bus.seq = s.bus.seq
<1> DEFINE t == [s EXCEPT !.bus.canvas = c]
<1>1. s \in HeldState
  BY DEF HeldRight
<1>2. /\ t \in HeldState /\ t.gov = s.gov /\ t.order = s.order
      /\ t.adopting = s.adopting /\ t.queued = s.queued
      /\ t.bus.canvas = c /\ t.bus.order = s.bus.order /\ t.bus.seq = s.bus.seq
  BY <1>1 DEF HeldState
<1> HIDE DEF t
<1>3. HeldRight(t)
  BY <1>2 DEF HeldRight
<1> QED
  BY <1>2, <1>3 DEF t

\* install: what is adopted is the content read with the queued ops on top.
LEMMA InstallIs ==
    ASSUME NEW s, HeldRight(s), NEW isShared \in BOOLEAN, NEW content \in Content \cup {None}
    PROVE  LET t == Install(s, isShared, content)
           IN  /\ HeldRight(t) /\ t.bus = s.bus /\ t.order = s.order
               /\ t.adopting = NoAdoption
               /\ t.gov # None <=> isShared /\ content # None
               /\ isShared /\ content # None /\ s.queued = << >> =>
                      /\ t.gov.content = content /\ t.gov.unflushed = << >>
                      /\ ~t.gov.dirty /\ t.gov.writing = None
<1> DEFINE fresh == [content |-> content, unflushed |-> << >>, dirty |-> FALSE,
                     timers |-> {}, writing |-> None, written |-> 0, failing |-> FALSE]
           g == IF ~isShared \/ content = None THEN None ELSE ApplyAll(fresh, s.queued)
           t == [s EXCEPT !.queued = << >>, !.adopting = NoAdoption, !.gov = g]
<1>1. s \in HeldState /\ s.queued \in Seq(Change)
  BY HeldFields DEF HeldRight
<1>2. Install(s, isShared, content) = t
  BY DEF Install
<1>3. ASSUME content # None PROVE fresh \in Governed /\ GovRight(fresh)
  <2>1. fresh \in Governed
    BY <1>3, EmptySeq DEF Governed
  <2>2. fresh.written = 0 /\ fresh.unflushed = << >> /\ ~fresh.dirty /\ fresh.writing = None
        /\ fresh.timers = {}
    OBVIOUS
  <2> HIDE DEF fresh
  <2>3. Len(fresh.unflushed) = 0
    BY <2>2, EmptySeq
  <2> QED
    BY <2>1, <2>2, <2>3 DEF GovRight
<1>4. content # None => /\ fresh.content = content /\ fresh.unflushed = << >>
                        /\ ~fresh.dirty /\ fresh.writing = None
  OBVIOUS
<1> HIDE DEF fresh
<1>5. /\ g \in Governed \cup {None} /\ (g # None => GovRight(g))
      /\ g # None <=> isShared /\ content # None
      /\ isShared /\ content # None /\ s.queued = << >> => g = fresh
  <2>1. CASE ~isShared \/ content = None
    BY <2>1
  <2>2. CASE isShared /\ content # None
    <3>1. fresh \in Governed /\ GovRight(fresh)
      BY <1>3, <2>2
    <3>2. /\ ApplyAll(fresh, s.queued) \in Governed /\ GovRight(ApplyAll(fresh, s.queued))
          /\ s.queued = << >> => ApplyAll(fresh, s.queued) = fresh
      BY <1>1, <3>1, ApplyAllIs
    <3>3. ApplyAll(fresh, s.queued) # None
      BY <3>2, GovernedIs
    <3> QED
      BY <2>2, <3>2, <3>3
  <2> QED
    BY <2>1, <2>2
<1> HIDE DEF g
<1>6. NoAdoption \in [at : {"no", "asked", "read"}, saw : Content \cup {None}]
  BY DEF NoAdoption
<1>7. /\ t \in HeldState /\ t.gov = g /\ t.bus = s.bus /\ t.order = s.order
      /\ t.adopting = NoAdoption /\ t.queued = << >>
  BY <1>1, <1>5, <1>6, EmptySeq DEF HeldState
<1> HIDE DEF t
<1>8. HeldRight(t)
  BY <1>5, <1>7 DEF HeldRight
<1> QED
  BY <1>2, <1>4, <1>5, <1>7, <1>8

\* adopt: what is governed, or being adopted, is left alone.
LEMMA AdoptIs ==
    ASSUME NEW s, HeldRight(s), NEW isShared \in BOOLEAN, NEW last \in Content \cup {None}
    PROVE  LET t == Adopt(s, isShared, last)
           IN  /\ HeldRight(t) /\ t.bus = s.bus /\ t.order = s.order
               /\ s.gov # None => t = s
<1> DEFINE t == Adopt(s, isShared, last)
<1>1. CASE s.gov # None \/ s.adopting.at # "no"
  BY <1>1 DEF Adopt
<1>2. CASE s.gov = None /\ last # None
  <2>1. t = s \/ t = Install(s, isShared, last)
    BY <1>2 DEF Adopt
  <2> QED
    BY <1>2, <2>1, InstallIs
<1>3. CASE s.gov = None /\ s.adopting.at = "no" /\ last = None
  <2> DEFINE u == [s EXCEPT !.adopting.at = "asked"]
  <2>1. t = u
    BY <1>3 DEF Adopt
  <2>2. s \in HeldState
    BY DEF HeldRight
  <2>3. u \in HeldState /\ u.gov = s.gov /\ u.bus = s.bus /\ u.order = s.order
    BY <2>2 DEF HeldState
  <2> HIDE DEF u
  <2>4. HeldRight(u)
    BY <2>3 DEF HeldRight
  <2> QED
    BY <1>3, <2>1, <2>3, <2>4
<1> QED
  BY <1>1, <1>2, <1>3

-------------------------------------------------------------------------------
(* Ops, reflected.                                                             *)

\* A verdict of another's op records its seq, and expects no echo that it did not before.
LEMMA JudgedFresh ==
    ASSUME NEW o \in Order, NEW n \in Nat, Fresh(o, n), NEW m, m.key \in Key,
           m.seq = n + 1, NEW me, m.src # me
    PROVE  LET a == Accepted(o, m, me)
           IN  a \in Order /\ Fresh(a, n + 1)
<1> DEFINE a == Accepted(o, m, me)
           h == Heard(o, m)
<1>1. m.seq \in Nat \ {0}
  OBVIOUS
<1>2. AcceptedOutcome(o, m, me, a)
  BY <1>1, AcceptedFields
<1>3. h.seen = [o.seen EXCEPT ![m.key] = IF m.seq > @ THEN m.seq ELSE @]
  BY <1>1, HeardFields
<1> HIDE DEF a, h
<1>4. a \in Order /\ a.pending = o.pending /\ a.seen = h.seen
  BY <1>2 DEF AcceptedOutcome, KeepsOrder, h
<1>5. o.seen \in [Key -> Nat]
  BY DEF Order
<1>6. \A k \in Key : a.seen[k] <= n + 1
  BY <1>3, <1>4, <1>5 DEF Fresh
<1> QED
  BY <1>4, <1>6 DEF Fresh, a

\* An op that was never stamped applies wherever no echo is expected and its seq is new.
LEMMA UnstampedApplies ==
    ASSUME NEW o \in Order, NEW n \in Nat, Fresh(o, n), NEW m, m.key \in Key,
           m.seq = n + 1, NEW me, m.src # me, m.seen = Unstamped
    PROVE  Applies(o, m, me)
<1>1. o.pending[m.key] = 0 /\ o.seen[m.key] <= n /\ o.seen[m.key] \in Nat
  BY DEF Fresh, Order
<1>2. Current(o, m) /\ ~SupersededByRemove(o, m) /\ ~Suppressing(o, m.key)
  BY <1>1 DEF Current, SupersededByRemove, Suppressing
<1> QED
  BY <1>2 DEF Applies, OwnEcho

\* Reflecting an op: the observer hears it, and the authority, if it governs, as the
\* observer does.
LEMMA ReflectIs ==
    ASSUME NEW s, HeldRight(s), NEW c \in Change, NEW seen,
           known \in Content \cup {None}, shared \in BOOLEAN
    PROVE  LET t == Reflect(s, c, seen)
           IN  /\ HeldRight(t)
               /\ ~Governs \/ s.gov # None => t.adopting = s.adopting
               /\ ~Governs => t.gov = s.gov
               /\ s.gov # None => /\ t.gov # None /\ Evolves(s.gov, t.gov)
                                  /\ s.gov.content[c.key] = c.val => t.gov = s.gov
               /\ Governs /\ TooLarge = {} /\ s.gov # None /\ Same(s) => Same(t)
               /\ seen = Unstamped /\ TooLarge = {} =>
                      t.bus.canvas = Put(s.bus.canvas, c)
               /\ s.order = s.bus.order /\ Governs /\ TooLarge = {} => t.order = t.bus.order
<1> DEFINE n == s.bus.seq + 1
           m == [key |-> c.key, val |-> c.val, remove |-> c.val = Absent, src |-> "client",
                 seen |-> seen, seq |-> n]
           o == Accepted(s.bus.order, m, "observer")
           p == IF Applies(s.bus.order, m, "observer") THEN Put(s.bus.canvas, c)
                ELSE s.bus.canvas
           b == [seq |-> n, order |-> o, canvas |-> p]
           t == [s EXCEPT !.bus = b]
           a == Accepted(s.order, m, "authority")
           judged == [t EXCEPT !.order = a]
           r == Reflect(s, c, seen)
<1>1. /\ s \in HeldState /\ Fresh(s.bus.order, s.bus.seq)
      /\ s.gov # None => s.gov \in Governed /\ GovRight(s.gov)
      /\ s.bus.seq \in Nat /\ s.bus.order \in Order /\ s.bus.canvas \in Content
      /\ s.order \in Order /\ s.queued \in Seq(Change)
  BY HeldFields DEF HeldRight
<1>2. /\ m.key \in Key /\ m.seq = s.bus.seq + 1 /\ m.src = "client" /\ m.key = c.key
      /\ m.val = c.val /\ m.seen = seen /\ m.seq \in Nat \ {0}
  BY <1>1, ChangeIs
<1>3. r = IF c.val \in TooLarge THEN s ELSE IF Governs THEN OnReflected(t, m) ELSE t
  BY DEF Reflect
<1>4. /\ s.order = s.bus.order => a = o
      /\ s.order = s.bus.order =>
             (Applies(s.order, m, "authority") <=> Applies(s.bus.order, m, "observer"))
  BY <1>2 DEF Accepted, Applies, OwnEcho
<1> HIDE DEF m
<1>5. o \in Order /\ Fresh(o, n)
  BY <1>1, <1>2, JudgedFresh
<1>6. a \in Order
  <2>1. AcceptedOutcome(s.order, m, "authority", a)
    BY <1>1, <1>2, AcceptedFields
  <2> QED
    BY <2>1 DEF AcceptedOutcome
<1>7. p \in Content
  BY <1>1, PutIs
<1>8. seen = Unstamped => p = Put(s.bus.canvas, c)
  BY <1>1, <1>2, UnstampedApplies
<1> DEFINE heard == Applies(s.bus.order, m, "observer")
           mine  == Applies(s.order, m, "authority")
<1>9. p = IF heard THEN Put(s.bus.canvas, c) ELSE s.bus.canvas
  OBVIOUS
<1> HIDE DEF o, p, a, n, heard, mine
<1>10. /\ t \in HeldState /\ t.gov = s.gov /\ t.order = s.order
       /\ t.adopting = s.adopting /\ t.queued = s.queued
       /\ t.bus.seq = n /\ t.bus.order = o /\ t.bus.canvas = p
  BY <1>1, <1>5, <1>7 DEF HeldState, n
<1>11. HeldRight(t)
  BY <1>1, <1>5, <1>10 DEF HeldRight
<1> HIDE DEF t
<1>12. /\ judged \in HeldState /\ judged.gov = s.gov /\ judged.order = a
       /\ judged.adopting = s.adopting /\ judged.queued = s.queued
       /\ judged.bus.seq = n /\ judged.bus.order = o /\ judged.bus.canvas = p
  BY <1>6, <1>10 DEF HeldState
<1>13. OnReflected(t, m) = IF ~mine             THEN judged
                          ELSE IF s.gov # None THEN [judged EXCEPT !.gov = ApplyTo(@, c)]
                          ELSE Adopt([judged EXCEPT !.queued = Append(@, c)], shared, known)
  <2>1. c = [key |-> m.key, val |-> m.val]
    BY <1>2 DEF Change
  <2> QED
    BY <1>10, <2>1 DEF OnReflected, mine, a
<1> HIDE DEF judged
<1>14. HeldRight(judged)
  BY <1>1, <1>5, <1>12 DEF HeldRight
<1>15. CASE c.val \in TooLarge
  <2>1. r = s
    BY <1>3, <1>15
  <2> HIDE DEF r
  <2>2. s.gov # None => Evolves(s.gov, s.gov)
    BY <1>1, EvolvesNot
  <2> QED
    BY <1>15, <2>1, <2>2 DEF r
<1>16. CASE c.val \notin TooLarge /\ ~Governs
  <2>1. r = t
    BY <1>3, <1>16
  <2> HIDE DEF r
  <2>2. s.gov # None => Evolves(s.gov, s.gov)
    BY <1>1, EvolvesNot
  <2> QED
    BY <1>8, <1>10, <1>11, <1>16, <2>1, <2>2 DEF r
<1>17. CASE c.val \notin TooLarge /\ Governs /\ ~mine
  <2>1. r = judged
    BY <1>3, <1>13, <1>17
  <2> HIDE DEF r
  <2>2. s.gov # None => Evolves(s.gov, s.gov)
    BY <1>1, EvolvesNot
  <2>3. Same(s) => Same(judged)
    BY <1>4, <1>9, <1>12, <1>17 DEF Same, heard, mine
  <2> QED
    BY <1>4, <1>8, <1>12, <1>14, <1>17, <2>1, <2>2, <2>3 DEF r
<1>18. CASE c.val \notin TooLarge /\ Governs /\ mine /\ s.gov # None
  <2> DEFINE g == ApplyTo(s.gov, c)
             v == [judged EXCEPT !.gov = g]
  <2>1. r = v
    BY <1>3, <1>12, <1>13, <1>18
  <2>2. /\ g \in Governed /\ GovRight(g) /\ Evolves(s.gov, g)
        /\ g.content = Put(s.gov.content, c)
        /\ s.gov.content[c.key] = c.val => g = s.gov
    BY <1>1, <1>18, ApplyToIs
  <2>3. g # None
    BY <2>2, GovernedIs
  <2> HIDE DEF g
  <2>4. /\ HeldRight(v) /\ v.gov = g /\ v.bus = judged.bus /\ v.order = judged.order
        /\ v.adopting = judged.adopting
    BY <1>14, <2>2, WithGov
  <2> HIDE DEF r, v
  <2>5. Same(s) => Same(v)
    BY <1>4, <1>9, <1>12, <1>18, <2>2, <2>4 DEF Same, heard, mine
  <2> QED
    BY <1>4, <1>8, <1>12, <1>18, <2>1, <2>2, <2>3, <2>4, <2>5 DEF r
<1>19. CASE c.val \notin TooLarge /\ Governs /\ mine /\ s.gov = None
  <2> DEFINE q == Append(s.queued, c)
             u == [judged EXCEPT !.queued = q]
             v == Adopt(u, shared, known)
  <2>1. r = v
    BY <1>3, <1>12, <1>13, <1>19
  <2>2. q \in Seq(Change)
    BY <1>1, AppendProperties
  <2> HIDE DEF q
  <2>3. /\ u \in HeldState /\ u.gov = None /\ u.bus = judged.bus /\ u.order = judged.order
    BY <1>12, <1>19, <2>2 DEF HeldState
  <2> HIDE DEF u
  <2>4. HeldRight(u)
    BY <1>5, <1>12, <2>3 DEF HeldRight
  <2>5. HeldRight(v) /\ v.bus = judged.bus /\ v.order = judged.order
    BY <2>3, <2>4, AdoptIs
  <2> HIDE DEF r, v
  <2> QED
    BY <1>4, <1>8, <1>12, <1>19, <2>1, <2>5 DEF r
<1> QED
  BY <1>15, <1>16, <1>17, <1>18, <1>19

\* The ops of an edit that the authority shows already leave it alone; a client that hears
\* them all, and is told of every key it shows otherwise, shows the same.
LEMMA ReflectAllIs ==
    ASSUME NEW s, HeldRight(s), s.gov # None, NEW q \in Seq(Change),
           \A i \in DOMAIN q : q[i].val = s.gov.content[q[i].key],
           known \in Content \cup {None}, shared \in BOOLEAN
    PROVE  LET t == ReflectAll(s, q)
           IN  /\ HeldRight(t) /\ t.gov = s.gov /\ t.adopting = s.adopting
               /\ s.order = s.bus.order /\ Governs /\ TooLarge = {} => t.order = t.bus.order
               /\ TooLarge = {} /\ (\A k \in Key : s.bus.canvas[k] # s.gov.content[k] =>
                                        \E i \in DOMAIN q : q[i].key = k)
                      => t.bus.canvas = s.gov.content
<1> DEFINE right(t) == /\ HeldRight(t) /\ t.gov = s.gov /\ t.adopting = s.adopting
                       /\ s.order = s.bus.order /\ Governs /\ TooLarge = {} =>
                              t.order = t.bus.order
           X == {t \in HeldState : right(t)}
<1>1. s \in X
  BY DEF HeldRight
<1>2. /\ Len(q) \in Nat /\ DOMAIN q = 1 .. Len(q)
      /\ \A i \in 1 .. Len(q) : q[i] \in Change /\ q[i].val = s.gov.content[q[i].key]
  BY LenProperties, ElementOfSeq
<1>3. ASSUME NEW i \in 1 .. Len(q), NEW t \in X
      PROVE  /\ Reflect(t, q[i], Unstamped) \in X
             /\ TooLarge = {} =>
                    Reflect(t, q[i], Unstamped).bus.canvas = Put(t.bus.canvas, q[i])
  <2> DEFINE u == Reflect(t, q[i], Unstamped)
  <2>1. right(t)
    OBVIOUS
  <2>2. /\ HeldRight(u) /\ u.adopting = t.adopting
        /\ t.gov.content[q[i].key] = q[i].val => u.gov = t.gov
        /\ TooLarge = {} => u.bus.canvas = Put(t.bus.canvas, q[i])
        /\ t.order = t.bus.order /\ Governs /\ TooLarge = {} => u.order = u.bus.order
    <3>1. HeldRight(t) /\ t.gov # None /\ q[i] \in Change
      BY <1>2, <2>1
    <3> HIDE DEF right, X
    <3> QED
      BY <3>1, ReflectIs
  <2> HIDE DEF u
  <2>3. u.gov = s.gov /\ u.adopting = s.adopting
    BY <1>2, <2>1, <2>2
  <2>4. u \in HeldState
    BY <2>2 DEF HeldRight
  <2>5. right(u)
    BY <2>1, <2>2, <2>3
  <2> HIDE DEF right
  <2> QED
    BY <2>2, <2>4, <2>5 DEF u
<1>4. \A t \in X : t.bus.canvas \in Content
  BY HeldFields
<1>5. PICK f \in [0 .. Len(q) -> X] :
          /\ f[0] = s
          /\ \A i \in 1 .. Len(q) : f[i] = Reflect(f[i - 1], q[i], Unstamped)
          /\ ReflectAll(s, q) = f[Len(q)]
  <2>1. ReflectsInto(X, q)
    BY <1>3 DEF ReflectsInto
  <2> HIDE DEF X
  <2> QED
    BY <1>1, <2>1, ReflectAllWay
<1>6. right(f[Len(q)]) /\ f[Len(q)] \in HeldState
  <2>1. f[Len(q)] \in X
    BY <1>2, <1>5
  <2> HIDE DEF right
  <2> QED
    BY <2>1
<1> HIDE DEF right, X
<1>7. ASSUME TooLarge = {},
             \A k \in Key : s.bus.canvas[k] # s.gov.content[k] =>
                 \E i \in DOMAIN q : q[i].key = k
      PROVE  f[Len(q)].bus.canvas = s.gov.content
  <2> DEFINE shows(i, k) == \/ f[i].bus.canvas[k] = s.gov.content[k]
                            \/ /\ f[i].bus.canvas[k] = s.bus.canvas[k]
                               /\ \A j \in 1 .. i : q[j].key # k
             G == {i \in 0 .. Len(q) : \A k \in Key : shows(i, k)}
  <2>1. 0 \in G
    BY <1>2, <1>5
  <2>2. ASSUME NEW i \in 1 .. Len(q), i - 1 \in G PROVE i \in G
    <3>1. /\ i - 1 \in 0 .. Len(q) /\ f[i - 1] \in X
          /\ f[i].bus.canvas = Put(f[i - 1].bus.canvas, q[i])
      BY <1>2, <1>3, <1>5, <1>7
    <3>2. /\ f[i].bus.canvas[q[i].key] = q[i].val
          /\ \A k \in Key : k # q[i].key => f[i].bus.canvas[k] = f[i - 1].bus.canvas[k]
      <4>1. PICK d, x, e : /\ d = f[i - 1].bus.canvas /\ x = q[i] /\ e = f[i].bus.canvas
        OBVIOUS
      <4>2. d \in Content /\ x \in Change /\ e = Put(d, x)
        BY <1>2, <1>4, <3>1, <4>1
      <4>3. e[x.key] = x.val /\ \A k \in Key : k # x.key => e[k] = d[k]
        BY ONLY <4>2, PutIs
      <4> QED
        BY <4>1, <4>3
    <3>3. ASSUME NEW k \in Key PROVE shows(i, k)
      <4>1. CASE q[i].key = k
        BY <1>2, <3>2, <4>1
      <4>2. CASE q[i].key # k
        <5>1. f[i].bus.canvas[k] = f[i - 1].bus.canvas[k] /\ shows(i - 1, k)
          BY <2>2, <3>2, <4>2
        <5>2. \A j \in 1 .. i : j = i \/ j \in 1 .. i - 1
          OBVIOUS
        <5> QED
          BY <4>2, <5>1, <5>2
      <4> QED
        BY <4>1, <4>2
    <3> HIDE DEF shows
    <3> QED
      BY <3>3
  <2>3. Len(q) \in G
    <3>1. G \in SUBSET (0 .. Len(q))
      OBVIOUS
    <3> HIDE DEF G
    <3> QED
      BY <1>2, <2>1, <2>2, <3>1, Along
  <2>4. \A k \in Key : f[Len(q)].bus.canvas[k] = s.gov.content[k]
    BY <1>2, <1>7, <2>3
  <2>5. f[Len(q)].bus.canvas \in Content /\ s.gov.content \in Content
    <3>1. s.gov \in Governed
      BY HeldFields DEF HeldRight
    <3> QED
      BY <1>6, <3>1, HeldFields, GovernedIs
  <2> QED
    BY <2>4, <2>5 DEF Content
<1> QED
  BY <1>5, <1>6, <1>7 DEF right

\* adoptOutsideEdit: the content becomes the edit with the unflushed ops on top; what goes
\* over the edit is owed.
LEMMA TakeEditIs ==
    ASSUME NEW s, HeldRight(s), s.gov # None, NEW e \in Content, NEW had \in BOOLEAN,
           known \in Content \cup {None}, shared \in BOOLEAN
    PROVE  LET t == TakeEdit(s, e, had)
           IN  /\ HeldRight(t) /\ t.gov # None /\ t.adopting = s.adopting
               /\ t.gov.content = Replay(s.gov.unflushed, e)
               /\ t.gov.unflushed = s.gov.unflushed /\ t.gov.writing = s.gov.writing
               /\ t.gov.failing = s.gov.failing
               /\ s.gov.unflushed # << >> => t.gov.dirty
               /\ s.gov.unflushed = << >> => t.gov.dirty = s.gov.dirty
               /\ Governs /\ TooLarge = {} /\ Same(s) => Same(t)
<1> DEFINE after == Replay(s.gov.unflushed, e)
           g == [s.gov EXCEPT !.content = after]
           moved == [s EXCEPT !.gov = g]
           q == Diff(s.gov.content, after)
           u == ReflectAll(moved, q)
           v == OwedAgain(u)
           t == TakeEdit(s, e, had)
<1>1. s.gov \in Governed /\ GovRight(s.gov) /\ s \in HeldState
  BY HeldFields DEF HeldRight
<1>2. s.gov.content \in Content /\ s.gov.unflushed \in Seq(Change)
  BY <1>1, GovernedIs
<1>3. after \in Content
  BY <1>2, ReplayIs
<1>4. t = Told(v, had)
  <2>1. [s EXCEPT !.gov.content = after] = moved
    BY <1>1 DEF HeldState
  <2> QED
    BY <2>1 DEF TakeEdit
<1>5. /\ q \in Seq(Change)
      /\ \A i \in DOMAIN q : q[i].val = after[q[i].key]
      /\ \A k \in Key : s.gov.content[k] # after[k] => \E i \in DOMAIN q : q[i].key = k
  <2> HIDE DEF after
  <2> QED
    BY <1>2, <1>3, DiffIs
<1> HIDE DEF after, q
<1>6. /\ g \in Governed /\ g.content = after /\ g.unflushed = s.gov.unflushed
      /\ g.writing = s.gov.writing /\ g.written = s.gov.written
      /\ g.failing = s.gov.failing /\ g.dirty = s.gov.dirty /\ g.timers = s.gov.timers
  BY <1>1, <1>3 DEF Governed
<1> HIDE DEF g
<1>7. GovRight(g) /\ g # None
  BY <1>1, <1>6, GovernedIs DEF GovRight
<1>8. /\ HeldRight(moved) /\ moved.gov = g /\ moved.bus = s.bus /\ moved.order = s.order
      /\ moved.adopting = s.adopting
  BY <1>6, <1>7, WithGov
<1> HIDE DEF moved
<1>9. /\ HeldRight(u) /\ u.gov = g /\ u.adopting = s.adopting
      /\ s.order = s.bus.order /\ Governs /\ TooLarge = {} => u.order = u.bus.order
      /\ TooLarge = {} /\ s.gov.content = s.bus.canvas => u.bus.canvas = after
  <2>1. \A i \in DOMAIN q : q[i].val = moved.gov.content[q[i].key]
    BY <1>5, <1>6, <1>8
  <2>2. /\ HeldRight(u) /\ u.gov = moved.gov /\ u.adopting = moved.adopting
        /\ moved.order = moved.bus.order /\ Governs /\ TooLarge = {} =>
               u.order = u.bus.order
        /\ TooLarge = {} /\ (\A k \in Key : moved.bus.canvas[k] # moved.gov.content[k] =>
                                 \E i \in DOMAIN q : q[i].key = k)
               => u.bus.canvas = moved.gov.content
    BY <1>5, <1>7, <1>8, <2>1, ReflectAllIs
  <2> HIDE DEF u
  <2>3. s.gov.content = s.bus.canvas =>
            \A k \in Key : moved.bus.canvas[k] # moved.gov.content[k] =>
                \E i \in DOMAIN q : q[i].key = k
    BY <1>5, <1>6, <1>8
  <2> QED
    BY <1>6, <1>8, <2>2, <2>3
<1> HIDE DEF u
<1>10. /\ HeldRight(v) /\ v.gov # None /\ v.adopting = s.adopting
       /\ v.gov.content = after /\ v.gov.unflushed = s.gov.unflushed
       /\ v.gov.writing = s.gov.writing /\ v.gov.failing = s.gov.failing
       /\ s.gov.unflushed # << >> => v.gov.dirty
       /\ s.gov.unflushed = << >> => v.gov.dirty = s.gov.dirty
       /\ v.bus = u.bus /\ v.order = u.order
  <2>1. CASE s.gov.unflushed = << >>
    <3>1. v = u
      BY <1>6, <1>9, <2>1 DEF OwedAgain
    <3> HIDE DEF v
    <3> QED
      BY <1>6, <1>7, <1>9, <2>1, <3>1
  <2>2. CASE s.gov.unflushed # << >>
    <3> DEFINE h == MarkDirty(g)
    <3>1. v = [u EXCEPT !.gov = h]
      BY <1>6, <1>9, <2>2 DEF OwedAgain
    <3>2. /\ h \in Governed /\ GovRight(h) /\ h.dirty
          /\ h.content = g.content /\ h.unflushed = g.unflushed
          /\ h.writing = g.writing /\ h.failing = g.failing
      BY <1>6, <1>7, MarkDirtyIs
    <3> HIDE DEF h
    <3>3. h # None
      BY <3>2, GovernedIs
    <3>4. /\ HeldRight(v) /\ v.gov = h /\ v.bus = u.bus /\ v.order = u.order
          /\ v.adopting = u.adopting
      BY <1>9, <3>1, <3>2, WithGov
    <3> HIDE DEF v
    <3> QED
      BY <1>6, <1>9, <2>2, <3>2, <3>3, <3>4
  <2> QED
    BY <2>1, <2>2
<1> HIDE DEF v
<1>11. /\ HeldRight(t) /\ t.gov = v.gov /\ t.adopting = v.adopting /\ t.order = v.order
       /\ t.bus.order = v.bus.order
       /\ had => t.bus.canvas = v.bus.canvas
       /\ ~had => t.bus.canvas = after
  <2>1. CASE had
    <3>1. t = v
      BY <1>4, <2>1 DEF Told
    <3> HIDE DEF t
    <3> QED
      BY <1>10, <2>1, <3>1
  <2>2. CASE ~had
    <3>1. t = [v EXCEPT !.bus.canvas = after]
      BY <1>4, <1>10, <2>2 DEF Told
    <3> HIDE DEF t
    <3>2. /\ HeldRight(t) /\ t.gov = v.gov /\ t.order = v.order
          /\ t.adopting = v.adopting
          /\ t.bus.canvas = after /\ t.bus.order = v.bus.order
      BY <1>3, <1>10, <3>1, WithCanvas
    <3> QED
      BY <2>2, <3>2
  <2> QED
    BY <2>1, <2>2
<1> HIDE DEF t
<1>12. Governs /\ TooLarge = {} /\ Same(s) => Same(t)
  BY <1>9, <1>10, <1>11 DEF Same
<1> QED
  BY <1>10, <1>11, <1>12 DEF t, after

\* overlayProject, of a save: what it contributes is applied to the project.
LEMMA OverlaySaveIs ==
    ASSUME NEW s, HeldRight(s), s.gov # None, NEW copy \in Content
    PROVE  LET t == OverlaySave(s, copy)
           IN  /\ HeldRight(t) /\ t.gov # None /\ Evolves(s.gov, t.gov)
               /\ t.bus = s.bus /\ t.order = s.order /\ t.adopting = s.adopting
               /\ TooLarge = {} => t.gov = s.gov
<1> DEFINE g == ApplyAll(s.gov, Oversized(copy))
           t == [s EXCEPT !.gov = g]
<1>1. s.gov \in Governed /\ GovRight(s.gov)
  BY HeldFields DEF HeldRight
<1>2. Oversized(copy) \in Seq(Change) /\ (TooLarge = {} => Oversized(copy) = << >>)
  BY OversizedIs
<1>3. /\ g \in Governed /\ GovRight(g) /\ Evolves(s.gov, g)
      /\ TooLarge = {} => g = s.gov
  BY <1>1, <1>2, ApplyAllIs
<1>4. OverlaySave(s, copy) = t
  BY DEF OverlaySave
<1> HIDE DEF g
<1>5. g # None
  BY <1>3, GovernedIs
<1>6. HeldRight(t) /\ t.gov = g /\ t.bus = s.bus /\ t.order = s.order /\ t.adopting = s.adopting
  BY <1>3, WithGov
<1> HIDE DEF t
<1> QED
  BY <1>3, <1>4, <1>5, <1>6

-------------------------------------------------------------------------------
(* Every step keeps the invariant.                                             *)

LEMMA HeldNow ==
    ASSUME AuthorityInv
    PROVE  /\ HeldRight(Held) /\ Held.bus = bus /\ Held.order = order /\ Held.gov = gov
           /\ Held.adopting = adopting /\ Held.queued = queued
           /\ known \in Content \cup {None} /\ disk \in Content \cup {None}
           /\ shared \in BOOLEAN
           /\ gov # None => gov \in Governed /\ GovRight(gov)
<1>1. /\ Held \in HeldState /\ Held.bus = bus /\ Held.order = order /\ Held.gov = gov
      /\ Held.adopting = adopting /\ Held.queued = queued
  BY DEF AuthorityInv, TypeOK, Held, HeldState
<1>2. /\ known \in Content \cup {None} /\ disk \in Content \cup {None} /\ shared \in BOOLEAN
      /\ gov \in Governed \cup {None} /\ (gov # None => GovRight(gov))
      /\ Fresh(bus.order, bus.seq)
  BY DEF AuthorityInv, TypeOK
<1> QED
  BY <1>1, <1>2 DEF HeldRight

\* What the held variables become by a call is typed, and right where the stage is the same.
HeldTyped == /\ bus \in [seq : Nat, order : Order, canvas : Content]
             /\ order \in Order
             /\ gov \in Governed \cup {None}
             /\ adopting \in [at : {"no", "asked", "read"}, saw : Content \cup {None}]
             /\ queued \in Seq(Change)
             /\ gov # None => GovRight(gov)
             /\ Fresh(bus.order, bus.seq)

LEMMA BecomesRight ==
    ASSUME NEW s, HeldRight(s), Becomes(s), stage' = stage
    PROVE  HeldTyped'
<1>1. s \in HeldState /\ (s.gov # None => GovRight(s.gov)) /\ Fresh(s.bus.order, s.bus.seq)
  BY DEF HeldRight
<1>2. bus' = s.bus /\ order' = s.order /\ gov' = s.gov /\ adopting' = s.adopting
      /\ queued' = s.queued
  BY DEF Becomes
<1>3. gov' # None => GovRight(gov)'
  BY <1>1, <1>2 DEF GovRight
<1>4. Fresh(bus.order, bus.seq)'
  BY <1>1, <1>2 DEF Fresh
<1> QED
  BY <1>1, <1>2, <1>3, <1>4, HeldFields DEF HeldTyped

\* So is a step of the project alone.
LEMMA GovMoves ==
    ASSUME AuthorityInv, UNCHANGED <<bus, order, adopting, queued>>,
           gov' = None \/ (gov' \in Governed /\ GovRight(gov')),
           stage' = stage \/ stage' # "running"
    PROVE  HeldTyped'
<1>1. gov' # None => GovRight(gov)'
  BY DEF GovRight
<1>2. Fresh(bus.order, bus.seq)'
  BY DEF AuthorityInv, Fresh
<1> QED
  BY <1>1, <1>2 DEF HeldTyped, AuthorityInv, TypeOK

LEMMA CountIs ==
    ASSUME CountRight, NEW what \in {"ops", "edits", "shares", "saves"}, Count(what)
    PROVE  /\ CountRight'
           /\ what # "shares" => count'.shares = count.shares
           /\ what # "edits" => count'.edits = count.edits
           /\ what = "shares" => count'.shares # 0
           /\ what = "edits" => count'.edits # 0
<1>1. CASE what = "ops"
  <2>1. count' = [count EXCEPT !.ops = @ + 1]
    BY <1>1 DEF Count
  <2> QED
    BY <1>1, <2>1 DEF CountRight
<1>2. CASE what = "edits"
  <2>1. count' = [count EXCEPT !.edits = @ + 1]
    BY <1>2 DEF Count
  <2> QED
    BY <1>2, <2>1 DEF CountRight
<1>3. CASE what = "shares"
  <2>1. count' = [count EXCEPT !.shares = @ + 1]
    BY <1>3 DEF Count
  <2> QED
    BY <1>3, <2>1 DEF CountRight
<1>4. CASE what = "saves"
  <2>1. count' = [count EXCEPT !.saves = @ + 1]
    BY <1>4 DEF Count
  <2> QED
    BY <1>4, <2>1 DEF CountRight
<1> QED
  BY <1>1, <1>2, <1>3, <1>4

\* ClientCasts: the project evolves, and a client and the authority judge alike.
LEMMA ClientCastsRight ==
    ASSUME AuthorityInv, NEW k \in Key, NEW v \in Val \cup {Absent}, NEW seen,
           ClientCasts(k, v, seen)
    PROVE  AuthorityInv'
<1> DEFINE c == [key |-> k, val |-> v]
           s == Reflect(Held, c, seen)
<1>1. c \in Change
  BY DEF Change
<1>2. /\ HeldRight(s)
      /\ ~Governs \/ gov # None => s.adopting = adopting
      /\ ~Governs => s.gov = gov
      /\ gov # None => s.gov # None /\ Evolves(gov, s.gov)
      /\ Governs /\ TooLarge = {} /\ gov # None /\ Same(Held) => Same(s)
  <2> HIDE DEF c
  <2> QED
    BY <1>1, HeldNow, ReflectIs
<1>3. /\ Becomes(s) /\ Count("ops")
      /\ UNCHANGED <<edit, shared, stage, store, boot, crossed>>
  BY DEF ClientCasts
<1> HIDE DEF s
<1>4. HeldTyped'
  BY <1>2, <1>3, BecomesRight
<1>5. TypeOK' /\ CountRight'
  BY <1>3, <1>4, CountIs DEF HeldTyped, TypeOK, AuthorityInv, store
<1>6. gov' = s.gov /\ adopting' = s.adopting /\ order' = s.order /\ bus' = s.bus
  BY <1>3 DEF Becomes
<1>7. /\ count'.shares = count.shares /\ count'.edits = count.edits
      /\ SinceBoot' <=> SinceBoot
      /\ UNCHANGED <<saving, disk, known, watch>>
  BY <1>3, CountIs DEF AuthorityInv, SinceBoot, Governs, Baseline, store
<1>8. SinceBoot => gov # None /\ Governs /\ adopting.at = "no" /\ saving.at # "wait"
  BY DEF AuthorityInv, GovernedRight, SinceBoot
<1>9. DrainedRight'
  BY <1>2, <1>3, <1>6 DEF AuthorityInv, DrainedRight, Governs
<1>10. GovernedRight'
  BY <1>2, <1>6, <1>7, <1>8 DEF GovernedRight
<1>11. VerdictRight'
  <2>1. SinceBoot /\ TooLarge = {} => Same(Held)
    BY HeldNow DEF AuthorityInv, VerdictRight, Same
  <2> QED
    BY <1>2, <1>6, <1>7, <1>8, <2>1 DEF VerdictRight, Same
<1>12. NoEditRight'
  <2>1. ASSUME SinceBoot, disk # None, Covered(gov, disk, saving)
        PROVE  Covered(gov', disk, saving)
    <3>1. gov \in Governed /\ gov' \in Governed /\ Evolves(gov, gov') /\ disk \in Content
      BY <1>2, <1>4, <1>6, <1>8, <2>1, HeldNow DEF HeldTyped
    <3>2. saving.at = "write" => saving.what \in Content
      BY DEF AuthorityInv, TypeOK
    <3> QED
      BY <2>1, <3>1, <3>2, EvolvesCovered
  <2> QED
    BY <1>3, <1>7, <2>1 DEF AuthorityInv, NoEditRight
<1>13. EditRight'
  BY <1>2, <1>3, <1>6, <1>7, <1>8 DEF AuthorityInv, EditRight, Evolves, Clean
<1> QED
  BY <1>3, <1>4, <1>5, <1>7, <1>9, <1>10, <1>11, <1>12, <1>13 DEF AuthorityInv, HeldTyped

\* TimerFires: flush starts a write of the content as it is, or leaves what is under way.
LEMMA TimerFiresRight ==
    ASSUME AuthorityInv, NEW t \in Timers, TimerFires(t)
    PROVE  AuthorityInv'
<1> DEFINE T == gov.timers \ {t}
           g == [gov EXCEPT !.timers = T]
           h == Flush(g)
<1>1. /\ gov # None /\ t \in gov.timers /\ gov' = h
      /\ UNCHANGED <<bus, order, adopting, queued, edit, shared, stage, store, boot, crossed,
                     count>>
  BY DEF TimerFires
<1>2. gov \in Governed /\ GovRight(gov) /\ gov.timers \in SUBSET Timers
  BY <1>1, HeldNow, GovernedIs
<1>3. /\ g \in Governed /\ g.timers = T
      /\ g.content = gov.content /\ g.unflushed = gov.unflushed /\ g.dirty = gov.dirty
      /\ g.writing = gov.writing /\ g.written = gov.written /\ g.failing = gov.failing
  BY <1>2 DEF Governed
<1> HIDE DEF g
<1>4. \/ h = None /\ ~shared
      \/ /\ h \in Governed /\ GovRight(h)
         /\ h.content = gov.content /\ h.unflushed = gov.unflushed /\ h.failing = gov.failing
         /\ (h = g /\ (~g.dirty \/ g.writing # None)) \/ FlushStarts(g, h)
  <2>1. /\ g.written <= Len(g.unflushed)
        /\ ~g.dirty => IF g.writing = None THEN g.unflushed = << >>
                       ELSE g.written = Len(g.unflushed)
        /\ stage = "running" => ("retry" \in g.timers => g.timers = {"retry"})
    BY <1>1, <1>2, <1>3 DEF GovRight
  <2> QED
    BY <1>3, <2>1, FlushIs
<1> HIDE DEF h
<1>5. HeldTyped'
  BY <1>1, <1>4, GovMoves
<1>6. TypeOK' /\ CountRight'
  BY <1>1, <1>5 DEF HeldTyped, TypeOK, AuthorityInv, CountRight, store
<1>7. /\ SinceBoot' <=> SinceBoot
      /\ UNCHANGED <<saving, disk, known, watch>>
  BY <1>1 DEF SinceBoot, Governs, Baseline, store
<1>8. SinceBoot => gov' = h /\ h # None /\ h \in Governed
  BY <1>1, <1>4, GovernedIs DEF SinceBoot, Governs
<1>9. DrainedRight'
  BY <1>1, <1>3, <1>4 DEF AuthorityInv, DrainedRight, FlushStarts
<1>10. GovernedRight'
  BY <1>1, <1>7, <1>8 DEF AuthorityInv, GovernedRight
<1>11. VerdictRight'
  BY <1>1, <1>4, <1>7, <1>8 DEF AuthorityInv, VerdictRight
<1>12. NoEditRight'
  <2>1. ASSUME SinceBoot, Covered(gov, disk, saving)
        PROVE  Covered(gov', disk, saving)
    <3>1. CASE h = g
      BY <1>1, <1>3, <2>1, <3>1 DEF Covered, Rest
    <3>2. CASE FlushStarts(g, h)
      <4>1. h.writing = h.content /\ Within(h.content, h.content, Rest(h))
        BY <1>3, <1>4, <1>8, <2>1, <3>2 DEF FlushStarts, Within
      <4> QED
        BY <1>4, <1>8, <2>1, <4>1 DEF Covered
    <3> QED
      BY <1>4, <1>8, <2>1, <3>1, <3>2
  <2> QED
    BY <1>1, <1>7, <2>1 DEF AuthorityInv, NoEditRight
<1>13. EditRight'
  <2>1. SinceBoot => /\ (~gov'.dirty /\ gov'.writing = None) => Clean /\ gov'.content = gov.content
                     /\ gov'.content = gov.content
                     /\ gov'.writing # None /\ ~gov'.dirty =>
                            \/ gov'.writing = gov'.content
                            \/ gov'.writing = gov.writing /\ ~gov.dirty
    BY <1>1, <1>3, <1>4, <1>8, GovernedIs DEF FlushStarts, Clean
  <2> QED
    BY <1>1, <1>7, <2>1 DEF AuthorityInv, EditRight, Clean
<1> QED
  BY <1>1, <1>5, <1>6, <1>7, <1>9, <1>10, <1>11, <1>12, <1>13 DEF AuthorityInv, HeldTyped

\* WriteLands: the file has the content of when the write began, and what came since is
\* still owed.
LEMMA WriteLandsRight ==
    ASSUME AuthorityInv, WriteLands
    PROVE  AuthorityInv'
<1> DEFINE h == Landed(gov)
<1>1. /\ gov # None /\ gov.writing # None /\ saving.at = "no" /\ disk # None
      /\ gov' = h /\ crossed' = (crossed \/ (disk = gov.writing /\ disk # known))
      /\ UNCHANGED <<bus, order, adopting, queued, edit, shared, stage, saving, boot, count>>
      /\ IF disk = gov.writing THEN UNCHANGED <<disk, known, watch>> ELSE Writes(gov.writing)
  BY DEF WriteLands, Writing
<1>2. gov \in Governed /\ GovRight(gov) /\ gov.writing \in Content
  BY <1>1, HeldNow, GovernedIs
<1>3. \/ h = None /\ ~shared
      \/ /\ h \in Governed /\ GovRight(h)
         /\ h.content = gov.content /\ h.unflushed = Rest(gov) /\ h.dirty = gov.dirty
         /\ h.writing = None /\ ~h.failing
         /\ stage # "running" => h.timers = gov.timers
  BY <1>1, <1>2, LandedIs
<1> HIDE DEF h
<1>4. HeldTyped'
  BY <1>1, <1>3, GovMoves
<1>5. /\ disk' = gov.writing
      /\ known' = IF disk = gov.writing THEN known ELSE gov.writing
      /\ watch'.saw = watch.saw
      /\ disk' # disk => watch'.stirred
      /\ disk' = disk => watch' = watch
      /\ watch' \in [stirred : BOOLEAN, saw : Content \cup {None}]
  BY <1>1 DEF Writes, AuthorityInv, TypeOK
<1>6. TypeOK' /\ CountRight'
  BY <1>1, <1>2, <1>4, <1>5 DEF HeldTyped, TypeOK, AuthorityInv, CountRight
<1>7. SinceBoot' <=> SinceBoot
  BY <1>1 DEF SinceBoot, Governs, Baseline
<1>8. SinceBoot => gov' = h /\ h # None /\ h \in Governed
  BY <1>1, <1>3, GovernedIs DEF SinceBoot, Governs
<1>9. DrainedRight'
  BY <1>1, <1>3 DEF AuthorityInv, DrainedRight
<1>10. GovernedRight'
  BY <1>1, <1>7, <1>8 DEF AuthorityInv, GovernedRight
<1>11. VerdictRight'
  BY <1>1, <1>3, <1>7, <1>8 DEF AuthorityInv, VerdictRight
<1>12. NoEditRight'
  <2>1. ASSUME SinceBoot, Covered(gov, disk, saving)
        PROVE  Covered(gov', gov.writing, saving)
    <3>1. LastShown(Rest(gov), gov.content)
      BY <1>2, <2>1, RestShown DEF GovRight, Covered
    <3>2. Within(gov.writing, gov.content, Rest(gov))
      BY <1>1, <2>1 DEF Covered
    <3> QED
      BY <1>1, <1>3, <1>8, <2>1, <3>1, <3>2 DEF Covered
  <2> QED
    BY <1>1, <1>2, <1>5, <1>7, <2>1, GovernedIs DEF AuthorityInv, NoEditRight
<1>13. EditRight'
  <2>1. SinceBoot => gov'.content = gov.content /\ gov'.dirty = gov.dirty /\ gov'.writing = None
    BY <1>3, <1>8 DEF SinceBoot, Governs
  <2> QED
    BY <1>1, <1>5, <1>7, <2>1 DEF AuthorityInv, EditRight, Clean
<1> QED
  BY <1>1, <1>4, <1>6, <1>9, <1>10, <1>11, <1>12, <1>13 DEF AuthorityInv, HeldTyped

\* WriteFails: everything stays owed.
LEMMA WriteFailsRight ==
    ASSUME AuthorityInv, WriteFails
    PROVE  AuthorityInv'
<1> DEFINE h == Failed(gov)
<1>1. /\ gov # None /\ gov.writing # None /\ gov' = h
      /\ UNCHANGED <<bus, order, adopting, queued, edit, shared, stage, store, boot, crossed,
                     count>>
  BY DEF WriteFails, Writing
<1>2. /\ h \in Governed /\ GovRight(h)
      /\ h.content = gov.content /\ h.unflushed = gov.unflushed
      /\ h.dirty /\ h.writing = None /\ h.failing
      /\ stage # "running" => h.timers = {}
  BY <1>1, HeldNow, FailedIs
<1> HIDE DEF h
<1>3. HeldTyped'
  BY <1>1, <1>2, GovMoves
<1>4. TypeOK' /\ CountRight'
  BY <1>1, <1>3 DEF HeldTyped, TypeOK, AuthorityInv, CountRight, store
<1>5. /\ SinceBoot' <=> SinceBoot
      /\ UNCHANGED <<saving, disk, known, watch>>
  BY <1>1 DEF SinceBoot, Governs, Baseline, store
<1>6. gov' # None
  BY <1>1, <1>2, GovernedIs
<1>7. DrainedRight'
  BY <1>1, <1>2 DEF AuthorityInv, DrainedRight
<1>8. GovernedRight' /\ VerdictRight'
  BY <1>1, <1>2, <1>5, <1>6 DEF AuthorityInv, GovernedRight, VerdictRight
<1>9. NoEditRight'
  BY <1>1, <1>2, <1>5 DEF AuthorityInv, NoEditRight, Covered
<1>10. EditRight'
  BY <1>1, <1>2, <1>5 DEF AuthorityInv, EditRight, Clean
<1> QED
  BY <1>1, <1>3, <1>4, <1>5, <1>7, <1>8, <1>9, <1>10 DEF AuthorityInv, HeldTyped

\* AdoptionReads: only while nothing is governed, and before the last drain.
LEMMA AdoptionReadsRight ==
    ASSUME AuthorityInv, AdoptionReads
    PROVE  AuthorityInv'
<1>1. /\ adopting.at = "asked" /\ adopting' = [at |-> "read", saw |-> disk]
      /\ UNCHANGED <<bus, order, gov, queued, edit, shared, stage, disk, known, saving, watch,
                     boot, crossed, count>>
  BY DEF AdoptionReads, store
<1>2. TypeOK' /\ CountRight'
  BY <1>1 DEF TypeOK, AuthorityInv, CountRight
<1>3. ~SinceBoot /\ ~SinceBoot'
  BY <1>1 DEF AuthorityInv, GovernedRight, SinceBoot, Governs, Baseline
<1>4. /\ gov' # None => GovRight(gov)'
      /\ Fresh(bus.order, bus.seq)'
      /\ saving'.at # "no" => saving'.what # None
  BY <1>1 DEF AuthorityInv, GovRight, Fresh
<1>5. DrainedRight'
  BY <1>1 DEF AuthorityInv, DrainedRight
<1>6. GovernedRight' /\ VerdictRight' /\ NoEditRight' /\ EditRight'
  BY <1>1, <1>3 DEF AuthorityInv, GovernedRight, VerdictRight, NoEditRight, EditRight
<1> QED
  BY <1>2, <1>4, <1>5, <1>6 DEF AuthorityInv

\* An edit and a save that waited for an adoption go on with what it left.
LEMMA EditGoesOnIs ==
    ASSUME AuthorityInv, NEW s, HeldRight(s)
    PROVE  HeldRight(EditGoesOn(s)) /\ EditGoesOn(s).adopting = s.adopting
<1>1. edit \in Content \cup {None}
  BY DEF AuthorityInv, TypeOK
<1>2. CASE edit = None
  BY <1>2 DEF EditGoesOn
<1>3. CASE edit # None /\ s.gov # None /\ Governs
  <2>1. EditGoesOn(s) = TakeEdit(s, edit, FALSE)
    BY <1>3 DEF EditGoesOn
  <2> QED
    <3>1. edit \in Content /\ FALSE \in BOOLEAN
      BY <1>1, <1>3
    <3>2. known \in Content \cup {None} /\ shared \in BOOLEAN
      BY HeldNow
    <3>3. /\ HeldRight(TakeEdit(s, edit, FALSE))
          /\ TakeEdit(s, edit, FALSE).adopting = s.adopting
      BY <1>3, <3>1, <3>2, TakeEditIs
    <3> QED
      BY <2>1, <3>3
<1>4. CASE edit # None /\ ~(s.gov # None /\ Governs)
  <2>1. EditGoesOn(s) = [s EXCEPT !.bus.canvas = edit]
    BY <1>4 DEF EditGoesOn
  <2> QED
    <3> DEFINE t == [s EXCEPT !.bus.canvas = edit]
    <3>1. edit \in Content
      BY <1>1, <1>4
    <3>2. HeldRight(t) /\ t.adopting = s.adopting
      BY <3>1, WithCanvas
    <3> QED
      BY <2>1, <3>2
<1> QED
  BY <1>2, <1>3, <1>4

LEMMA SaveGoesOnIs ==
    ASSUME AuthorityInv, NEW s, HeldRight(s)
    PROVE  HeldRight(SaveGoesOn(s)) /\ SaveGoesOn(s).adopting = s.adopting
<1>1. saving.at = "wait" => saving.what \in Content
  BY DEF AuthorityInv, TypeOK
<1>2. CASE saving.at = "wait" /\ s.gov # None
  <2>1. SaveGoesOn(s) = OverlaySave(s, saving.what)
    BY <1>2 DEF SaveGoesOn
  <2> QED
    BY <1>1, <1>2, <2>1, OverlaySaveIs
<1>3. CASE ~(saving.at = "wait" /\ s.gov # None)
  BY <1>3 DEF SaveGoesOn
<1> QED
  BY <1>2, <1>3

\* AdoptionEnds: never of a project governed since the boot.
LEMMA AdoptionEndsRight ==
    ASSUME AuthorityInv, AdoptionEnds
    PROVE  AuthorityInv'
<1> DEFINE s1 == Install(Held, shared, adopting.saw)
           s2 == EditGoesOn(s1)
           s  == SaveGoesOn(s2)
<1>1. /\ adopting.at = "read" /\ Becomes(s) /\ edit' = None
      /\ saving' = IF saving.at # "wait" THEN saving
                   ELSE [at |-> "write", what |-> IF s.gov = None THEN saving.what
                                                  ELSE s.gov.content]
      /\ UNCHANGED <<shared, stage, disk, known, watch, boot, crossed, count>>
  BY DEF AdoptionEnds
<1>2. HeldRight(s1) /\ s1.adopting = NoAdoption
  <2>1. adopting.saw \in Content \cup {None}
    BY DEF AuthorityInv, TypeOK
  <2> QED
    BY <2>1, HeldNow, InstallIs
<1> HIDE DEF s1
<1>3. HeldRight(s2) /\ s2.adopting = NoAdoption
  BY <1>2, EditGoesOnIs
<1> HIDE DEF s2
<1>4. HeldRight(s) /\ s.adopting = NoAdoption
  BY <1>3, SaveGoesOnIs
<1> HIDE DEF s
<1>5. HeldTyped'
  BY <1>1, <1>4, BecomesRight
<1>6. /\ saving' \in [at : {"no", "wait", "write"}, what : Content \cup {None}]
      /\ saving'.at # "no" => saving'.what # None
      /\ saving'.at # "wait"
  <2>1. s.gov # None => s.gov.content \in Content
    <3>1. s.gov \in Governed \cup {None}
      BY <1>4, HeldFields DEF HeldRight
    <3> QED
      BY <3>1, GovernedIs
  <2> QED
    BY <1>1, <2>1, AuthorityAssumption DEF AuthorityInv, TypeOK
<1>7. TypeOK' /\ CountRight'
  BY <1>1, <1>5, <1>6 DEF HeldTyped, TypeOK, AuthorityInv, CountRight
<1>8. ~SinceBoot /\ ~SinceBoot'
  BY <1>1 DEF AuthorityInv, GovernedRight, SinceBoot, Governs, Baseline
<1>9. DrainedRight'
  BY <1>1 DEF AuthorityInv, DrainedRight
<1>10. GovernedRight' /\ VerdictRight' /\ NoEditRight' /\ EditRight'
  BY <1>1, <1>8 DEF AuthorityInv, GovernedRight, VerdictRight, NoEditRight, EditRight
<1> QED
  BY <1>5, <1>6, <1>7, <1>9, <1>10 DEF AuthorityInv, HeldTyped

\* SaveStarts: of a governed project the save writes what the authority holds.
LEMMA SaveStartsRight ==
    ASSUME AuthorityInv, NEW copy \in {Loaded, bus.canvas}, SaveStarts(copy)
    PROVE  AuthorityInv'
<1> DEFINE s == IF Governs THEN Adopt(Held, shared, known) ELSE Held
           t == IF Governs /\ s.gov # None THEN OverlaySave(s, copy) ELSE s
<1>1. /\ saving.at = "no" /\ stage = "running" /\ Becomes(t) /\ Count("saves")
      /\ saving' = IF ~Governs          THEN [at |-> "write", what |-> copy]
                   ELSE IF t.gov = None THEN [at |-> "wait", what |-> copy]
                   ELSE [at |-> "write", what |-> t.gov.content]
      /\ UNCHANGED <<edit, shared, stage, disk, known, watch, boot, crossed>>
  BY DEF SaveStarts
<1>2. copy \in Content
  BY AuthorityAssumption DEF AuthorityInv, TypeOK
<1>3. /\ HeldRight(s) /\ s.bus = bus /\ s.order = order
      /\ gov # None => s.gov = gov /\ s.adopting = adopting
  <2>1. CASE Governs
    BY <2>1, HeldNow, AdoptIs
  <2>2. CASE ~Governs
    BY <2>2, HeldNow
  <2> QED
    BY <2>1, <2>2
<1> HIDE DEF s
<1>4. /\ HeldRight(t) /\ t.bus = bus /\ t.order = order
      /\ Governs /\ gov # None => /\ t.gov # None /\ Evolves(gov, t.gov)
                                  /\ t.adopting = adopting
                                  /\ TooLarge = {} => t.gov = gov
  <2>1. CASE Governs /\ s.gov # None
    BY <1>2, <1>3, <2>1, OverlaySaveIs
  <2>2. CASE ~(Governs /\ s.gov # None)
    BY <1>3, <2>2
  <2> QED
    BY <2>1, <2>2
<1> HIDE DEF t
<1>5. HeldTyped'
  BY <1>1, <1>4, BecomesRight
<1>6. gov' = t.gov /\ adopting' = t.adopting /\ order' = order /\ bus' = bus
  BY <1>1, <1>4 DEF Becomes
<1>7. /\ saving' \in [at : {"no", "wait", "write"}, what : Content \cup {None}]
      /\ saving'.what # None
      /\ Governs /\ gov # None => saving'.at = "write" /\ saving'.what = gov'.content
  <2>1. t.gov # None => t.gov.content \in Content
    BY <1>5, <1>6, GovernedIs DEF HeldTyped
  <2> QED
    BY <1>1, <1>2, <1>4, <1>6, <2>1, AuthorityAssumption
<1>8. TypeOK' /\ CountRight'
  BY <1>1, <1>5, <1>7, CountIs DEF HeldTyped, TypeOK, AuthorityInv
<1>9. /\ count'.shares = count.shares /\ count'.edits = count.edits
      /\ SinceBoot' <=> SinceBoot
  BY <1>1, CountIs DEF AuthorityInv, SinceBoot, Governs, Baseline
<1>10. SinceBoot => gov # None /\ Governs /\ gov \in Governed /\ gov' \in Governed
  BY <1>4, <1>5, <1>6, HeldNow DEF AuthorityInv, GovernedRight, SinceBoot, HeldTyped
<1>11. DrainedRight'
  BY <1>1 DEF DrainedRight
<1>12. GovernedRight'
  BY <1>4, <1>6, <1>7, <1>9, <1>10 DEF AuthorityInv, GovernedRight
<1>13. VerdictRight'
  BY <1>4, <1>6, <1>9, <1>10 DEF AuthorityInv, VerdictRight
<1>14. NoEditRight'
  <2>1. ASSUME SinceBoot, disk # None, Covered(gov, disk, saving)
        PROVE  Covered(gov', disk, saving')
    <3>1. Covered(gov', disk, saving)
      BY <1>1, <1>4, <1>6, <1>10, <2>1, HeldNow, EvolvesCovered
    <3>2. Within(saving'.what, gov'.content, gov'.unflushed)
      BY <1>7, <1>10, <2>1 DEF Within
    <3> QED
      BY <3>1, <3>2 DEF Covered
  <2> QED
    BY <1>1, <1>9, <2>1 DEF AuthorityInv, NoEditRight
<1>15. EditRight'
  BY <1>1, <1>4, <1>6, <1>7, <1>9, <1>10 DEF AuthorityInv, EditRight, Clean, Evolves
<1> QED
  BY <1>5, <1>7, <1>8, <1>11, <1>12, <1>13, <1>14, <1>15 DEF AuthorityInv, HeldTyped

\* SaveEnds: what a save of a governed project leaves on disk is covered, and is the content
\* when nothing is owed.
LEMMA SaveEndsRight ==
    ASSUME AuthorityInv, NEW landed \in BOOLEAN, SaveEnds(landed)
    PROVE  AuthorityInv'
<1>1. /\ saving.at = "write" /\ saving' = NoSave
      /\ UNCHANGED <<bus, order, gov, adopting, queued, edit, shared, stage, boot, crossed,
                     count>>
      /\ \/ UNCHANGED <<disk, known, watch>>
         \/ Writes(saving.what)
  BY DEF SaveEnds, held
<1>2. saving.what \in Content
  BY <1>1 DEF AuthorityInv, TypeOK
<1>3. /\ (disk' = disk /\ known' = known) \/ (disk' = saving.what /\ known' = saving.what)
      /\ watch'.saw = watch.saw /\ (watch.stirred => watch'.stirred)
      /\ watch' \in [stirred : BOOLEAN, saw : Content \cup {None}]
  BY <1>1 DEF Writes, AuthorityInv, TypeOK
<1>4. HeldTyped'
  BY <1>1, GovMoves, HeldNow
<1>5. /\ saving'.at = "no"
      /\ saving' \in [at : {"no", "wait", "write"}, what : Content \cup {None}]
  BY <1>1 DEF NoSave
<1>6. TypeOK' /\ CountRight'
  BY <1>1, <1>2, <1>3, <1>4, <1>5 DEF HeldTyped, TypeOK, AuthorityInv, CountRight
<1>7. SinceBoot' <=> SinceBoot
  BY <1>1 DEF SinceBoot, Governs, Baseline
<1>8. DrainedRight'
  BY <1>1 DEF AuthorityInv, DrainedRight
<1>9. GovernedRight' /\ VerdictRight'
  BY <1>1, <1>5, <1>7 DEF AuthorityInv, GovernedRight, VerdictRight
<1>10. NoEditRight'
  <2>1. ASSUME Covered(gov, disk, saving)
        PROVE  Covered(gov, disk', saving')
    BY <1>1, <1>3, <1>5, <2>1 DEF Covered
  <2> QED
    BY <1>1, <1>2, <1>3, <1>7, <2>1, HeldNow, AuthorityAssumption DEF AuthorityInv, NoEditRight
<1>11. EditRight'
  <2>1. Clean' <=> Clean
    BY <1>1 DEF Clean
  <2> QED
    BY <1>1, <1>3, <1>5, <1>7, <2>1 DEF AuthorityInv, EditRight
<1> QED
  BY <1>4, <1>5, <1>6, <1>8, <1>9, <1>10, <1>11 DEF AuthorityInv, HeldTyped

\* OutsideEdit: the watcher is on its way to it.
LEMMA OutsideEditRight ==
    ASSUME AuthorityInv, NEW content \in Content \cup {None}, OutsideEdit(content)
    PROVE  AuthorityInv'
<1>1. /\ disk' = content /\ watch' = [watch EXCEPT !.stirred = TRUE] /\ Count("edits")
      /\ UNCHANGED <<bus, order, gov, adopting, queued, edit, shared, stage, known, saving,
                     boot, crossed>>
  BY DEF OutsideEdit, held
<1>2. watch'.stirred /\ watch' \in [stirred : BOOLEAN, saw : Content \cup {None}]
  BY <1>1 DEF AuthorityInv, TypeOK
<1>3. CountRight' /\ count'.shares = count.shares /\ count'.edits # 0
  BY <1>1, CountIs DEF AuthorityInv
<1>4. HeldTyped'
  BY <1>1, GovMoves, HeldNow
<1>5. TypeOK'
  BY <1>1, <1>2, <1>4 DEF HeldTyped, TypeOK, AuthorityInv
<1>6. SinceBoot' <=> SinceBoot
  BY <1>1, <1>3 DEF SinceBoot, Governs, Baseline
<1>7. DrainedRight' /\ GovernedRight' /\ VerdictRight'
  BY <1>1, <1>6 DEF AuthorityInv, DrainedRight, GovernedRight, VerdictRight
<1>8. NoEditRight'
  BY <1>3 DEF NoEditRight
<1>9. EditRight'
  BY <1>1, <1>2, <1>6 DEF AuthorityInv, EditRight, Clean
<1> QED
  BY <1>1, <1>3, <1>4, <1>5, <1>7, <1>8, <1>9 DEF AuthorityInv, HeldTyped

\* WatcherLooks: what is not our own write is read.
LEMMA WatcherLooksRight ==
    ASSUME AuthorityInv, WatcherLooks
    PROVE  AuthorityInv'
<1>1. /\ watch' = [stirred |-> FALSE, saw |-> IF disk = known THEN None ELSE disk]
      /\ UNCHANGED <<bus, order, gov, adopting, queued, edit, shared, stage, disk, known,
                     saving, boot, crossed, count>>
  BY DEF WatcherLooks, held
<1>2. HeldTyped'
  BY <1>1, GovMoves, HeldNow
<1>3. /\ watch' \in [stirred : BOOLEAN, saw : Content \cup {None}]
      /\ watch'.saw = IF disk = known THEN None ELSE disk
  BY <1>1 DEF AuthorityInv, TypeOK
<1>4. TypeOK' /\ CountRight'
  BY <1>1, <1>2, <1>3 DEF HeldTyped, TypeOK, AuthorityInv, CountRight
<1>5. SinceBoot' <=> SinceBoot
  BY <1>1 DEF SinceBoot, Governs, Baseline
<1>6. DrainedRight' /\ GovernedRight' /\ VerdictRight'
  BY <1>1, <1>5 DEF AuthorityInv, DrainedRight, GovernedRight, VerdictRight
<1>7. NoEditRight'
  BY <1>1, <1>3, <1>5 DEF AuthorityInv, NoEditRight
<1>8. EditRight'
  BY <1>1, <1>3, <1>5 DEF AuthorityInv, EditRight, Clean
<1> QED
  BY <1>1, <1>2, <1>4, <1>6, <1>7, <1>8 DEF AuthorityInv, HeldTyped

\* WatcherHandsOver: an edit of a project governed since the boot becomes its content, with
\* the unflushed ops on top, and they are owed again.
LEMMA WatcherHandsOverRight ==
    ASSUME AuthorityInv, WatcherHandsOver
    PROVE  AuthorityInv'
<1> DEFINE e == watch.saw
           s == Adopt(Held, shared, e)
           t == TakeEdit(s, e, gov # None)
           u == [Held EXCEPT !.bus.canvas = e]
<1>1. /\ e # None /\ known' = e /\ watch' = [watch EXCEPT !.saw = None]
      /\ UNCHANGED <<shared, stage, disk, saving, boot, count>>
      /\ crossed' = \/ crossed \/ saving.at # "no" \/ disk # watch.saw
                    \/ gov # None /\ gov.writing # None /\ gov.unflushed = << >>
      /\ IF ~Governs THEN Becomes(u) /\ edit' = edit
         ELSE IF s.gov # None THEN Becomes(t) /\ edit' = edit
         ELSE Becomes(s) /\ edit' = e
  BY DEF WatcherHandsOver
<1>2. /\ e \in Content /\ shared \in BOOLEAN /\ known \in Content \cup {None}
      /\ watch' \in [stirred : BOOLEAN, saw : Content \cup {None}]
      /\ edit \in Content \cup {None}
  BY <1>1 DEF AuthorityInv, TypeOK
<1> HIDE DEF e
<1>3. /\ HeldRight(s) /\ s.bus = bus /\ s.order = order
      /\ gov # None => s = Held
  <2>1. e \in Content \cup {None}
    BY <1>2
  <2> QED
    BY <1>2, <2>1, HeldNow, AdoptIs
<1> HIDE DEF s
<1>4. HeldRight(u)
  BY <1>2, HeldNow, WithCanvas
<1>5. u.adopting = adopting /\ u.gov = gov
  BY <1>2, HeldNow, WithCanvas
<1> HIDE DEF u
<1>6. s.gov # None =>
          /\ HeldRight(t) /\ t.gov # None /\ t.adopting = s.adopting
          /\ t.gov.content = Replay(s.gov.unflushed, e)
          /\ t.gov.unflushed = s.gov.unflushed /\ t.gov.writing = s.gov.writing
          /\ s.gov.unflushed # << >> => t.gov.dirty
          /\ s.gov.unflushed = << >> => t.gov.dirty = s.gov.dirty
          /\ Governs /\ TooLarge = {} /\ Same(s) => Same(t)
  <2>1. (gov # None) \in BOOLEAN
    OBVIOUS
  <2> QED
    BY <1>2, <1>3, <2>1, TakeEditIs
<1> HIDE DEF t
<1>7. HeldTyped'
  <2>1. CASE ~Governs
    BY <1>1, <1>4, <2>1, BecomesRight
  <2>2. CASE Governs /\ s.gov # None
    BY <1>1, <1>6, <2>2, BecomesRight
  <2>3. CASE Governs /\ s.gov = None
    BY <1>1, <1>3, <2>3, BecomesRight
  <2> QED
    BY <2>1, <2>2, <2>3
<1>8. TypeOK' /\ CountRight'
  BY <1>1, <1>2, <1>7 DEF HeldTyped, TypeOK, AuthorityInv, CountRight
<1>9. SinceBoot' <=> SinceBoot
  BY <1>1 DEF SinceBoot, Governs, Baseline
<1>10. ASSUME SinceBoot
       PROVE  /\ gov # None /\ s = Held /\ gov' = t.gov /\ adopting' = adopting
              /\ order' = t.order /\ bus' = t.bus /\ gov \in Governed
  <2>1. Governs /\ gov # None
    BY <1>10 DEF AuthorityInv, GovernedRight, SinceBoot
  <2> QED
    BY <1>1, <1>3, <1>6, <2>1, HeldNow DEF Becomes
<1>11. DrainedRight'
  <2>1. stage \in {"flushing", "stopped"} => gov' = gov /\ adopting' = adopting
    BY <1>1, <1>5 DEF Governs, Becomes
  <2> QED
    BY <1>1, <2>1 DEF AuthorityInv, DrainedRight
<1>12. GovernedRight'
  BY <1>1, <1>6, <1>9, <1>10, HeldNow DEF AuthorityInv, GovernedRight
<1>13. VerdictRight'
  <2>1. SinceBoot /\ TooLarge = {} => Same(Held)
    BY HeldNow DEF AuthorityInv, VerdictRight, Same
  <2> QED
    BY <1>6, <1>9, <1>10, <2>1, HeldNow DEF VerdictRight, Same, SinceBoot
<1>14. NoEditRight'
  BY <1>1 DEF AuthorityInv, NoEditRight, e
<1>15. EditRight'
  <2>1. SUFFICES ASSUME SinceBoot, ~crossed'
                 PROVE  /\ Clean' => /\ known' = gov'.content
                                     /\ saving'.at = "write" => saving'.what = gov'.content
                        /\ gov'.writing # None /\ ~gov'.dirty => gov'.writing = gov'.content
                        /\ disk' \notin {known', None} => watch'.stirred \/ watch'.saw # None
    BY <1>9 DEF EditRight
  <2>2. /\ saving.at = "no" /\ disk = e /\ (gov.writing = None \/ gov.unflushed # << >>)
    BY <1>1, <1>10, <2>1 DEF e
  <2>3. gov'.dirty \/ gov.unflushed = << >>
    BY <1>6, <1>10, <2>1, HeldNow
  <2>4. gov.unflushed = << >> => gov'.content = e
    <3>1. gov.unflushed = << >> => Replay(gov.unflushed, e) = e
      <4>1. << >> \in Seq(Change) /\ DOMAIN << >> = {}
        BY EmptySeq
      <4>2. Within(e, e, << >>) /\ LastShown(<< >>, e)
        BY <4>1 DEF Within, LastShown
      <4> QED
        BY <1>2, <4>1, <4>2, ReplayMakes
    <3> QED
      BY <1>6, <1>10, <2>1, <3>1, HeldNow
  <2>5. gov'.writing = gov.writing
    BY <1>6, <1>10, <2>1, HeldNow
  <2> QED
    BY <1>1, <2>2, <2>3, <2>4, <2>5 DEF Clean
<1> QED
  BY <1>1, <1>7, <1>8, <1>11, <1>12, <1>13, <1>14, <1>15 DEF AuthorityInv, HeldTyped

\* SharedChanged: a project unshared once is not one that was governed since the boot.
LEMMA SharedChangedRight ==
    ASSUME AuthorityInv, SharedChanged
    PROVE  AuthorityInv'
<1> DEFINE g == IF gov = None \/ gov.writing # None THEN gov
                ELSE IF ~gov.dirty THEN None ELSE Flush(gov)
           s == Adopt(Held, TRUE, known)
<1>1. /\ stage = "running" /\ shared' = ~shared /\ Count("shares")
      /\ IF shared THEN gov' = g /\ UNCHANGED <<bus, order, adopting, queued>>
                   ELSE Becomes(s)
      /\ UNCHANGED <<edit, stage, disk, known, saving, watch, boot, crossed>>
  BY DEF SharedChanged, store
<1>2. g = None \/ (g \in Governed /\ GovRight(g))
  <2>1. CASE gov = None \/ gov.writing # None \/ ~gov.dirty
    BY <2>1, HeldNow
  <2>2. CASE gov # None /\ gov.writing = None /\ gov.dirty
    <3>1. gov \in Governed /\ GovRight(gov)
      BY <2>2, HeldNow
    <3>2. /\ gov.written <= Len(gov.unflushed)
          /\ ~gov.dirty => IF gov.writing = None THEN gov.unflushed = << >>
                           ELSE gov.written = Len(gov.unflushed)
          /\ stage = "running" => ("retry" \in gov.timers => gov.timers = {"retry"})
      BY <3>1 DEF GovRight
    <3>3. Flush(gov) = None \/ (Flush(gov) \in Governed /\ GovRight(Flush(gov)))
      BY <3>1, <3>2, FlushIs
    <3> QED
      BY <2>2, <3>3
  <2> QED
    BY <2>1, <2>2
<1> HIDE DEF g
<1>3. HeldRight(s)
  BY HeldNow, AdoptIs
<1> HIDE DEF s
<1>4. HeldTyped'
  BY <1>1, <1>2, <1>3, GovMoves, BecomesRight
<1>5. CountRight' /\ count'.shares # 0 /\ count'.edits = count.edits
  BY <1>1, CountIs DEF AuthorityInv
<1>6. TypeOK'
  BY <1>1, <1>4 DEF HeldTyped, TypeOK, AuthorityInv
<1>7. ~SinceBoot'
  BY <1>5 DEF SinceBoot, Baseline
<1>8. DrainedRight'
  BY <1>1 DEF DrainedRight
<1>9. GovernedRight' /\ VerdictRight' /\ NoEditRight' /\ EditRight'
  BY <1>1, <1>5, <1>7 DEF AuthorityInv, GovernedRight, VerdictRight, NoEditRight, EditRight
<1> QED
  BY <1>1, <1>4, <1>5, <1>6, <1>8, <1>9 DEF AuthorityInv, HeldTyped

\* Stopping, the authority governs nothing; what it holds drains.
LEMMA StageRight ==
    ASSUME AuthorityInv, stage' # "running", stage' \in {"stopping", "flushing", "stopped"},
           gov' = None \/ (gov' \in Governed /\ GovRight(gov')),
           UNCHANGED <<bus, order, adopting, queued, edit, shared, store, boot, crossed,
                       count>>,
           DrainedRight'
    PROVE  AuthorityInv'
<1>1. HeldTyped'
  BY GovMoves
<1>2. TypeOK' /\ CountRight'
  BY <1>1 DEF HeldTyped, TypeOK, AuthorityInv, CountRight, store
<1>3. ~SinceBoot'
  BY DEF SinceBoot, Governs
<1>4. GovernedRight' /\ VerdictRight' /\ NoEditRight' /\ EditRight'
  BY <1>3 DEF AuthorityInv, GovernedRight, VerdictRight, NoEditRight, EditRight, store
<1> QED
  BY <1>1, <1>2, <1>4 DEF AuthorityInv, HeldTyped, store

LEMMA StopBeginsRight ==
    ASSUME AuthorityInv, StopBegins
    PROVE  AuthorityInv'
<1>1. /\ stage' = "stopping" /\ gov' = gov
      /\ UNCHANGED <<bus, order, adopting, queued, edit, shared, store, boot, crossed, count>>
  BY DEF StopBegins, held
<1>2. DrainedRight'
  BY <1>1 DEF DrainedRight
<1> QED
  BY <1>1, <1>2, HeldNow, StageRight

\* Drains: what is still dirty is written, so that nothing dirty is left beside it.
LEMMA DrainsRight ==
    ASSUME AuthorityInv, Drains
    PROVE  AuthorityInv'
<1>1. /\ adopting.at = "no" /\ (gov # None => gov.writing = None) /\ stage' = "flushing"
      /\ gov' = IF gov # None /\ gov.dirty THEN Flush(gov) ELSE gov
      /\ UNCHANGED <<bus, order, adopting, queued, edit, shared, store, boot, crossed, count>>
  BY DEF Drains
<1>2. CASE gov # None /\ gov.dirty
  <2> DEFINE h == Flush(gov)
  <2>1. gov \in Governed /\ GovRight(gov)
    BY <1>2, HeldNow
  <2>2. /\ gov.written <= Len(gov.unflushed)
        /\ ~gov.dirty => IF gov.writing = None THEN gov.unflushed = << >>
                         ELSE gov.written = Len(gov.unflushed)
        /\ stage = "running" => ("retry" \in gov.timers => gov.timers = {"retry"})
    BY <2>1 DEF GovRight
  <2>3. h \in Governed /\ GovRight(h) /\ ~h.dirty
    BY <1>1, <1>2, <2>1, <2>2, FlushIs DEF FlushStarts
  <2> HIDE DEF h
  <2>4. gov' = h
    BY <1>1, <1>2 DEF h
  <2>5. DrainedRight'
    BY <1>1, <2>3, <2>4 DEF DrainedRight
  <2> QED
    BY <1>1, <2>3, <2>4, <2>5, StageRight
<1>3. CASE ~(gov # None /\ gov.dirty)
  <2>1. gov' = gov
    BY <1>1, <1>3
  <2>2. DrainedRight'
    BY <1>1, <1>3, <2>1 DEF DrainedRight
  <2> QED
    BY <1>1, <2>1, <2>2, HeldNow, StageRight
<1> QED
  BY <1>2, <1>3

LEMMA StopsRight ==
    ASSUME AuthorityInv, Stops
    PROVE  AuthorityInv'
<1> DEFINE g == [gov EXCEPT !.timers = {}]
<1>1. /\ stage = "flushing" /\ (gov # None => gov.writing = None) /\ stage' = "stopped"
      /\ gov' = IF gov = None THEN None ELSE g
      /\ UNCHANGED <<bus, order, adopting, queued, edit, shared, store, boot, crossed, count>>
  BY DEF Stops
<1>2. gov # None => /\ g \in Governed /\ g.timers = {} /\ g.content = gov.content
                    /\ g.unflushed = gov.unflushed /\ g.dirty = gov.dirty
                    /\ g.writing = gov.writing /\ g.written = gov.written
                    /\ g.failing = gov.failing
  BY HeldNow DEF Governed
<1> HIDE DEF g
<1>3. gov # None => GovRight(g)
  BY <1>1, <1>2, HeldNow DEF GovRight
<1>4. DrainedRight'
  BY <1>1, <1>2 DEF AuthorityInv, DrainedRight
<1> QED
  BY <1>1, <1>2, <1>3, <1>4, StageRight

\* A boot governs a shared project whose file was read, as every client shows it.
LEMMA InitRight == Init => AuthorityInv
<1> SUFFICES ASSUME Init PROVE AuthorityInv
  OBVIOUS
<1> DEFINE none == [bus      |-> [seq |-> 0, order |-> NewOrder, canvas |-> Loaded],
                    order    |-> NewOrder, gov |-> None, adopting |-> NoAdoption,
                    queued   |-> << >>]
           s == IF shared THEN Adopt(none, shared, known) ELSE none
<1>1. /\ shared \in BOOLEAN /\ disk \in {Loaded, None} /\ known = disk /\ boot = disk
      /\ crossed = FALSE /\ edit = None /\ stage = "running" /\ saving = NoSave
      /\ watch = [stirred |-> FALSE, saw |-> None]
      /\ count = [ops |-> 0, edits |-> 0, shares |-> 0, saves |-> 0]
      /\ bus = s.bus /\ order = s.order /\ gov = s.gov /\ adopting = s.adopting
      /\ queued = s.queued
  BY DEF Init
<1>2. Loaded \in Content /\ Loaded # None /\ NewOrder \in Order
  BY AuthorityAssumption, NewOrderType
<1>3. /\ none \in HeldState /\ none.gov = None /\ none.bus.seq = 0
      /\ none.bus.order = NewOrder /\ none.order = NewOrder /\ none.bus.canvas = Loaded
      /\ none.adopting = NoAdoption /\ none.queued = << >> /\ none.adopting.at = "no"
  BY <1>2, EmptySeq DEF HeldState, NoAdoption
<1> HIDE DEF none
<1>4. Fresh(NewOrder, 0)
  BY DEF Fresh, NewOrder
<1>5. HeldRight(none)
  BY <1>3, <1>4 DEF HeldRight
<1>6. /\ HeldRight(s) /\ s.bus = none.bus /\ s.order = none.order
      /\ shared /\ known # None =>
             /\ s.gov # None /\ s.adopting = NoAdoption /\ s.gov.content = known
             /\ s.gov.unflushed = << >> /\ ~s.gov.dirty /\ s.gov.writing = None
  <2>1. CASE shared /\ known # None
    <3> DEFINE t == Install(none, TRUE, known)
    <3>1. s = t
      <4>1. shared = TRUE
        BY <1>1, <2>1
      <4> QED
        BY <1>3, <2>1, <4>1 DEF Adopt
    <3>2. known \in Content \cup {None} /\ TRUE \in BOOLEAN
      BY <1>1, <1>2
    <3>3. /\ HeldRight(t) /\ t.bus = none.bus /\ t.order = none.order
          /\ t.adopting = NoAdoption
          /\ t.gov # None <=> TRUE /\ known # None
          /\ TRUE /\ known # None /\ none.queued = << >> =>
                 /\ t.gov.content = known /\ t.gov.unflushed = << >>
                 /\ ~t.gov.dirty /\ t.gov.writing = None
      BY ONLY <1>5, <3>2, InstallIs
    <3> HIDE DEF t, s
    <3> QED
      BY <1>3, <2>1, <3>1, <3>3
  <2>2. CASE shared /\ known = None
    <3>1. known \in Content \cup {None}
      BY <2>2
    <3> QED
      BY <1>1, <1>5, <2>2, <3>1, AdoptIs
  <2>3. CASE ~shared
    BY <1>5, <2>3
  <2> QED
    BY <2>1, <2>2, <2>3
<1> HIDE DEF s
<1>7. HeldTyped
  <2>1. s \in HeldState /\ (s.gov # None => GovRight(s.gov)) /\ Fresh(s.bus.order, s.bus.seq)
    BY <1>6 DEF HeldRight
  <2> QED
    BY <1>1, <2>1, HeldFields DEF HeldTyped
<1>8. TypeOK /\ CountRight /\ saving.at = "no"
  BY <1>1, <1>2, <1>7 DEF HeldTyped, TypeOK, CountRight, NoSave
<1>9. SinceBoot => shared /\ known # None /\ known = Loaded
  BY <1>1 DEF SinceBoot, Governs, Baseline
<1>10. DrainedRight /\ GovernedRight /\ VerdictRight
  BY <1>1, <1>3, <1>6, <1>8, <1>9 DEF DrainedRight, GovernedRight, VerdictRight, NoAdoption
<1>11. NoEditRight
  <2>1. ASSUME SinceBoot PROVE Covered(gov, disk, saving)
    <3>1. gov.content = disk /\ gov.unflushed = << >> /\ gov.writing = None
      BY <1>1, <1>6, <1>9, <2>1
    <3>2. Within(gov.content, gov.content, gov.unflushed)
      BY DEF Within
    <3>3. DOMAIN << >> = {}
      BY EmptySeq
    <3>4. LastShown(gov.unflushed, gov.content)
      BY <3>1, <3>3 DEF LastShown
    <3> QED
      BY <1>8, <3>1, <3>2, <3>4 DEF Covered
  <2> QED
    BY <1>1, <2>1 DEF NoEditRight
<1>12. EditRight
  BY <1>1, <1>6, <1>8, <1>9 DEF EditRight, Clean
<1> QED
  BY <1>7, <1>8, <1>10, <1>11, <1>12 DEF AuthorityInv, HeldTyped

LEMMA NextRight == AuthorityInv /\ [Next]_vars => AuthorityInv'
<1> SUFFICES ASSUME AuthorityInv, [Next]_vars PROVE AuthorityInv'
  OBVIOUS
<1>1. CASE UNCHANGED vars
  <2>1. /\ UNCHANGED <<bus, order, gov, adopting, queued, edit, shared, stage, disk, known,
                       saving, watch, boot, crossed, count>>
    BY <1>1 DEF vars, held, store
  <2> QED
    BY <2>1 DEF AuthorityInv, TypeOK, CountRight, GovRight, DrainedRight, Fresh,
                GovernedRight, VerdictRight, NoEditRight, EditRight, SinceBoot, Governs,
                Baseline, Clean
<1>2. ASSUME NEW k \in Key, NEW v \in Val \cup {Absent}, NEW seen \in 0 .. bus.seq,
             ClientCasts(k, v, seen)
      PROVE  AuthorityInv'
  BY <1>2, ClientCastsRight
<1>3. ASSUME NEW t \in Timers, TimerFires(t) PROVE AuthorityInv'
  BY <1>3, TimerFiresRight
<1>4. CASE WriteLands
  BY <1>4, WriteLandsRight
<1>5. CASE WriteFails
  BY <1>5, WriteFailsRight
<1>6. CASE AdoptionReads
  BY <1>6, AdoptionReadsRight
<1>7. CASE AdoptionEnds
  BY <1>7, AdoptionEndsRight
<1>8. ASSUME NEW copy \in {Loaded, bus.canvas}, SaveStarts(copy) PROVE AuthorityInv'
  BY <1>8, SaveStartsRight
<1>9. ASSUME NEW landed \in BOOLEAN, SaveEnds(landed) PROVE AuthorityInv'
  BY <1>9, SaveEndsRight
<1>10. ASSUME NEW content \in Content \cup {None}, OutsideEdit(content) PROVE AuthorityInv'
  BY <1>10, OutsideEditRight
<1>11. CASE WatcherLooks
  BY <1>11, WatcherLooksRight
<1>12. CASE WatcherHandsOver
  BY <1>12, WatcherHandsOverRight
<1>13. CASE SharedChanged
  BY <1>13, SharedChangedRight
<1>14. CASE StopBegins
  BY <1>14, StopBeginsRight
<1>15. CASE Drains
  BY <1>15, DrainsRight
<1>16. CASE Stops
  BY <1>16, StopsRight
<1> QED
  BY <1>1, <1>2, <1>3, <1>4, <1>5, <1>6, <1>7, <1>8, <1>9, <1>10, <1>11, <1>12, <1>13,
     <1>14, <1>15, <1>16 DEF Next

\* The invariant holds at every moment, of the boot and of every step.
THEOREM AuthorityAlways == Spec => []AuthorityInv
  BY InitRight, NextRight, PTL DEF Spec

-------------------------------------------------------------------------------
(* What it says.                                                               *)

\* The state of canvas-authority.ts and of what it works with is what TypeOK says, for any
\* keys, values and bounds.
THEOREM TypeCorrect == Spec => []TypeOK
<1>1. AuthorityInv => TypeOK
  BY DEF AuthorityInv
<1> QED
  BY <1>1, AuthorityAlways, PTL

\* "while a retry is pending, the backoff owns the next attempt" and "after writing what is
\* pending": what is owed has a write or a timer until the stop, and a stop whose last write
\* landed leaves nothing unwritten.
THEOREM OnItsWay == Spec => []OwedIsOnItsWay
<1>1. AuthorityInv => OwedIsOnItsWay
  <2>1. AuthorityInv => WakesUp
    BY DEF AuthorityInv, GovRight, WakesUp
  <2>2. AuthorityInv => StopLosesNothing
    BY DEF AuthorityInv, GovRight, DrainedRight, StopLosesNothing
  <2> QED
    BY <2>1, <2>2 DEF OwedIsOnItsWay
<1> QED
  BY <1>1, AuthorityAlways, PTL

\* Rule 3, "only a write that landed retires an op", whatever ops are oversized: all that
\* the file lacks of the content is unflushed while nobody else edits it.
THEOREM FlushLosesNothing == Spec => []UnflushedCovers
<1>1. AuthorityInv => UnflushedCovers
  <2> SUFFICES ASSUME AuthorityInv, Governs, Baseline, count.edits = 0
               PROVE  Replay(gov.unflushed, disk) = gov.content
    BY DEF UnflushedCovers
  <2>1. gov # None /\ disk # None /\ Covered(gov, disk, saving)
    BY DEF AuthorityInv, GovernedRight, NoEditRight, SinceBoot, Baseline
  <2>2. gov \in Governed /\ disk \in Content
    BY <2>1, HeldNow
  <2>3. gov.unflushed \in Seq(Change) /\ gov.content \in Content
    BY <2>2, GovernedIs
  <2>4. Within(disk, gov.content, gov.unflushed) /\ LastShown(gov.unflushed, gov.content)
    BY <2>1 DEF Covered
  <2> QED
    BY <2>2, <2>3, <2>4, ReplayMakes
<1> QED
  BY <1>1, AuthorityAlways, PTL

\* "The same verdicts every client reaches": where every value fits an op, no op is lost
\* between a tab and the disk.
THEOREM LosesNoOp == ASSUME TooLarge = {} PROVE Spec => []NoOpIsLost
<1>1. AuthorityInv => ContentIsVerdict
  BY DEF AuthorityInv, VerdictRight, ContentIsVerdict, SinceBoot
<1> QED
  BY <1>1, AuthorityAlways, FlushLosesNothing, PTL DEF NoOpIsLost

\* Once all is written and read, and no write crossed an edit, the file, the authority and
\* the tabs agree, where every value fits an op.
THEOREM AgreeInTheEnd == ASSUME TooLarge = {} PROVE Spec => []Agreement
<1>1. AuthorityInv => Agreement
  BY DEF AuthorityInv, VerdictRight, EditRight, Agreement, SinceBoot, Clean, Quiet
<1> QED
  BY <1>1, AuthorityAlways, PTL
===============================================================================
