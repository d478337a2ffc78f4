----------------------------- MODULE ServicesProofs -----------------------------
(* The services of the core process that wait on somebody else, each on its own: the spawn
   gate, the hosted listener, the request coordinator, the session host, the triggers.   *)
EXTENDS MCServices, IndexLemmas, SequenceTheorems, FiniteSetTheorems, TLAPS

-------------------------------------------------------------------------------
(* The spawn gate, for every number of terminals and every limit: permits are what is
   opening, nobody who waits is forgotten, and on-screen terminals go first.          *)

\* The inductive invariant: a permit is counted as long as it is held, and the queue is
\* those who wait, so that a hand-over takes its permit to somebody who has none.
GateInv == GateTypeOK /\ QueueIsTheWaiting /\ PermitsHeld

-------------------------------------------------------------------------------
(* Holders                                                                    *)

LEMMA HoldersFinite ==
    ASSUME GateTypeOK
    PROVE  /\ IsFiniteSet(Holders) /\ IsFiniteSet(Holders')
           /\ Cardinality(Holders) \in Nat
<1>1. Holders \in SUBSET Spawn /\ Holders' \in SUBSET Spawn
  BY DEF Holders
<1> QED
  BY <1>1, GateAssumption, FS_Subset, FS_CardinalityType

\* Nothing changes for the count when the same terminals hold permits.
LEMMA HoldersKept ==
    ASSUME GateTypeOK, Holders' = Holders, permits' = permits,
           gateQueue' # << >> => permits = Limit, PermitsHeld
    PROVE  PermitsHeld'
  BY DEF PermitsHeld

-------------------------------------------------------------------------------
(* The next waiter                                                            *)

\* There is one, and it is the first on-screen one, or else the first of all.
LEMMA NextWaiterIs ==
    ASSUME gateQueue \in Seq(Spawn), gateQueue # << >>
    PROVE  /\ NextWaiter \in DOMAIN gateQueue
           /\ OnScreen = {} => NextWaiter = 1
           /\ OnScreen # {} => /\ NextWaiter \in OnScreen
                               /\ \A j \in OnScreen : NextWaiter <= j
<1>1. DOMAIN gateQueue = 1 .. Len(gateQueue) /\ Len(gateQueue) \in Nat /\ Len(gateQueue) # 0
  BY LenProperties, EmptySeq
<1>2. CASE OnScreen = {}
  BY <1>1, <1>2 DEF NextWaiter
<1>3. CASE OnScreen # {}
  <2>1. OnScreen \in SUBSET (1 .. Len(gateQueue))
    BY <1>1 DEF OnScreen
  <2>2. \E i \in OnScreen : \A j \in OnScreen : i <= j
    BY <1>1, <1>3, <2>1, LeastIndex
  <2>3. NextWaiter = CHOOSE i \in OnScreen : \A j \in OnScreen : i <= j
    BY <1>3 DEF NextWaiter
  <2>4. NextWaiter \in OnScreen /\ \A j \in OnScreen : NextWaiter <= j
    BY <2>2, <2>3
  <2> QED
    BY <1>1, <1>3, <2>1, <2>4
<1> QED
  BY <1>2, <1>3

\* Taking one out of the queue leaves the others, each once.
LEMMA WithoutIs ==
    ASSUME gateQueue \in Seq(Spawn), NEW n \in DOMAIN gateQueue,
           \A i, j \in DOMAIN gateQueue : gateQueue[i] = gateQueue[j] => i = j
    PROVE  /\ Without(n) \in Seq(Spawn)
           /\ \A s : (\E i \in DOMAIN Without(n) : Without(n)[i] = s)
                        <=> s # gateQueue[n] /\ \E i \in DOMAIN gateQueue : gateQueue[i] = s
           /\ \A i, j \in DOMAIN Without(n) : Without(n)[i] = Without(n)[j] => i = j
<1> DEFINE len == Len(gateQueue)
           q == Without(n)
<1>1. /\ len \in Nat /\ DOMAIN gateQueue = 1 .. len /\ n \in 1 .. len
      /\ \A i \in 1 .. len : gateQueue[i] \in Spawn
  BY LenProperties, ElementOfSeq
<1>2. /\ q = [j \in 1 .. len - 1 |-> gateQueue[IF j < n THEN j ELSE j + 1]]
      /\ len - 1 \in Nat
  BY <1>1 DEF Without
<1>3. \A j \in 1 .. len - 1 : (IF j < n THEN j ELSE j + 1) \in 1 .. len
  BY <1>1
<1> HIDE DEF q, len
<1>4. DOMAIN q = 1 .. len - 1 /\ \A j \in 1 .. len - 1 : q[j] \in Spawn
  BY <1>1, <1>2, <1>3
<1>5. q \in Seq(Spawn)
  BY <1>2, <1>4, SeqDef
<1>6. \A i, j \in DOMAIN q : q[i] = q[j] => i = j
  <2> SUFFICES ASSUME NEW i \in 1 .. len - 1, NEW j \in 1 .. len - 1, q[i] = q[j]
               PROVE  i = j
    BY <1>4
  <2>1. (IF i < n THEN i ELSE i + 1) = (IF j < n THEN j ELSE j + 1)
    BY <1>1, <1>2, <1>3
  <2> QED
    BY <1>1, <2>1
<1>7. ASSUME NEW s, NEW i \in DOMAIN q, q[i] = s
      PROVE  s # gateQueue[n] /\ \E k \in DOMAIN gateQueue : gateQueue[k] = s
  <2> DEFINE k == IF i < n THEN i ELSE i + 1
  <2>1. k \in 1 .. len /\ k # n /\ s = gateQueue[k]
    BY <1>1, <1>2, <1>3, <1>4, <1>7
  <2> QED
    BY <1>1, <2>1
<1>8. ASSUME NEW s, NEW k \in DOMAIN gateQueue, gateQueue[k] = s, s # gateQueue[n]
      PROVE  \E i \in DOMAIN q : q[i] = s
  <2> DEFINE i == IF k < n THEN k ELSE k - 1
  <2>1. k \in 1 .. len /\ k # n
    BY <1>1, <1>8
  <2>2. i \in 1 .. len - 1 /\ (IF i < n THEN i ELSE i + 1) = k
    BY <1>1, <2>1
  <2>3. q[i] = gateQueue[k]
    BY <1>2, <2>2
  <2> QED
    BY <1>4, <1>8, <2>2, <2>3
<1> QED
  BY <1>5, <1>6, <1>7, <1>8 DEF q

-------------------------------------------------------------------------------
(* The steps                                                                  *)

\* A permit is given back, by an opening that is over: to the next waiter, or for good.
LEMMA GiveKeeps ==
    ASSUME GateInv, NEW s \in Spawn, stage[s] = "opening", NEW end \in {"silent", "closed"},
           Give(s, end), hidden' = hidden
    PROVE  GateInv'
<1> DEFINE n == NextWaiter
           w == gateQueue[n]
<1>1. /\ permits \in 0 .. Limit /\ gateQueue \in Seq(Spawn) /\ hidden \in SUBSET Spawn
      /\ stage \in [Spawn -> GateStage] /\ Limit \in Nat \ {0}
  BY GateAssumption DEF GateInv, GateTypeOK
<1>2. IsFiniteSet(Holders) /\ Cardinality(Holders) \in Nat /\ permits = Cardinality(Holders)
  BY HoldersFinite DEF GateInv, PermitsHeld
<1>3. s \in Holders
  BY DEF Holders
<1>4. /\ IsFiniteSet(Holders \ {s}) /\ s \notin Holders \ {s}
      /\ Cardinality(Holders \ {s}) = Cardinality(Holders) - 1
  BY <1>2, <1>3, FS_RemoveElement
<1>5. permits - 1 \in 0 .. Limit
  <2>1. Cardinality(Holders \ {s}) \in Nat
    BY <1>4, FS_CardinalityType
  <2> QED
    BY <1>1, <1>2, <1>4, <2>1
<1>6. CASE gateQueue # << >>
  <2>1. n \in DOMAIN gateQueue /\ w \in Spawn /\ stage[w] = "queued" /\ w # s
    <3>1. n \in DOMAIN gateQueue
      BY <1>1, <1>6, NextWaiterIs
    <3>2. w \in Spawn
      BY <1>1, <3>1, ElementOfSeq, LenProperties
    <3>3. stage[w] = "queued"
      BY <3>1, <3>2 DEF GateInv, QueueIsTheWaiting
    <3> QED
      BY <3>1, <3>2, <3>3
  <2>2. /\ stage' = [stage EXCEPT ![s] = end, ![w] = "granted"]
        /\ gateQueue' = Without(n)
        /\ permits' = permits
    BY <1>6 DEF Give
  <2>3. \A i, j \in DOMAIN gateQueue : gateQueue[i] = gateQueue[j] => i = j
    BY DEF GateInv, QueueIsTheWaiting
  <2>4. /\ gateQueue' \in Seq(Spawn)
        /\ \A t : (\E i \in DOMAIN gateQueue' : gateQueue'[i] = t)
                     <=> t # w /\ \E i \in DOMAIN gateQueue : gateQueue[i] = t
        /\ \A i, j \in DOMAIN gateQueue' : gateQueue'[i] = gateQueue'[j] => i = j
    <3> HIDE DEF n
    <3>1. /\ Without(n) \in Seq(Spawn)
          /\ \A t : (\E i \in DOMAIN Without(n) : Without(n)[i] = t)
                       <=> t # gateQueue[n] /\ \E i \in DOMAIN gateQueue : gateQueue[i] = t
          /\ \A i, j \in DOMAIN Without(n) : Without(n)[i] = Without(n)[j] => i = j
      BY <1>1, <2>1, <2>3, WithoutIs
    <3> QED
      BY <2>2, <3>1
  <2> HIDE DEF n, w
  <2>5. \A t \in Spawn : stage'[t] = IF t = w THEN "granted" ELSE IF t = s THEN end ELSE stage[t]
    BY <1>1, <2>1, <2>2
  <2>6. GateTypeOK'
    BY <1>1, <2>1, <2>2, <2>4 DEF GateTypeOK, GateStage
  <2>7. QueueIsTheWaiting'
    <3>1. \A t \in Spawn : stage[t] = "queued" <=> \E i \in DOMAIN gateQueue : gateQueue[i] = t
      BY DEF GateInv, QueueIsTheWaiting
    <3>2. \A t \in Spawn : stage'[t] = "queued" <=> t # w /\ stage[t] = "queued"
      BY <2>1, <2>5
    <3>3. \A t \in Spawn :
             stage'[t] = "queued" <=> \E i \in DOMAIN gateQueue' : gateQueue'[i] = t
      BY <2>4, <3>1, <3>2
    <3> QED
      BY <2>4, <3>3 DEF QueueIsTheWaiting
  <2>8. PermitsHeld'
    <3>1. Holders' = (Holders \ {s}) \cup {w}
      BY <2>1, <2>5 DEF Holders
    <3>2. w \notin Holders \ {s}
      BY <2>1 DEF Holders
    <3>3. Cardinality(Holders') = Cardinality(Holders)
      <4>1. Cardinality((Holders \ {s}) \cup {w}) = Cardinality(Holders \ {s}) + 1
        BY <1>4, <3>2, FS_AddElement
      <4> QED
        BY <1>2, <1>4, <3>1, <4>1
    <3>4. permits = Limit
      BY <1>6 DEF GateInv, PermitsHeld
    <3> QED
      BY <1>1, <1>2, <2>2, <3>3, <3>4 DEF PermitsHeld
  <2> QED
    BY <2>6, <2>7, <2>8 DEF GateInv
<1>7. CASE gateQueue = << >>
  <2>1. /\ permits' = permits - 1
        /\ stage' = [stage EXCEPT ![s] = end]
        /\ gateQueue' = gateQueue
    BY <1>1, <1>5, <1>7 DEF Give
  <2>2. \A t \in Spawn : stage'[t] = IF t = s THEN end ELSE stage[t]
    BY <1>1, <2>1
  <2>3. GateTypeOK'
    BY <1>1, <1>5, <2>1 DEF GateTypeOK, GateStage
  <2>4. QueueIsTheWaiting'
    BY <2>1, <2>2 DEF GateInv, QueueIsTheWaiting
  <2>5. Holders' = Holders \ {s}
    BY <2>2 DEF Holders
  <2>6. PermitsHeld'
    BY <1>2, <1>4, <1>5, <1>7, <2>1, <2>5 DEF PermitsHeld
  <2> QED
    BY <2>3, <2>4, <2>6 DEF GateInv
<1> QED
  BY <1>6, <1>7

\* A terminal is opened: with a permit of its own, or in the queue.
LEMMA AcquireKeeps ==
    ASSUME GateInv, NEW s \in Spawn, NEW background \in BOOLEAN, Acquire(s, background)
    PROVE  GateInv'
<1>1. /\ permits \in 0 .. Limit /\ gateQueue \in Seq(Spawn) /\ hidden \in SUBSET Spawn
      /\ stage \in [Spawn -> GateStage] /\ Limit \in Nat \ {0}
  BY GateAssumption DEF GateInv, GateTypeOK
<1>2. IsFiniteSet(Holders) /\ Cardinality(Holders) \in Nat /\ permits = Cardinality(Holders)
  BY HoldersFinite DEF GateInv, PermitsHeld
<1>3. stage[s] = "closed" /\ hidden' \in SUBSET Spawn
  BY <1>1 DEF Acquire
<1>4. /\ s \notin Holders
      /\ \A i \in DOMAIN gateQueue : gateQueue[i] # s
  BY <1>3 DEF Holders, GateInv, QueueIsTheWaiting
<1>5. CASE /\ permits < Limit
           /\ permits' = permits + 1
           /\ stage' = [stage EXCEPT ![s] = "granted"]
           /\ UNCHANGED gateQueue
  <2>1. \A t \in Spawn : stage'[t] = IF t = s THEN "granted" ELSE stage[t]
    BY <1>1, <1>5
  <2>2. gateQueue = << >>
    BY <1>1, <1>5 DEF GateInv, PermitsHeld
  <2>3. GateTypeOK'
    BY <1>1, <1>3, <1>5 DEF GateTypeOK, GateStage
  <2>4. QueueIsTheWaiting'
    BY <1>3, <1>5, <2>1 DEF GateInv, QueueIsTheWaiting
  <2>5. Holders' = Holders \cup {s}
    BY <2>1 DEF Holders
  <2>6. Cardinality(Holders') = Cardinality(Holders) + 1
    <3>1. Cardinality(Holders \cup {s}) = Cardinality(Holders) + 1
      BY <1>2, <1>4, FS_AddElement
    <3> QED
      BY <2>5, <3>1
  <2>7. PermitsHeld'
    BY <1>1, <1>2, <1>5, <2>2, <2>6 DEF PermitsHeld
  <2> QED
    BY <2>3, <2>4, <2>7 DEF GateInv
<1>6. CASE /\ permits >= Limit
           /\ gateQueue' = Append(gateQueue, s)
           /\ stage' = [stage EXCEPT ![s] = "queued"]
           /\ UNCHANGED permits
  <2>1. \A t \in Spawn : stage'[t] = IF t = s THEN "queued" ELSE stage[t]
    BY <1>1, <1>6
  <2>2. /\ gateQueue' \in Seq(Spawn)
        /\ Len(gateQueue') = Len(gateQueue) + 1
        /\ \A i \in 1 .. Len(gateQueue) : gateQueue'[i] = gateQueue[i]
        /\ gateQueue'[Len(gateQueue) + 1] = s
    BY <1>1, <1>6, AppendProperties
  <2>3. /\ DOMAIN gateQueue = 1 .. Len(gateQueue) /\ Len(gateQueue) \in Nat
        /\ DOMAIN gateQueue' = 1 .. Len(gateQueue) + 1
    BY <1>1, <2>2, LenProperties
  <2>4. GateTypeOK'
    BY <1>1, <1>3, <1>6, <2>2 DEF GateTypeOK, GateStage
  <2>5. QueueIsTheWaiting'
    <3>1. /\ \A t \in Spawn : stage[t] = "queued" <=> \E i \in DOMAIN gateQueue : gateQueue[i] = t
          /\ \A i, j \in DOMAIN gateQueue : gateQueue[i] = gateQueue[j] => i = j
      BY DEF GateInv, QueueIsTheWaiting
    <3>2. \A i \in DOMAIN gateQueue' :
             \/ i \in DOMAIN gateQueue /\ gateQueue'[i] = gateQueue[i]
             \/ i = Len(gateQueue) + 1 /\ gateQueue'[i] = s
      BY <2>2, <2>3
    <3>3. \A i, j \in DOMAIN gateQueue' : gateQueue'[i] = gateQueue'[j] => i = j
      BY <1>4, <3>1, <3>2
    <3>4. ASSUME NEW t \in Spawn
          PROVE  stage'[t] = "queued" <=> \E i \in DOMAIN gateQueue' : gateQueue'[i] = t
      <4>1. CASE t = s
        <5>1. Len(gateQueue) + 1 \in DOMAIN gateQueue'
          BY <2>3
        <5> QED
          BY <2>1, <2>2, <4>1, <5>1
      <4>2. CASE t # s
        <5>1. (\E i \in DOMAIN gateQueue' : gateQueue'[i] = t)
                 <=> \E i \in DOMAIN gateQueue : gateQueue[i] = t
          BY <2>2, <2>3, <3>2, <4>2
        <5> QED
          BY <2>1, <3>1, <4>2, <5>1
      <4> QED
        BY <4>1, <4>2
    <3> QED
      BY <3>3, <3>4 DEF QueueIsTheWaiting
  <2>6. Holders' = Holders
    BY <1>3, <2>1 DEF Holders
  <2>7. PermitsHeld'
    <3>1. permits = Limit
      BY <1>1, <1>6
    <3> QED
      BY <1>6, <2>6, <3>1 DEF GateInv, PermitsHeld
  <2> QED
    BY <2>4, <2>5, <2>7 DEF GateInv
<1> QED
  BY <1>5, <1>6 DEF Acquire, Take

\* A step that neither takes nor gives: the same terminals wait, and the same hold permits.
LEMMA StaysKeeps ==
    ASSUME GateInv, NEW s \in Spawn, NEW from, NEW to, stage[s] = from,
           << from, to >> \in {<< "granted", "opening" >>, << "silent", "closed" >>},
           stage' = [stage EXCEPT ![s] = to], UNCHANGED << permits, gateQueue, hidden >>
    PROVE  GateInv'
<1>1. /\ stage \in [Spawn -> GateStage]
      /\ \/ from = "granted" /\ to = "opening"
         \/ from = "silent" /\ to = "closed"
  BY DEF GateInv, GateTypeOK
<1>2. \A t \in Spawn : stage'[t] = IF t = s THEN to ELSE stage[t]
  BY <1>1
<1>3. GateTypeOK'
  BY <1>1 DEF GateInv, GateTypeOK, GateStage
<1>4. QueueIsTheWaiting'
  BY <1>1, <1>2 DEF GateInv, QueueIsTheWaiting
<1>5. Holders' = Holders
  BY <1>1, <1>2 DEF Holders
<1>6. PermitsHeld'
  BY <1>5 DEF GateInv, PermitsHeld
<1> QED
  BY <1>3, <1>4, <1>6 DEF GateInv

LEMMA GateInvInit == GateInit => GateInv
<1> SUFFICES ASSUME GateInit PROVE GateInv
  OBVIOUS
<1>1. Holders = {}
  BY DEF GateInit, Holders
<1>2. Cardinality(Holders) = 0
  BY <1>1, FS_EmptySet
<1> QED
  BY <1>2, GateAssumption DEF GateInit, GateInv, GateTypeOK, GateStage, QueueIsTheWaiting, PermitsHeld

LEMMA GateInvNext == GateInv /\ [GateNext]_gateVars => GateInv'
<1> SUFFICES ASSUME GateInv, [GateNext]_gateVars PROVE GateInv'
  OBVIOUS
<1>1. ASSUME NEW s \in Spawn, NEW background \in BOOLEAN, Acquire(s, background)
      PROVE  GateInv'
  BY <1>1, AcquireKeeps
<1>2. ASSUME NEW s \in Spawn, GoOn(s)
      PROVE  GateInv'
  BY <1>2, StaysKeeps DEF GoOn
<1>3. ASSUME NEW s \in Spawn, Deadline(s)
      PROVE  GateInv'
  BY <1>3, GiveKeeps DEF Deadline
<1>4. ASSUME NEW s \in Spawn, Released(s)
      PROVE  GateInv'
  <2>1. CASE stage[s] = "opening" /\ Give(s, "closed")
    BY <1>4, <2>1, GiveKeeps DEF Released
  <2>2. CASE stage[s] = "silent" /\ stage' = [stage EXCEPT ![s] = "closed"]
                               /\ UNCHANGED << permits, gateQueue >>
    BY <1>4, <2>2, StaysKeeps DEF Released
  <2> QED
    BY <1>4, <2>1, <2>2 DEF Released
<1>5. CASE UNCHANGED gateVars
  BY <1>5 DEF gateVars, GateInv, GateTypeOK, QueueIsTheWaiting, PermitsHeld, Holders
<1> QED
  BY <1>1, <1>2, <1>3, <1>4, <1>5 DEF GateNext

-------------------------------------------------------------------------------
(* The theorems                                                               *)

LEMMA GateInvAlways == GateSpec => []GateInv
  BY GateInvInit, GateInvNext, PTL DEF GateSpec

\* Permits are counted right, the limit holds, and none is idle while somebody waits
\* (pty-spawn-gate.ts take and give), for every connection and limit.
THEOREM PermitsAreHeld == GateSpec => []PermitsHeld
<1>1. GateInv => PermitsHeld
  BY DEF GateInv
<1> QED
  BY GateInvAlways, <1>1, PTL

\* Every terminal that waits in `take` has its place in the queue, and one only.
THEOREM NobodyIsForgotten == GateSpec => [](GateTypeOK /\ QueueIsTheWaiting)
<1>1. GateInv => GateTypeOK /\ QueueIsTheWaiting
  BY DEF GateInv
<1> QED
  BY GateInvAlways, <1>1, PTL

\* An on-screen terminal goes before a background one, and each class in order
\* (pty-spawn-gate.ts give), for every queue.
THEOREM OnScreenGoesFirst == GateSpec => VisibleFirst
<1> DEFINE First == \A i, j \in DOMAIN gateQueue :
                       /\ stage'[gateQueue[j]] = "granted"
                       /\ \/ gateQueue[i] \notin hidden /\ gateQueue[j] \in hidden
                          \/ i < j /\ (gateQueue[i] \in hidden <=> gateQueue[j] \in hidden)
                       => stage'[gateQueue[i]] = "granted"
<1>1. GateInv /\ [GateNext]_gateVars => [First]_gateVars
  <2> SUFFICES ASSUME GateInv, GateNext,
                      NEW i \in DOMAIN gateQueue, NEW j \in DOMAIN gateQueue,
                      stage'[gateQueue[j]] = "granted",
                      \/ gateQueue[i] \notin hidden /\ gateQueue[j] \in hidden
                      \/ i < j /\ (gateQueue[i] \in hidden <=> gateQueue[j] \in hidden)
               PROVE  FALSE
    OBVIOUS
  <2>1. /\ gateQueue \in Seq(Spawn) /\ stage \in [Spawn -> GateStage]
        /\ gateQueue[j] \in Spawn /\ stage[gateQueue[j]] = "queued"
        /\ i \in Nat /\ j \in Nat /\ i >= 1
        /\ gateQueue # << >>
    <3>1. gateQueue \in Seq(Spawn) /\ stage \in [Spawn -> GateStage]
      BY DEF GateInv, GateTypeOK
    <3>2. DOMAIN gateQueue = 1 .. Len(gateQueue) /\ Len(gateQueue) \in Nat
      BY <3>1, LenProperties
    <3>3. gateQueue[j] \in Spawn
      BY <3>1, <3>2, ElementOfSeq
    <3>4. stage[gateQueue[j]] = "queued"
      BY <3>3 DEF GateInv, QueueIsTheWaiting
    <3>5. gateQueue # << >>
      BY <3>1, <3>2, EmptySeq
    <3> QED
      BY <3>1, <3>2, <3>3, <3>4, <3>5
  <2>2. j = NextWaiter
    <3>1. PICK s \in Spawn : \/ \E background \in BOOLEAN : Acquire(s, background)
                             \/ GoOn(s) \/ Deadline(s) \/ Released(s)
      BY DEF GateNext
    <3>2. ASSUME NEW end \in {"silent", "closed"}, Give(s, end), stage[s] = "opening"
          PROVE  j = NextWaiter
      <4> DEFINE n == NextWaiter
                 w == gateQueue[n]
      <4>1. stage' = [stage EXCEPT ![s] = end, ![w] = "granted"]
        BY <2>1, <3>2 DEF Give
      <4>2. n \in DOMAIN gateQueue
        BY <2>1, NextWaiterIs
      <4> HIDE DEF n
      <4>3. gateQueue[j] = w
        BY <2>1, <3>2, <4>1
      <4>4. \A k, l \in DOMAIN gateQueue : gateQueue[k] = gateQueue[l] => k = l
        BY DEF GateInv, QueueIsTheWaiting
      <4>5. j = n
        BY <4>2, <4>3, <4>4
      <4> QED
        BY <4>5 DEF n
    <3>3. ASSUME NEW background \in BOOLEAN, Acquire(s, background)
          PROVE  FALSE
      BY <2>1, <3>3 DEF Acquire, Take
    <3>4. ASSUME GoOn(s)
          PROVE  FALSE
      BY <2>1, <3>4 DEF GoOn
    <3>5. ASSUME stage[s] = "silent", stage' = [stage EXCEPT ![s] = "closed"]
          PROVE  FALSE
      BY <2>1, <3>5
    <3> QED
      BY <3>1, <3>2, <3>3, <3>4, <3>5 DEF Deadline, Released
  <2>3. /\ OnScreen = {} => j = 1
        /\ OnScreen # {} => j \in OnScreen /\ \A k \in OnScreen : j <= k
    BY <2>1, <2>2, NextWaiterIs
  <2>4. \A k \in DOMAIN gateQueue : k \in OnScreen <=> gateQueue[k] \notin hidden
    BY DEF OnScreen
  <2> QED
    BY <2>1, <2>3, <2>4
<1> QED
  BY GateInvAlways, <1>1, PTL DEF GateSpec, VisibleFirst

-------------------------------------------------------------------------------
(* The hosted team's listener, for every budget and viewer cap: one is kept or being got,
   however mints fail, peers come and go and the scheduler is stopped and started.        *)

\* The inductive invariant: the flag says whether a mint is in flight, and one that is was
\* begun with budget and room left and after one refusal at most, which nothing takes from it
\* before it answers.
HostedInv == /\ HostedTypeOK
             /\ ListenerKept
             /\ "opening" \in pending <=> minting = 1
             /\ minting = 1 => mints < MintBudget /\ bridged < MaxBridged
             /\ minting = 1 \/ Running => popRefusals <= 1

\* What the proof of a step takes from it, with the definitions expanded.
HostedFacts ==
    /\ hostState \in {"stopped", "running", "refused"} /\ pending \in SUBSET Pending
    /\ minting \in Nat /\ mints \in Nat /\ popRefusals \in 0 .. 2
    /\ idle \in Nat /\ bridged \in Nat
    /\ minting + idle <= 1
    /\ "retry" \in pending => minting + idle = 0
    /\ bridged + idle <= MaxBridged
    /\ mints <= MintBudget
    /\ "opening" \in pending <=> minting = 1
    /\ minting = 1 => mints < MintBudget /\ bridged < MaxBridged
    /\ minting = 1 \/ hostState = "running" => popRefusals <= 1
    /\ hostState = "running" /\ idle = 0 /\ bridged < MaxBridged
          => minting > 0 \/ "retry" \in pending \/ "soon" \in pending

LEMMA FactsAreInv == HostedInv <=> HostedFacts
  BY DEF HostedInv, HostedFacts, HostedTypeOK, ListenerKept, NeverSilent, OneListener,
         WithinBudget, Short, Running, Pending

-------------------------------------------------------------------------------
\* What top promises: called while no mint is in flight or no listener idle, it leaves a mint
\* in flight or a retry armed when the scheduler runs, is short of a listener and has room.
LEMMA TopKeeps ==
    ASSUME HostedFacts, NEW state, NEW held \in SUBSET Pending, NEW i \in Nat, NEW b \in Nat,
           Top(state, held, i, b),
           "opening" \in held <=> minting = 1,
           minting + i <= 1, "retry" \in held => minting + i = 0,
           minting = 1 => b < MaxBridged
    PROVE  /\ pending' \in SUBSET Pending /\ minting' \in Nat
           /\ "opening" \in pending' <=> minting' = 1
           /\ minting' + i <= 1
           /\ "retry" \in pending' => minting' + i = 0
           /\ minting' = 1 => mints < MintBudget /\ b < MaxBridged
           /\ minting' = 1 => minting = 1 \/ state = "running"
           /\ state = "running" /\ i = 0 /\ b < MaxBridged => minting' > 0 \/ "retry" \in pending'
<1>1. minting \in Nat /\ mints \in Nat /\ MintBudget \in Nat /\ minting = 1 => mints < MintBudget
  BY HostedAssumption DEF HostedFacts
<1>2. CASE Wanted(state, held, i, b) /\ MintOrWait(held)
  <2>1. /\ state = "running" /\ "opening" \notin held /\ "retry" \notin held
        /\ i = 0 /\ b < MaxBridged
    BY <1>2 DEF Wanted
  <2>2. minting = 0
    BY <1>1, <2>1, HostedAssumption DEF HostedFacts
  <2>3. CASE mints < MintBudget /\ pending' = held \cup {"opening"} /\ minting' = minting + 1
    BY <2>1, <2>2, <2>3 DEF Pending
  <2>4. CASE mints >= MintBudget /\ pending' = held \cup {"retry"} /\ UNCHANGED minting
    BY <2>1, <2>2, <2>4 DEF Pending
  <2> QED
    BY <1>2, <2>3, <2>4 DEF MintOrWait
<1>3. CASE ~Wanted(state, held, i, b) /\ pending' = held /\ UNCHANGED minting
  <2>1. CASE "opening" \in held \/ "retry" \in held
    BY <1>1, <1>3, <2>1, HostedAssumption DEF HostedFacts
  <2>2. CASE ~("opening" \in held \/ "retry" \in held)
    BY <1>1, <1>3, <2>2, HostedAssumption DEF Wanted, HostedFacts
  <2> QED
    BY <2>1, <2>2
<1> QED
  BY <1>2, <1>3 DEF Top

\* The finally of a mint finds no listener idle and no retry armed.
LEMMA FinallyKeeps ==
    ASSUME HostedFacts, NEW state, NEW held \in SUBSET Pending, NEW i \in Nat,
           Finally(state, held, i)
    PROVE  /\ minting = 1 /\ minting' = 0 /\ idle = 0 /\ "retry" \notin pending
           /\ mints < MintBudget /\ bridged < MaxBridged
           /\ pending' \in SUBSET Pending /\ "opening" \notin pending'
           /\ "retry" \in pending' <=> "retry" \in held
           /\ state = "running" /\ i = 0 => "soon" \in pending'
<1>1. /\ minting = 1 /\ minting' = 0 /\ idle = 0 /\ "retry" \notin pending
      /\ mints < MintBudget /\ bridged < MaxBridged
  BY DEF HostedFacts, Finally
<1>2. pending' = (held \ {"opening"}) \cup (IF state = "running" /\ i < 1 THEN {"soon"} ELSE {})
  BY DEF Finally
<1>3. CASE state = "running" /\ i < 1
  BY <1>1, <1>2, <1>3 DEF Pending
<1>4. CASE ~(state = "running" /\ i < 1)
  BY <1>1, <1>2, <1>4 DEF Pending
<1> QED
  BY <1>3, <1>4

LEMMA HostedInvInit == HostedInit => HostedFacts
  BY HostedAssumption DEF HostedInit, HostedFacts, Pending

-------------------------------------------------------------------------------
LEMMA HostedInvNext == HostedFacts /\ [HostedNext]_hostedVars => HostedFacts'
<1> SUFFICES ASSUME HostedFacts, [HostedNext]_hostedVars PROVE HostedFacts'
  OBVIOUS
<1> USE HostedAssumption
<1>1. CASE StartHosting
  <2>1. /\ hostState' = "running" /\ popRefusals' = 0
        /\ Top("running", pending, idle, bridged)
        /\ UNCHANGED <<mints, idle, bridged>>
    BY <1>1 DEF StartHosting
  <2>2. /\ pending' \in SUBSET Pending /\ minting' \in Nat
        /\ "opening" \in pending' <=> minting' = 1
        /\ minting' + idle <= 1
        /\ "retry" \in pending' => minting' + idle = 0
        /\ minting' = 1 => mints < MintBudget /\ bridged < MaxBridged
        /\ idle = 0 /\ bridged < MaxBridged => minting' > 0 \/ "retry" \in pending'
    BY <2>1, TopKeeps DEF HostedFacts
  <2>3. /\ hostState' \in {"stopped", "running", "refused"} /\ mints' \in Nat
        /\ popRefusals' \in 0 .. 2 /\ idle' \in Nat /\ bridged' \in Nat
        /\ bridged' + idle' <= MaxBridged /\ mints' <= MintBudget
    BY <2>1 DEF HostedFacts
  <2>4. minting' = 1 \/ hostState' = "running" => popRefusals' <= 1
    BY <2>1, <2>2 DEF HostedFacts
  <2>5. /\ minting' + idle' <= 1
        /\ "retry" \in pending' => minting' + idle' = 0
        /\ minting' = 1 => mints' < MintBudget /\ bridged' < MaxBridged
        /\ hostState' = "running" /\ idle' = 0 /\ bridged' < MaxBridged
              => minting' > 0 \/ "retry" \in pending' \/ "soon" \in pending'
    BY <2>1, <2>2
  <2> QED
    BY <2>2, <2>3, <2>4, <2>5 DEF HostedFacts
<1>2. CASE StopHosting
  BY <1>2 DEF StopHosting, HostedFacts, Pending
<1>3. CASE MintedStopped
  <2>1. /\ hostState # "running" /\ mints' = mints + 1 /\ popRefusals' = 0
        /\ Finally(hostState, pending, idle)
        /\ UNCHANGED <<hostState, idle, bridged>>
    BY <1>3 DEF MintedStopped, Running
  <2>2. /\ minting = 1 /\ minting' = 0 /\ mints < MintBudget /\ "retry" \notin pending
        /\ pending' \in SUBSET Pending /\ "opening" \notin pending'
        /\ "retry" \notin pending'
    BY <2>1, FinallyKeeps DEF HostedFacts
  <2> QED
    BY <2>1, <2>2 DEF HostedFacts
<1>4. ASSUME NEW result \in OpenResult, Minted(result)
      PROVE  HostedFacts'
  <2> DEFINE held == IF result \in {"closed", "threw"} THEN pending \cup {"retry"} ELSE pending
  <2>1. /\ hostState' = hostState /\ hostState = "running"
        /\ mints' = mints + 1 /\ popRefusals' = 0
        /\ idle' = IF result = "idle" THEN idle + 1 ELSE idle
        /\ bridged' = IF result = "bridged" THEN bridged + 1 ELSE bridged
        /\ Finally(hostState, held, idle')
    BY <1>4 DEF Minted, Running
  <2>2. idle' \in Nat /\ bridged' \in Nat /\ held \in SUBSET Pending
    BY <2>1 DEF HostedFacts, Pending
  <2>3. /\ minting = 1 /\ minting' = 0 /\ idle = 0 /\ "retry" \notin pending
        /\ mints < MintBudget /\ bridged < MaxBridged
        /\ pending' \in SUBSET Pending /\ "opening" \notin pending'
        /\ "retry" \in pending' <=> "retry" \in held
        /\ idle' = 0 => "soon" \in pending'
    BY <2>1, <2>2, FinallyKeeps
  <2>4. "retry" \in pending' => idle' = 0
    BY <2>1, <2>3
  <2>5. idle' <= 1 /\ idle' + bridged' <= MaxBridged
    BY <2>1, <2>3 DEF HostedFacts
  <2> HIDE DEF held
  <2> QED
    BY <2>1, <2>2, <2>3, <2>4, <2>5 DEF HostedFacts
<1>5. ASSUME NEW kind \in MintFailure, MintFailed(kind)
      PROVE  HostedFacts'
  <2> DEFINE refusals == IF kind = "proofRefused" THEN popRefusals + 1 ELSE popRefusals
             terminal == kind = "refused" \/ (kind = "proofRefused" /\ refusals >= 2)
             held == IF Running /\ ~terminal THEN pending \cup {"retry"} ELSE pending
  <2>1. /\ popRefusals' = refusals
        /\ hostState' = IF Running /\ terminal THEN "refused" ELSE hostState
        /\ Finally(hostState', held, idle)
        /\ UNCHANGED <<mints, idle, bridged>>
    BY <1>5 DEF MintFailed
  <2>2. held \in SUBSET Pending /\ idle \in Nat
    BY DEF HostedFacts, Pending
  <2>3. /\ minting = 1 /\ minting' = 0 /\ idle = 0
        /\ pending' \in SUBSET Pending /\ "opening" \notin pending'
        /\ hostState' = "running" => "soon" \in pending'
    BY <2>1, <2>2, FinallyKeeps
  <2>4. /\ popRefusals' \in 0 .. 2
        /\ hostState' = "running" => popRefusals' <= 1
        /\ hostState' \in {"stopped", "running", "refused"}
    <3>1. popRefusals <= 1 /\ popRefusals \in 0 .. 2
      BY <2>3 DEF HostedFacts
    <3>2. CASE terminal
      BY <2>1, <3>1, <3>2 DEF Running, HostedFacts
    <3>3. CASE ~terminal
      BY <2>1, <3>1, <3>3 DEF Running, HostedFacts
    <3> QED
      BY <3>2, <3>3
  <2> HIDE DEF refusals, terminal, held
  <2> QED
    BY <2>1, <2>3, <2>4 DEF HostedFacts
<1>6. CASE AskAgain
  <2> DEFINE held == pending \ {"soon"}
  <2>1. /\ Top(hostState, held, idle, bridged)
        /\ UNCHANGED <<hostState, mints, popRefusals, idle, bridged>>
    BY <1>6 DEF AskAgain
  <2>2. /\ held \in SUBSET Pending
        /\ "opening" \in held <=> minting = 1
        /\ "retry" \in held => minting + idle = 0
    BY DEF HostedFacts, Pending
  <2> HIDE DEF held
  <2>3. /\ pending' \in SUBSET Pending /\ minting' \in Nat
        /\ "opening" \in pending' <=> minting' = 1
        /\ minting' + idle <= 1
        /\ "retry" \in pending' => minting' + idle = 0
        /\ minting' = 1 => mints < MintBudget /\ bridged < MaxBridged
        /\ minting' = 1 => minting = 1 \/ hostState = "running"
        /\ hostState = "running" /\ idle = 0 /\ bridged < MaxBridged
              => minting' > 0 \/ "retry" \in pending'
    BY <2>1, <2>2, TopKeeps DEF HostedFacts
  <2> QED
    BY <2>1, <2>3 DEF HostedFacts
<1>7. CASE RetryFires
  <2> DEFINE held == pending \ {"retry"}
  <2>1. /\ Top(hostState, held, idle, bridged)
        /\ UNCHANGED <<hostState, mints, popRefusals, idle, bridged>>
    BY <1>7 DEF RetryFires
  <2>2. /\ held \in SUBSET Pending
        /\ "opening" \in held <=> minting = 1
        /\ "retry" \in held => minting + idle = 0
    BY DEF HostedFacts, Pending
  <2> HIDE DEF held
  <2>3. /\ pending' \in SUBSET Pending /\ minting' \in Nat
        /\ "opening" \in pending' <=> minting' = 1
        /\ minting' + idle <= 1
        /\ "retry" \in pending' => minting' + idle = 0
        /\ minting' = 1 => mints < MintBudget /\ bridged < MaxBridged
        /\ minting' = 1 => minting = 1 \/ hostState = "running"
        /\ hostState = "running" /\ idle = 0 /\ bridged < MaxBridged
              => minting' > 0 \/ "retry" \in pending'
    BY <2>1, <2>2, TopKeeps DEF HostedFacts
  <2> QED
    BY <2>1, <2>3 DEF HostedFacts
<1>8. ASSUME idle > 0
      PROVE  /\ idle = 1 /\ minting = 0 /\ "retry" \notin pending /\ idle - 1 \in Nat
             /\ "opening" \notin pending /\ bridged < MaxBridged
  BY <1>8 DEF HostedFacts
<1>9. ASSUME NEW b \in Nat, idle > 0, b <= MaxBridged, idle' = idle - 1, bridged' = b,
             Top(hostState, pending, idle - 1, b), UNCHANGED <<hostState, mints, popRefusals>>
      PROVE  HostedFacts'
  <2>1. pending \in SUBSET Pending /\ minting \in Nat
    BY DEF HostedFacts
  <2>2. /\ pending' \in SUBSET Pending /\ minting' \in Nat
        /\ "opening" \in pending' <=> minting' = 1
        /\ minting' + (idle - 1) <= 1
        /\ "retry" \in pending' => minting' + (idle - 1) = 0
        /\ minting' = 1 => mints < MintBudget /\ b < MaxBridged
        /\ minting' = 1 => minting = 1 \/ hostState = "running"
        /\ hostState = "running" /\ idle - 1 = 0 /\ b < MaxBridged
              => minting' > 0 \/ "retry" \in pending'
    BY <1>8, <1>9, <2>1, TopKeeps
  <2>3. /\ hostState' \in {"stopped", "running", "refused"} /\ mints' \in Nat
        /\ popRefusals' \in 0 .. 2 /\ idle' \in Nat /\ bridged' \in Nat
        /\ bridged' + idle' <= MaxBridged /\ mints' <= MintBudget
    BY <1>8, <1>9 DEF HostedFacts
  <2>4. minting' = 1 \/ hostState' = "running" => popRefusals' <= 1
    BY <1>8, <1>9, <2>2 DEF HostedFacts
  <2>5. /\ minting' + idle' <= 1
        /\ "retry" \in pending' => minting' + idle' = 0
        /\ minting' = 1 => mints' < MintBudget /\ bridged' < MaxBridged
        /\ hostState' = "running" /\ idle' = 0 /\ bridged' < MaxBridged
              => minting' > 0 \/ "retry" \in pending' \/ "soon" \in pending'
    BY <1>8, <1>9, <2>2
  <2> QED
    BY <2>2, <2>3, <2>4, <2>5 DEF HostedFacts
<1>10. CASE Bridged
  <2>1. bridged + 1 \in Nat /\ bridged + 1 <= MaxBridged
    BY <1>8, <1>10 DEF Bridged, HostedFacts
  <2> QED
    BY <1>9, <1>10, <2>1 DEF Bridged
<1>11. CASE IdleCloses
  <2>1. /\ idle' = 0 /\ minting' = 0 /\ "opening" \notin pending
        /\ pending' = IF hostState = "running" THEN pending \cup {"retry"} ELSE pending
        /\ UNCHANGED <<hostState, mints, popRefusals, bridged>>
    BY <1>8, <1>11 DEF IdleCloses, Running
  <2> QED
    BY <2>1 DEF HostedFacts, Pending
<1>12. CASE SessionEnds
  <2>1. /\ bridged' = bridged - 1 /\ bridged > 0
        /\ Top(hostState, pending, idle, bridged - 1)
        /\ UNCHANGED <<hostState, mints, popRefusals, idle>>
    BY <1>12 DEF SessionEnds
  <2>2. bridged - 1 \in Nat /\ (minting = 1 => bridged - 1 < MaxBridged)
    BY <2>1 DEF HostedFacts
  <2>3. /\ pending' \in SUBSET Pending /\ minting' \in Nat
        /\ "opening" \in pending' <=> minting' = 1
        /\ minting' + idle <= 1
        /\ "retry" \in pending' => minting' + idle = 0
        /\ minting' = 1 => mints < MintBudget /\ bridged - 1 < MaxBridged
        /\ minting' = 1 => minting = 1 \/ hostState = "running"
        /\ hostState = "running" /\ idle = 0 /\ bridged - 1 < MaxBridged
              => minting' > 0 \/ "retry" \in pending'
    BY <2>1, <2>2, TopKeeps DEF HostedFacts
  <2>4. /\ hostState' \in {"stopped", "running", "refused"} /\ mints' \in Nat
        /\ popRefusals' \in 0 .. 2 /\ idle' \in Nat /\ bridged' \in Nat
        /\ bridged' + idle' <= MaxBridged /\ mints' <= MintBudget
    BY <2>1 DEF HostedFacts
  <2>5. minting' = 1 \/ hostState' = "running" => popRefusals' <= 1
    BY <2>1, <2>3 DEF HostedFacts
  <2>6. /\ minting' + idle' <= 1
        /\ "retry" \in pending' => minting' + idle' = 0
        /\ minting' = 1 => mints' < MintBudget /\ bridged' < MaxBridged
        /\ hostState' = "running" /\ idle' = 0 /\ bridged' < MaxBridged
              => minting' > 0 \/ "retry" \in pending' \/ "soon" \in pending'
    BY <2>1, <2>3
  <2> QED
    BY <2>3, <2>4, <2>5, <2>6 DEF HostedFacts
<1>13. CASE Refresh
  <2>1. bridged \in Nat /\ bridged <= MaxBridged
    BY <1>8, <1>13 DEF Refresh, HostedFacts
  <2> QED
    BY <1>9, <1>13, <2>1 DEF Refresh
<1>14. CASE Ages
  BY <1>14 DEF Ages, HostedFacts
<1>15. CASE UNCHANGED hostedVars
  BY <1>15 DEF hostedVars, HostedFacts
<1> QED
  BY <1>1, <1>2, <1>3, <1>4, <1>5, <1>6, <1>7, <1>10, <1>11, <1>12, <1>13, <1>14, <1>15
     DEF HostedNext

-------------------------------------------------------------------------------
\* A running scheduler that is short of a listener always has a mint in flight, a retry armed
\* or a microtask queued, never two mints, never more sessions than the cap, and never mints
\* more than the hour's budget (hosted-scheduler.ts), for every budget and cap.
THEOREM ListenerIsKept == HostedSpec => [](HostedTypeOK /\ ListenerKept)
<1>1. HostedFacts => HostedTypeOK /\ ListenerKept
  BY FactsAreInv DEF HostedInv
<1> QED
  BY HostedInvInit, HostedInvNext, <1>1, PTL DEF HostedSpec

-------------------------------------------------------------------------------
(* The pacing of GitHub requests, for any requests, slots, waits and spacing: the slots that
   are counted are the reads that have started, and mutations take turns.                 *)

\* The reads that hold a slot when requests are where ph says.
ActiveIn(ph) == {r \in Read : ph[r] \notin {"idle", "queued"}}

Injective(s) == \A i, j \in 1 .. Len(s) : s[i] = s[j] => i = j

\* The queue holds reads that wait, each once: the slots it is given go to as many reads,
\* none of which had one.
QueueWaits(ph, queue) ==
    /\ queue \in Seq(Read)
    /\ Injective(queue)
    /\ \A i \in 1 .. Len(queue) : ph[queue[i]] = "queued"

Counted(ph, active) ==
    /\ IsFiniteSet(ActiveIn(ph))
    /\ active = Cardinality(ActiveIn(ph))
    /\ active <= Slots

\* Every mutation asked is in the chain once, and all but the first wait.
ChainTakesTurns(ph, tail) ==
    /\ tail \in Seq(Mutation)
    /\ Injective(tail)
    /\ \A i \in 1 .. Len(tail) : ph[tail[i]] # "idle"
    /\ \A m \in Mutation : ph[m] # "idle" => \E i \in 1 .. Len(tail) : tail[i] = m
    /\ \A m \in Mutation : ph[m] \notin {"idle", "queued"} => Head(tail) = m

\* The inductive invariant.
ReqInv ==
    /\ phase \in [Request -> Phase]
    /\ QueueWaits(phase, readQueue)
    /\ Counted(phase, activeReads)
    /\ readQueue # << >> => activeReads = Slots
    /\ ChainTakesTurns(phase, mutationTail)

-------------------------------------------------------------------------------
(* The slots                                                                  *)

\* The first n elements of a sequence without repetition are n.
LEMMA FirstElements ==
    ASSUME NEW s \in Seq(Read), Injective(s), NEW n \in 0 .. Len(s)
    PROVE  /\ IsFiniteSet({s[i] : i \in 1 .. n})
           /\ Cardinality({s[i] : i \in 1 .. n}) = n
<1> DEFINE T == {s[i] : i \in 1 .. n}
           f == [i \in 1 .. n |-> s[i]]
<1>1. Len(s) \in Nat /\ 1 .. n \subseteq 1 .. Len(s)
  BY LenProperties
<1>2. f \in Surjection(1 .. n, T)
  BY DEF Surjection
<1>3. f \in Injection(1 .. n, T)
  BY <1>1 DEF Injection, IsInjective, Injective
<1>4. IsFiniteSet(1 .. n) /\ Cardinality(1 .. n) = n
  BY <1>1, FS_Interval
<1> HIDE DEF T, f
<1>5. IsFiniteSet(T) /\ Cardinality(T) = n
  BY <1>2, <1>3, <1>4, FS_Surjection
<1> QED
  BY <1>5 DEF T

\* drainReads: the reads that leave the queue are those that start to count.
LEMMA DrainCounts ==
    ASSUME NEW ph \in [Request -> Phase], NEW queue, NEW active, NEW rate,
           QueueWaits(ph, queue), Counted(ph, active), Drain(ph, queue, active, rate)
    PROVE  /\ phase' \in [Request -> Phase]
           /\ QueueWaits(phase', readQueue')
           /\ Counted(phase', activeReads')
           /\ readQueue' # << >> => activeReads' = Slots
           /\ \A m \in Mutation : phase'[m] = ph[m]
<1> DEFINE n == IF Slots - active < Len(queue) THEN Slots - active ELSE Len(queue)
           Q == {queue[i] : i \in 1 .. n}
<1>1. /\ queue \in Seq(Read) /\ Injective(queue) /\ Len(queue) \in Nat
      /\ \A i \in 1 .. Len(queue) : queue[i] \in Read /\ ph[queue[i]] = "queued"
  BY LenProperties DEF QueueWaits
<1>2. active \in Nat /\ active <= Slots /\ Slots \in Nat
  BY FS_CardinalityType, RequestAssumption DEF Counted
<1>3. n \in 0 .. Len(queue) /\ n <= Slots - active
  BY <1>1, <1>2
<1>4. /\ readQueue' = SubSeq(queue, n + 1, Len(queue))
      /\ activeReads' = active + n
      /\ Hold(ph, Q, {}, rate)
  BY DEF Drain
<1>5. IsFiniteSet(Q) /\ Cardinality(Q) = n
  BY <1>1, <1>3, FirstElements
<1>6. Q \subseteq Read /\ \A r \in Q : ph[r] = "queued"
  BY <1>1, <1>3
<1>7. \A i \in 1 .. Len(queue) : queue[i] \in Q => i <= n
  BY <1>1, <1>3 DEF Injective
<1>8. n < Len(queue) => n = Slots - active
  OBVIOUS
<1> HIDE DEF n, Q
<1>9. /\ phase' \in [Request -> Phase]
      /\ \A r \in Request \ Q : phase'[r] = ph[r]
      /\ \A r \in Q : phase'[r] \in {"cleared", "held", "failing"}
  BY <1>4, <1>6 DEF Hold, Rated, Phase, Request
<1>10. ActiveIn(phase') = ActiveIn(ph) \cup Q /\ ActiveIn(ph) \cap Q = {}
  BY <1>6, <1>9 DEF ActiveIn, Request
<1>11. Counted(phase', activeReads')
  <2>1. Cardinality({}) = 0
    BY FS_EmptySet
  <2>2. /\ IsFiniteSet(ActiveIn(ph) \cup Q)
        /\ Cardinality(ActiveIn(ph) \cup Q) = active + n - 0
    BY <1>5, <1>10, <2>1, FS_Union DEF Counted
  <2> QED
    BY <1>2, <1>3, <1>4, <1>10, <2>2 DEF Counted
<1>12. /\ readQueue' \in Seq(Read)
       /\ Len(readQueue') = Len(queue) - n
       /\ \A i \in 1 .. Len(queue) - n : readQueue'[i] = queue[n + i]
  <2>1. \A i \in n + 1 .. Len(queue) : queue[i] \in Read
    BY <1>1, <1>3
  <2>2. /\ SubSeq(queue, n + 1, Len(queue)) \in Seq(Read)
        /\ Len(SubSeq(queue, n + 1, Len(queue))) =
              IF n + 1 <= Len(queue) THEN Len(queue) - (n + 1) + 1 ELSE 0
        /\ \A i \in 1 .. Len(queue) - (n + 1) + 1 :
              SubSeq(queue, n + 1, Len(queue))[i] = queue[(n + 1) + i - 1]
    BY <1>1, <1>3, <2>1, SubSeqProperties
  <2> QED
    BY <1>1, <1>3, <1>4, <2>2
<1>13. QueueWaits(phase', readQueue')
  <2>1. Injective(readQueue')
    BY <1>1, <1>3, <1>12 DEF Injective
  <2>2. \A i \in 1 .. Len(readQueue') :
            /\ readQueue'[i] = queue[n + i]
            /\ n + i \in 1 .. Len(queue) /\ ~ (n + i <= n)
    BY <1>1, <1>3, <1>12
  <2>3. \A i \in 1 .. Len(readQueue') :
            readQueue'[i] \in Request \ Q /\ ph[readQueue'[i]] = "queued"
    BY <1>1, <1>7, <2>2 DEF Request
  <2> QED
    BY <1>9, <1>12, <2>1, <2>3 DEF QueueWaits
<1>14. readQueue' # << >> => activeReads' = Slots
  <2>1. SUFFICES ASSUME readQueue' # << >>
                 PROVE  n = Slots - active
    BY <1>2, <1>3, <1>4
  <2>2. Len(readQueue') # 0
    BY <1>12, <2>1, EmptySeq
  <2> QED
    BY <1>1, <1>3, <1>8, <1>12, <2>2
<1>15. \A m \in Mutation : phase'[m] = ph[m]
  BY <1>6, <1>9, RequestAssumption DEF Request
<1> QED
  BY <1>9, <1>11, <1>13, <1>14, <1>15

\* A request that has not started, or does not end, takes no slot and frees none.
LEMMA SameActiveReads ==
    ASSUME ReqInv, phase' \in [Request -> Phase], readQueue' = readQueue,
           activeReads' = activeReads, ActiveIn(phase') = ActiveIn(phase),
           \A i \in 1 .. Len(readQueue) : phase'[readQueue[i]] = phase[readQueue[i]]
    PROVE  /\ QueueWaits(phase', readQueue')
           /\ Counted(phase', activeReads')
           /\ readQueue' # << >> => activeReads' = Slots
  BY DEF ReqInv, QueueWaits, Counted

-------------------------------------------------------------------------------
(* The chain of mutations                                                     *)

\* Reads are asked and answered without touching the chain.
LEMMA ChainUntouched ==
    ASSUME NEW ph, NEW tail, ChainTakesTurns(ph, tail), mutationTail' = tail,
           \A m \in Mutation : phase'[m] = ph[m]
    PROVE  ChainTakesTurns(phase', mutationTail')
<1>1. tail \in Seq(Mutation) /\ \A i \in 1 .. Len(tail) : tail[i] \in Mutation
  BY LenProperties DEF ChainTakesTurns
<1> QED
  BY <1>1 DEF ChainTakesTurns

\* The one whose turn it is goes on, and is not yet over.
LEMMA ChainGoesOn ==
    ASSUME ChainTakesTurns(phase, mutationTail), mutationTail' = mutationTail,
           NEW m \in Mutation, phase[m] # "idle", Head(mutationTail) = m, phase'[m] # "idle",
           \A k \in Mutation \ {m} : phase'[k] = phase[k]
    PROVE  ChainTakesTurns(phase', mutationTail')
<1>1. \A i \in 1 .. Len(mutationTail) : mutationTail[i] \in Mutation
  BY LenProperties DEF ChainTakesTurns
<1> QED
  BY <1>1 DEF ChainTakesTurns

\* Another mutation joins the chain at its end.
LEMMA ChainGrows ==
    ASSUME ChainTakesTurns(phase, mutationTail), NEW m \in Mutation, phase[m] = "idle",
           phase'[m] = "queued", \A k \in Mutation \ {m} : phase'[k] = phase[k],
           mutationTail' = Append(mutationTail, m)
    PROVE  ChainTakesTurns(phase', mutationTail')
<1> DEFINE n == Len(mutationTail)
<1>1. /\ mutationTail \in Seq(Mutation) /\ n \in Nat
      /\ \A i \in 1 .. n : mutationTail[i] \in Mutation /\ mutationTail[i] # m
  BY LenProperties DEF ChainTakesTurns
<1>2. /\ mutationTail' \in Seq(Mutation) /\ Len(mutationTail') = n + 1
      /\ \A i \in 1 .. n : mutationTail'[i] = mutationTail[i]
      /\ mutationTail'[n + 1] = m
  BY <1>1, AppendProperties
<1>3. Injective(mutationTail')
  BY <1>1, <1>2 DEF ChainTakesTurns, Injective
<1>4. \A i \in 1 .. Len(mutationTail') : phase'[mutationTail'[i]] # "idle"
  <2>1. \A i \in 1 .. n : phase'[mutationTail'[i]] # "idle"
    BY <1>1, <1>2 DEF ChainTakesTurns
  <2>2. phase'[mutationTail'[n + 1]] # "idle"
    BY <1>2
  <2>3. \A i \in 1 .. Len(mutationTail') : i \in 1 .. n \/ i = n + 1
    BY <1>1, <1>2
  <2> QED
    BY <2>1, <2>2, <2>3
<1>5. \A k \in Mutation : phase'[k] # "idle" =>
                              \E i \in 1 .. Len(mutationTail') : mutationTail'[i] = k
  <2>1. 1 .. n \subseteq 1 .. Len(mutationTail') /\ n + 1 \in 1 .. Len(mutationTail')
    BY <1>1, <1>2
  <2>2. \A k \in Mutation \ {m} : phase'[k] # "idle" =>
                                      \E i \in 1 .. n : mutationTail'[i] = k
    BY <1>2 DEF ChainTakesTurns
  <2> QED
    BY <1>2, <2>1, <2>2
<1>6. \A k \in Mutation : phase'[k] \notin {"idle", "queued"} => Head(mutationTail') = k
  <2>1. SUFFICES ASSUME NEW k \in Mutation, phase'[k] \notin {"idle", "queued"}
                 PROVE  Head(mutationTail') = k
    OBVIOUS
  <2>2. phase[k] \notin {"idle", "queued"}
    BY <2>1
  <2>3. PICK i \in 1 .. n : mutationTail[i] = k
    BY <2>2 DEF ChainTakesTurns
  <2>4. Head(mutationTail) = mutationTail[1] /\ 1 \in 1 .. n
    BY <1>1, <2>3
  <2>5. Head(mutationTail') = mutationTail'[1]
    BY <1>1, <1>2
  <2> QED
    BY <1>2, <2>2, <2>4, <2>5 DEF ChainTakesTurns
<1> QED
  BY <1>2, <1>3, <1>4, <1>5, <1>6 DEF ChainTakesTurns

\* The first of the chain leaves it: nobody else had started.
LEMMA ChainShrinks ==
    ASSUME ChainTakesTurns(phase, mutationTail), NEW m \in Mutation,
           phase[m] \notin {"idle", "queued"},
           phase'[m] = "idle", \A k \in Mutation \ {m} : phase'[k] = phase[k],
           mutationTail' = Tail(mutationTail)
    PROVE  ChainTakesTurns(phase', mutationTail')
<1> DEFINE n == Len(mutationTail)
<1>1. /\ mutationTail \in Seq(Mutation) /\ n \in Nat
      /\ \A i \in 1 .. n : mutationTail[i] \in Mutation
  BY LenProperties DEF ChainTakesTurns
<1>2. /\ n >= 1 /\ mutationTail # << >>
      /\ Head(mutationTail) = m /\ mutationTail[1] = m
  <2>1. PICK i \in 1 .. n : mutationTail[i] = m
    BY DEF ChainTakesTurns
  <2>2. n >= 1 /\ mutationTail # << >>
    BY <1>1, <2>1, EmptySeq
  <2>3. Head(mutationTail) = m
    BY DEF ChainTakesTurns
  <2> QED
    BY <1>1, <2>2, <2>3
<1>3. /\ mutationTail' \in Seq(Mutation) /\ Len(mutationTail') = n - 1
      /\ \A i \in 1 .. n - 1 : mutationTail'[i] = mutationTail[i + 1]
  BY <1>1, <1>2, HeadTailProperties
<1>4. Injective(mutationTail')
  BY <1>1, <1>2, <1>3 DEF ChainTakesTurns, Injective
<1>5. \A i \in 1 .. n - 1 : mutationTail[i + 1] # m /\ i + 1 \in 1 .. n
  BY <1>1, <1>2 DEF ChainTakesTurns, Injective
<1>6. \A i \in 1 .. Len(mutationTail') : phase'[mutationTail'[i]] # "idle"
  BY <1>1, <1>3, <1>5 DEF ChainTakesTurns
<1>7. \A k \in Mutation : phase'[k] # "idle" =>
                              \E i \in 1 .. Len(mutationTail') : mutationTail'[i] = k
  <2>1. SUFFICES ASSUME NEW k \in Mutation, phase'[k] # "idle"
                 PROVE  \E i \in 1 .. Len(mutationTail') : mutationTail'[i] = k
    OBVIOUS
  <2>2. k # m /\ phase[k] # "idle"
    BY <2>1
  <2>3. PICK i \in 1 .. n : mutationTail[i] = k
    BY <2>2 DEF ChainTakesTurns
  <2>4. i - 1 \in 1 .. n - 1 /\ mutationTail'[i - 1] = k
    BY <1>1, <1>2, <1>3, <2>2, <2>3
  <2> QED
    BY <1>3, <2>4
<1>8. \A k \in Mutation : phase'[k] \in {"idle", "queued"}
  BY <1>2 DEF ChainTakesTurns
<1> QED
  BY <1>3, <1>4, <1>6, <1>7, <1>8 DEF ChainTakesTurns

-------------------------------------------------------------------------------
(* The invariant                                                              *)

\* What happens to a mutation is nothing to the reads.
LEMMA ReadsUntouched ==
    ASSUME ReqInv, NEW m \in Mutation, phase' \in [Request -> Phase],
           \A r \in Request \ {m} : phase'[r] = phase[r],
           readQueue' = readQueue, activeReads' = activeReads
    PROVE  /\ QueueWaits(phase', readQueue')
           /\ Counted(phase', activeReads')
           /\ readQueue' # << >> => activeReads' = Slots
<1>1. \A r \in Read : r \in Request \ {m}
  BY RequestAssumption DEF Request
<1>2. ActiveIn(phase') = ActiveIn(phase)
  BY <1>1 DEF ActiveIn
<1>3. \A i \in 1 .. Len(readQueue) : readQueue[i] \in Read
  BY LenProperties DEF ReqInv, QueueWaits
<1> QED
  BY <1>1, <1>2, <1>3, SameActiveReads

\* A request that has started goes from one place to the next.
LEMMA StaysStarted ==
    ASSUME ReqInv, NEW r \in Request, phase[r] \notin {"idle", "queued"},
           phase' \in [Request -> Phase], phase'[r] \notin {"idle", "queued"},
           \A q \in Request \ {r} : phase'[q] = phase[q],
           readQueue' = readQueue, activeReads' = activeReads, mutationTail' = mutationTail
    PROVE  ReqInv'
<1>1. CASE r \in Mutation
  <2>1. Head(mutationTail) = r
    BY <1>1 DEF ReqInv, ChainTakesTurns
  <2>2. ChainTakesTurns(phase', mutationTail')
    BY <1>1, <2>1, ChainGoesOn DEF ReqInv, Request
  <2> QED
    BY <1>1, <2>2, ReadsUntouched DEF ReqInv
<1>2. CASE r \in Read
  <2>1. \A m \in Mutation : m \in Request \ {r}
    BY <1>2, RequestAssumption DEF Request
  <2>2. ChainTakesTurns(phase', mutationTail')
    BY <2>1, ChainUntouched DEF ReqInv
  <2>3. ActiveIn(phase') = ActiveIn(phase)
    BY <1>2 DEF ActiveIn, Request
  <2>4. \A i \in 1 .. Len(readQueue) : readQueue[i] \in Request \ {r}
    BY LenProperties DEF ReqInv, QueueWaits, Request
  <2> QED
    BY <2>2, <2>3, <2>4, SameActiveReads DEF ReqInv
<1> QED
  BY <1>1, <1>2 DEF Request

\* A read is asked: it queues, and may be given a slot at once.
LEMMA AskReadKeeps ==
    ASSUME ReqInv, NEW r \in Read, AskRead(r)
    PROVE  ReqInv'
<1> DEFINE ph == [phase EXCEPT ![r] = "queued"]
           queue == Append(readQueue, r)
           n == Len(readQueue)
<1>1. /\ phase \in [Request -> Phase] /\ phase[r] = "idle"
      /\ Drain(ph, queue, activeReads, retryIn) /\ mutationTail' = mutationTail
  BY DEF ReqInv, AskRead
<1>2. ph \in [Request -> Phase] /\ ph[r] = "queued" /\ \A q \in Request \ {r} : ph[q] = phase[q]
  BY <1>1 DEF Phase, Request
<1>3. ActiveIn(ph) = ActiveIn(phase)
  BY <1>1, <1>2 DEF ActiveIn, Request
<1>4. /\ readQueue \in Seq(Read) /\ n \in Nat
      /\ \A i \in 1 .. n : readQueue[i] \in Read /\ readQueue[i] # r
  BY <1>1, LenProperties DEF ReqInv, QueueWaits
<1>5. /\ queue \in Seq(Read) /\ Len(queue) = n + 1
      /\ \A i \in 1 .. n : queue[i] = readQueue[i]
      /\ queue[n + 1] = r
  BY <1>4, AppendProperties
<1> HIDE DEF ph, queue
<1>6. QueueWaits(ph, queue)
  <2>1. Injective(queue)
    BY <1>4, <1>5 DEF ReqInv, QueueWaits, Injective
  <2>2. \A i \in 1 .. n : ph[queue[i]] = "queued"
    BY <1>2, <1>4, <1>5 DEF ReqInv, QueueWaits, Request
  <2>3. \A i \in 1 .. Len(queue) : i \in 1 .. n \/ i = n + 1
    BY <1>4, <1>5
  <2>4. \A i \in 1 .. Len(queue) : ph[queue[i]] = "queued"
    BY <1>2, <1>5, <2>2, <2>3
  <2> QED
    BY <1>5, <2>1, <2>4 DEF QueueWaits
<1>7. Counted(ph, activeReads)
  BY <1>3 DEF ReqInv, Counted
<1>8. /\ phase' \in [Request -> Phase]
      /\ QueueWaits(phase', readQueue')
      /\ Counted(phase', activeReads')
      /\ readQueue' # << >> => activeReads' = Slots
      /\ \A m \in Mutation : phase'[m] = ph[m]
  BY <1>1, <1>2, <1>6, <1>7, DrainCounts
<1>9. \A m \in Mutation : phase'[m] = phase[m]
  BY <1>2, <1>8, RequestAssumption DEF Request
<1>10. ChainTakesTurns(phase', mutationTail')
  BY <1>1, <1>9, ChainUntouched DEF ReqInv
<1> QED
  BY <1>8, <1>10 DEF ReqInv

\* A read is over: its slot goes to the head of the queue, whatever ended it.
LEMMA ReadEndsKeeps ==
    ASSUME ReqInv, NEW r \in Read, NEW until, ReadEnds(r, until)
    PROVE  ReqInv'
<1> DEFINE ph == [phase EXCEPT ![r] = "idle"]
<1>1. /\ phase \in [Request -> Phase] /\ phase[r] \in {"running", "failing"}
      /\ Drain(ph, readQueue, activeReads - 1, retryIn') /\ mutationTail' = mutationTail
  BY DEF ReqInv, ReadEnds
<1>2. ph \in [Request -> Phase] /\ ph[r] = "idle" /\ \A q \in Request \ {r} : ph[q] = phase[q]
  BY <1>1 DEF Phase, Request
<1>3. ActiveIn(ph) = ActiveIn(phase) \ {r} /\ r \in ActiveIn(phase)
  BY <1>1, <1>2 DEF ActiveIn, Request
<1> HIDE DEF ph
<1>4. QueueWaits(ph, readQueue)
  <2>1. \A i \in 1 .. Len(readQueue) : readQueue[i] \in Request \ {r}
    BY <1>1, LenProperties DEF ReqInv, QueueWaits, Request
  <2> QED
    BY <1>2, <2>1 DEF ReqInv, QueueWaits
<1>5. Counted(ph, activeReads - 1)
  <2>1. IsFiniteSet(ActiveIn(ph)) /\ Cardinality(ActiveIn(ph)) = activeReads - 1
    BY <1>3, FS_RemoveElement DEF ReqInv, Counted
  <2>2. activeReads \in Nat /\ activeReads <= Slots /\ Slots \in Nat
    BY FS_CardinalityType, RequestAssumption DEF ReqInv, Counted
  <2> QED
    BY <2>1, <2>2 DEF Counted
<1>6. /\ phase' \in [Request -> Phase]
      /\ QueueWaits(phase', readQueue')
      /\ Counted(phase', activeReads')
      /\ readQueue' # << >> => activeReads' = Slots
      /\ \A m \in Mutation : phase'[m] = ph[m]
  BY <1>1, <1>2, <1>4, <1>5, DrainCounts
<1>7. \A m \in Mutation : phase'[m] = phase[m]
  BY <1>2, <1>6, RequestAssumption DEF Request
<1>8. ChainTakesTurns(phase', mutationTail')
  BY <1>1, <1>7, ChainUntouched DEF ReqInv
<1> QED
  BY <1>6, <1>8 DEF ReqInv

\* A mutation is asked, has its turn, or is over.
LEMMA MutationKeeps ==
    ASSUME ReqInv, NEW m \in Mutation, NEW until,
           AskMutation(m) \/ MutationTurn(m) \/ MutationEnds(m, until)
    PROVE  ReqInv'
<1>1. phase \in [Request -> Phase] /\ m \in Request /\ Mutation \subseteq Request
  BY DEF ReqInv, Request
<1>2. CASE AskMutation(m)
  <2>1. /\ phase' \in [Request -> Phase] /\ phase'[m] = "queued"
        /\ \A r \in Request \ {m} : phase'[r] = phase[r]
        /\ readQueue' = readQueue /\ activeReads' = activeReads
        /\ phase[m] = "idle" /\ mutationTail' = Append(mutationTail, m)
    BY <1>1, <1>2 DEF AskMutation, Phase
  <2>2. ChainTakesTurns(phase', mutationTail')
    BY <1>1, <2>1, ChainGrows DEF ReqInv
  <2> QED
    BY <2>1, <2>2, ReadsUntouched DEF ReqInv
<1>3. CASE MutationTurn(m)
  <2>1. /\ phase' \in [Request -> Phase] /\ phase'[m] # "idle"
        /\ \A r \in Request \ {m} : phase'[r] = phase[r]
        /\ readQueue' = readQueue /\ activeReads' = activeReads
        /\ phase[m] # "idle" /\ Head(mutationTail) = m /\ mutationTail' = mutationTail
    BY <1>1, <1>3 DEF MutationTurn, Hold, Rated, Phase
  <2>2. ChainTakesTurns(phase', mutationTail')
    BY <1>1, <2>1, ChainGoesOn DEF ReqInv
  <2> QED
    BY <2>1, <2>2, ReadsUntouched DEF ReqInv
<1>4. CASE MutationEnds(m, until)
  <2>1. /\ phase' \in [Request -> Phase] /\ phase'[m] = "idle"
        /\ \A r \in Request \ {m} : phase'[r] = phase[r]
        /\ readQueue' = readQueue /\ activeReads' = activeReads
        /\ phase[m] \notin {"idle", "queued"} /\ mutationTail' = Tail(mutationTail)
    BY <1>1, <1>4 DEF MutationEnds, Phase
  <2>2. ChainTakesTurns(phase', mutationTail')
    BY <1>1, <2>1, ChainShrinks DEF ReqInv
  <2> QED
    BY <2>1, <2>2, ReadsUntouched DEF ReqInv
<1> QED
  BY <1>2, <1>3, <1>4

\* A sleep or a continuation is over.
LEMMA GoingOnKeeps ==
    ASSUME ReqInv, NEW r \in Request, Woken(r) \/ GoesOn(r) \/ Rested(r)
    PROVE  ReqInv'
<1>1. phase \in [Request -> Phase]
  BY DEF ReqInv
<1>2. /\ phase[r] \notin {"idle", "queued"} /\ phase'[r] \notin {"idle", "queued"}
      /\ phase' \in [Request -> Phase]
      /\ \A q \in Request \ {r} : phase'[q] = phase[q]
      /\ readQueue' = readQueue /\ activeReads' = activeReads /\ mutationTail' = mutationTail
  <2>1. CASE Woken(r)
    BY <1>1, <2>1 DEF Woken, Hold, Rated, Phase
  <2>2. CASE GoesOn(r)
    BY <1>1, <2>2 DEF GoesOn, Starts, Phase
  <2>3. CASE Rested(r)
    BY <1>1, <2>3 DEF Rested, Starts, Phase
  <2> QED
    BY <2>1, <2>2, <2>3
<1> QED
  BY <1>2, StaysStarted

\* cancelIdentity: what had no slot is rejected, and frees none.
LEMMA CancelKeeps ==
    ASSUME ReqInv, CancelIdentity
    PROVE  ReqInv'
<1>1. /\ phase \in [Request -> Phase] /\ readQueue \in Seq(Read)
      /\ \A i \in 1 .. Len(readQueue) : readQueue[i] \in Read /\ phase[readQueue[i]] = "queued"
      /\ DOMAIN readQueue = 1 .. Len(readQueue)
  BY LenProperties DEF ReqInv, QueueWaits
<1>2. /\ phase' = [r \in Request |-> IF \E i \in DOMAIN readQueue : readQueue[i] = r
                                      THEN "idle" ELSE phase[r]]
      /\ readQueue' = << >> /\ activeReads' = activeReads /\ mutationTail' = mutationTail
  BY DEF CancelIdentity
<1>3. phase' \in [Request -> Phase]
  BY <1>1, <1>2 DEF Phase
<1>4. ActiveIn(phase') = ActiveIn(phase)
  BY <1>1, <1>2 DEF ActiveIn, Request
<1>5. \A m \in Mutation : phase'[m] = phase[m]
  BY <1>1, <1>2, RequestAssumption DEF Request
<1>6. ChainTakesTurns(phase', mutationTail')
  BY <1>2, <1>5, ChainUntouched DEF ReqInv
<1>7. QueueWaits(phase', << >>)
  BY EmptySeq DEF QueueWaits, Injective
<1> QED
  BY <1>2, <1>3, <1>4, <1>6, <1>7 DEF ReqInv, Counted

\* The inductive invariant holds at the start, and every step keeps it.
LEMMA ReqInvInit == ReqInit => ReqInv
<1>1. SUFFICES ASSUME ReqInit PROVE ReqInv
  OBVIOUS
<1>2. phase \in [Request -> Phase] /\ \A r \in Request : phase[r] = "idle"
  BY <1>1 DEF ReqInit, Phase
<1>3. QueueWaits(phase, readQueue) /\ readQueue = << >>
  BY <1>1, EmptySeq DEF ReqInit, QueueWaits, Injective
<1>4. ActiveIn(phase) = {} /\ activeReads = 0
  BY <1>1, <1>2 DEF ReqInit, ActiveIn, Request
<1>5. Counted(phase, activeReads)
  BY <1>4, FS_EmptySet, RequestAssumption DEF Counted
<1>6. ChainTakesTurns(phase, mutationTail)
  BY <1>1, <1>2, EmptySeq DEF ReqInit, ChainTakesTurns, Injective, Request
<1> QED
  BY <1>2, <1>3, <1>5, <1>6 DEF ReqInv

LEMMA ReqInvNext == ReqInv /\ [ReqNext]_reqVars => ReqInv'
<1>1. SUFFICES ASSUME ReqInv, [ReqNext]_reqVars PROVE ReqInv'
  OBVIOUS
<1>2. ASSUME UNCHANGED <<phase, readQueue, activeReads, mutationTail>>
      PROVE  ReqInv'
  BY <1>1, <1>2 DEF ReqInv, QueueWaits, Counted, ChainTakesTurns, ActiveIn, Injective
<1>3. ASSUME NEW r \in Read, AskRead(r)
      PROVE  ReqInv'
  BY <1>1, <1>3, AskReadKeeps
<1>4. ASSUME NEW m \in Mutation, AskMutation(m) \/ MutationTurn(m)
      PROVE  ReqInv'
  BY <1>1, <1>4, MutationKeeps
<1>5. ASSUME NEW r \in Request, ReqGoesOn(r)
      PROVE  ReqInv'
  BY <1>1, <1>4, <1>5, GoingOnKeeps DEF ReqGoesOn
<1>6. ASSUME NEW r \in Request, ReqEnds(r)
      PROVE  ReqInv'
  BY <1>1, <1>6, ReadEndsKeeps, MutationKeeps DEF ReqEnds
<1>7. ASSUME CancelIdentity
      PROVE  ReqInv'
  BY <1>1, <1>7, CancelKeeps
<1>8. ASSUME (\E until \in 1 .. Farthest : NoteLimit(until)) \/ ReqTick
      PROVE  ReqInv'
  BY <1>2, <1>8 DEF NoteLimit, ReqTick
<1>9. CASE UNCHANGED reqVars
  BY <1>2, <1>9 DEF reqVars
<1> QED
  BY <1>1, <1>3, <1>4, <1>5, <1>6, <1>7, <1>8, <1>9 DEF ReqNext

LEMMA ReqInvAlways == ReqSpec => []ReqInv
  BY ReqInvInit, ReqInvNext, PTL DEF ReqSpec

\* A slot is held by every read that has started and by nothing else, whether it is answered,
\* held by the rate limit, refused or cancelled: releaseRead gives back what drainReads took,
\* no read queues beside a free slot, and no mutation overtakes another.
THEOREM SlotsAreCounted == ReqSpec => []SlotsCounted
<1>1. ReqInv => SlotsCounted
  BY DEF ReqInv, SlotsCounted, Counted, ChainTakesTurns, Active, ActiveIn
<1> QED
  BY <1>1, ReqInvAlways, PTL

-------------------------------------------------------------------------------
(* How long a request waits: no sleep is longer than the farthest reset or the spacing, and
   no deadline farther than MAX_RATE_WAIT_MS.                                          *)

Paced == /\ stale \subseteq Request
         /\ retryIn \in 0 .. Farthest /\ restIn \in 0 .. Spacing
         /\ wakeIn \in [Request -> 0 .. (Farthest + Spacing)]
         /\ patience \in [Request -> 0 .. MaxWait]

LEMMA PacedInit == ReqInit => Paced
  BY RequestAssumption DEF ReqInit, Paced

\* waitForRate sleeps to the reset it is shown, and sets the deadline on entry only.
LEMMA HoldPaces ==
    ASSUME Paced, NEW ph, NEW ss, NEW woken, NEW rate \in 0 .. Farthest,
           Hold(ph, ss, woken, rate)
    PROVE  /\ wakeIn' \in [Request -> 0 .. (Farthest + Spacing)]
           /\ patience' \in [Request -> 0 .. MaxWait]
<1>1. 0 .. Farthest \subseteq 0 .. (Farthest + Spacing) /\ MaxWait \in 0 .. MaxWait
  BY RequestAssumption
<1>2. wakeIn' = [r \in Request |-> IF r \in ss \cup woken THEN rate ELSE wakeIn[r]]
  BY DEF Hold
<1>3. patience' = [r \in Request |-> IF r \in ss THEN MaxWait ELSE patience[r]]
  BY DEF Hold
<1> QED
  BY <1>1, <1>2, <1>3 DEF Paced

LEMMA LaterIsNear ==
    ASSUME Paced, NEW until \in 0 .. Farthest
    PROVE  Later(until) \in 0 .. Farthest
  BY DEF Paced, Later

\* An operation that starts sets the spacing anew.
LEMMA StartsPaces ==
    ASSUME Paced, NEW r \in Request, Starts(r)
    PROVE  restIn' \in 0 .. Spacing /\ wakeIn' = wakeIn
<1>1. Spacing \in 0 .. Spacing
  BY RequestAssumption
<1> QED
  BY <1>1 DEF Starts, Paced

LEMMA PacedNext == Paced /\ [ReqNext]_reqVars => Paced'
<1> SUFFICES ASSUME Paced, [ReqNext]_reqVars PROVE Paced'
  OBVIOUS
<1>1. ASSUME NEW r \in Read, AskRead(r)
      PROVE  Paced'
  <2>1. \E ph, ss : Hold(ph, ss, {}, retryIn)
    BY <1>1 DEF AskRead, Drain
  <2>2. /\ wakeIn' \in [Request -> 0 .. (Farthest + Spacing)]
        /\ patience' \in [Request -> 0 .. MaxWait]
    BY <2>1, HoldPaces DEF Paced
  <2> QED
    BY <1>1, <2>2 DEF AskRead, Paced
<1>2. ASSUME NEW m \in Mutation, AskMutation(m)
      PROVE  Paced'
  BY <1>2 DEF AskMutation, Paced
<1>3. ASSUME NEW r \in Request, ReqGoesOn(r)
      PROVE  Paced'
  <2>1. ASSUME MutationTurn(r) \/ Woken(r)
        PROVE  Paced'
    <3>1. \E ph, ss, woken : Hold(ph, ss, woken, retryIn)
      BY <2>1 DEF MutationTurn, Woken
    <3>2. /\ wakeIn' \in [Request -> 0 .. (Farthest + Spacing)]
          /\ patience' \in [Request -> 0 .. MaxWait]
      BY <3>1, HoldPaces DEF Paced
    <3>3. UNCHANGED <<stale, retryIn, restIn>>
      BY <2>1 DEF MutationTurn, Woken
    <3> QED
      BY <3>2, <3>3 DEF Paced
  <2>2. ASSUME Rested(r)
        PROVE  Paced'
    <3>1. restIn' \in 0 .. Spacing /\ wakeIn' = wakeIn /\ UNCHANGED <<stale, retryIn, patience>>
      BY <2>2, StartsPaces DEF Rested
    <3> QED
      BY <3>1 DEF Paced
  <2>3. ASSUME GoesOn(r)
        PROVE  Paced'
    <3>1. CASE Starts(r)
      <4>1. restIn' \in 0 .. Spacing /\ wakeIn' = wakeIn /\ UNCHANGED <<stale, retryIn, patience>>
        BY <2>3, <3>1, StartsPaces DEF GoesOn
      <4> QED
        BY <4>1 DEF Paced
    <3>2. CASE ~Starts(r)
      <4>1. /\ wakeIn' = [wakeIn EXCEPT ![r] = restIn]
            /\ UNCHANGED <<stale, retryIn, restIn, patience>>
        BY <2>3, <3>2 DEF GoesOn
      <4>2. restIn \in 0 .. (Farthest + Spacing)
        BY RequestAssumption DEF Paced
      <4>3. wakeIn' \in [Request -> 0 .. (Farthest + Spacing)]
        BY <4>1, <4>2 DEF Paced
      <4> QED
        BY <4>1, <4>3 DEF Paced
    <3> QED
      BY <3>1, <3>2
  <2> QED
    BY <1>3, <2>1, <2>2, <2>3 DEF ReqGoesOn
<1>4. ASSUME NEW r \in Request, NEW until \in 0 .. Farthest, r \in Read, ReadEnds(r, until)
      PROVE  Paced'
  <2>1. retryIn' \in 0 .. Farthest
    BY <1>4, LaterIsNear DEF ReadEnds
  <2>2. \E ph, ss : Hold(ph, ss, {}, retryIn')
    BY <1>4 DEF ReadEnds, Drain
  <2>3. /\ wakeIn' \in [Request -> 0 .. (Farthest + Spacing)]
        /\ patience' \in [Request -> 0 .. MaxWait]
    BY <2>1, <2>2, HoldPaces
  <2> QED
    BY <1>4, <2>1, <2>3 DEF ReadEnds, Paced
<1>5. ASSUME NEW r \in Request, NEW until \in 0 .. Farthest, MutationEnds(r, until)
      PROVE  Paced'
  <2>1. retryIn' \in 0 .. Farthest
    BY <1>5, LaterIsNear DEF MutationEnds
  <2> QED
    BY <1>5, <2>1 DEF MutationEnds, Paced
<1>6. ASSUME NEW until \in 1 .. Farthest, NoteLimit(until)
      PROVE  Paced'
  <2>1. retryIn' \in 0 .. Farthest
    BY <1>6, LaterIsNear DEF NoteLimit
  <2> QED
    BY <1>6, <2>1 DEF NoteLimit, Paced
<1>7. CASE CancelIdentity
  BY <1>7 DEF CancelIdentity, Paced
<1>8. CASE ReqTick
  <2>1. \A n \in Nat : \A t \in 0 .. n : Sooner(t) \in 0 .. n
    BY DEF Sooner
  <2>2. {Farthest, Spacing, MaxWait, Farthest + Spacing} \subseteq Nat
    BY RequestAssumption
  <2> QED
    BY <1>8, <2>1, <2>2 DEF ReqTick, Paced
<1>9. CASE UNCHANGED reqVars
  BY <1>9 DEF reqVars, Paced
<1> QED
  BY <1>1, <1>2, <1>3, <1>4, <1>5, <1>6, <1>7, <1>8, <1>9 DEF ReqNext, ReqEnds

LEMMA ReqInvTyped == ReqInv /\ Paced => ReqTypeOK
<1> SUFFICES ASSUME ReqInv, Paced PROVE ReqTypeOK
  OBVIOUS
<1>1. activeReads \in Nat
  BY FS_CardinalityType DEF ReqInv, Counted
<1> QED
  BY <1>1 DEF ReqInv, Paced, QueueWaits, ChainTakesTurns, ReqTypeOK

-------------------------------------------------------------------------------
(* The session host, for any number of clients, kill operations and generations: a name has
   one generation at a time, a kill is confirmed only of a process that has exited, and a
   leased name is free.                                                                *)

Retirement == {"no", "waiting", "draining", "done"}
Process == {"unborn", "alive", "dying", "exited"}
KillStep == {"unsent", "waiting", "taskkill", "pending", "ok", "error"}
KillRequest == [step : KillStep, gen : 0 .. MaxGeneration, expects : 0 .. MaxGeneration,
                reserves : BOOLEAN]
AttachRequest == [step : {"idle", "turn", "warm", "cold", "undo"}, kind : {"attach", "existing"},
                  gen : 0 .. MaxGeneration, token : Op \cup {NoOp}]

\* The types the argument needs (the order of the turns is not among them).
Typed == /\ current \in 0 .. MaxGeneration /\ started \in 0 .. MaxGeneration
         /\ proc \in [Generation -> Process]
         /\ retire \in [Generation -> Retirement]
         /\ owner \in [Generation -> Op \cup {NoOp}]
         /\ op \in [Op -> KillRequest]
         /\ attach \in [Client -> AttachRequest]
         /\ killing \in Op \cup {NoOp}

\* Processes come one after another: all but the last are over, and the name belongs to the
\* last one until its output is drained.
Lives == /\ current \in {0, started}
         /\ \A g \in Generation :
               /\ g > started => proc[g] = "unborn" /\ retire[g] = "no" /\ owner[g] = NoOp
               /\ g <= started => proc[g] # "unborn"
               /\ g < started => retire[g] = "done"
               /\ g = started => (current = 0 <=> retire[g] = "done")
               /\ proc[g] = "exited" <=> retire[g] \in {"draining", "done"}

\* What an operation is remembered for is what it was sent for, and the one a generation's
\* end will confirm is the one that is ending it.
Confirmed(o) == op[o].expects = 0 \/ proc[op[o].expects] = "exited"
Ends == /\ \A o \in Op : /\ op[o].expects <= started
                         /\ o \in completed \/ op[o].step = "ok" => Confirmed(o)
        /\ \A g \in Generation : owner[g] # NoOp =>
              /\ retire[g] = "draining"
              /\ op[owner[g]].expects = g
              /\ op[owner[g]].step # "unsent"
        /\ killing # NoOp =>
              /\ current # 0
              /\ op[killing].expects = current
              /\ op[killing].step # "unsent"
              /\ proc[current] = "exited" => owner[current] = killing

\* The grace timer is never older than the lease, and the lease never outlasts the host.
Leases == grace \in {"off", "armed"} /\ LeaseHonoured

\* A request works on a generation that has begun.
Attaches == \A c \in Client :
               attach[c].step \in {"warm", "cold", "undo"} => attach[c].gen \in 1 .. started

SessionInv == Typed /\ Lives /\ Ends /\ Leases /\ Attaches

-------------------------------------------------------------------------------
LEMMA InvImplies == SessionInv => OneGeneration /\ KillsAreExact /\ LeaseHonoured
<1> SUFFICES ASSUME SessionInv PROVE OneGeneration /\ KillsAreExact /\ LeaseHonoured
  OBVIOUS
<1>1. OneGeneration
  BY DEF SessionInv, Lives, OneGeneration
<1>2. KillsAreExact
  BY DEF SessionInv, Ends, Confirmed, KillsAreExact
<1> QED
  BY <1>1, <1>2 DEF SessionInv, Leases

\* Once no process lives under the name, every process the name had is over.
LEMMA AllOver ==
    ASSUME Typed, Lives, ~Live(current), NEW g \in Generation, g <= started
    PROVE  proc[g] = "exited"
  BY SessionAssumption DEF Typed, Lives, Live, Generation

LEMMA SessionInit_Inv == SessionInit => SessionInv
<1> SUFFICES ASSUME SessionInit PROVE SessionInv
  OBVIOUS
<1> USE SessionAssumption
<1>1. Typed
  BY DEF SessionInit, Typed, Process, Retirement, KillStep, KillRequest, AttachRequest, Unsent,
         NoRequest
<1>2. Lives
  BY DEF SessionInit, Lives, Generation
<1>3. Ends
  BY DEF SessionInit, Ends, Confirmed, Unsent
<1>4. Leases
  BY DEF SessionInit, Leases, LeaseHonoured, HostStays, Live
<1>5. Attaches
  BY DEF SessionInit, Attaches, NoRequest
<1> QED
  BY <1>1, <1>2, <1>3, <1>4, <1>5 DEF SessionInv

-------------------------------------------------------------------------------
(* Kills that only answer                                                     *)

\* An operation that is sent, or sent again with the parameters it had.
AskOk(o, ask) == /\ ask \in KillRequest
                 /\ ask.expects <= started
                 /\ ask.expects = op[o].expects \/ op[o].step = "unsent"

LEMMA AnswerIs ==
    ASSUME Typed, NEW o \in Op, NEW ask, AskOk(o, ask), NEW s \in KillStep,
           op' = [op EXCEPT ![o] = [ask EXCEPT !.step = s]]
    PROVE  /\ op' \in [Op -> KillRequest]
           /\ op'[o].step = s /\ op'[o].expects = ask.expects
           /\ \A p \in Op : p # o => op'[p] = op[p]
<1>1. ask \in KillRequest /\ op \in [Op -> KillRequest]
  BY DEF Typed, AskOk
<1>2. /\ [ask EXCEPT !.step = s] \in KillRequest
      /\ [ask EXCEPT !.step = s].step = s
      /\ [ask EXCEPT !.step = s].expects = ask.expects
  BY <1>1 DEF KillRequest
<1> HIDE DEF KillRequest
<1> QED
  BY <1>1, <1>2

\* The record of one operation changes and nothing else of the name does.
LEMMA AnswerKeeps ==
    ASSUME SessionInv, NEW o \in Op, NEW ask, AskOk(o, ask), NEW s \in KillStep \ {"unsent"},
           op' = [op EXCEPT ![o] = [ask EXCEPT !.step = s]],
           Bystander, UNCHANGED killing,
           completed' \in {completed, completed \cup {o}},
           o \in completed' \/ s = "ok" => ask.expects = 0 \/ proc[ask.expects] = "exited"
    PROVE  Typed' /\ Lives' /\ Ends' /\ Attaches'
<1>1. /\ op' \in [Op -> KillRequest]
      /\ op'[o].step = s /\ op'[o].expects = ask.expects
      /\ \A p \in Op : p # o => op'[p] = op[p]
  BY AnswerIs DEF SessionInv
<1>2. UNCHANGED <<current, proc, retire, owner, attach, started>>
  BY DEF Bystander
<1>3. Typed'
  BY <1>1, <1>2 DEF SessionInv, Typed
<1>4. Lives' /\ Attaches'
  BY <1>2 DEF SessionInv, Lives, Attaches
<1>5. ASSUME NEW p \in Op, p = o => op[o].step # "unsent"
      PROVE  /\ op'[p].expects = op[p].expects
             /\ op[p].step # "unsent" => op'[p].step # "unsent"
  BY <1>1, <1>5 DEF AskOk
<1>6. Ends'
  <2>1. ASSUME NEW p \in Op
        PROVE  /\ op'[p].expects <= started
               /\ p \in completed' \/ op'[p].step = "ok" => Confirmed(p)'
    <3>1. CASE p = o
      BY <1>1, <1>2, <3>1 DEF AskOk, Confirmed
    <3>2. CASE p # o
      BY <1>1, <1>2, <3>2 DEF SessionInv, Ends, Confirmed
    <3> QED
      BY <3>1, <3>2
  <2>2. ASSUME NEW g \in Generation, owner[g] # NoOp
        PROVE  /\ retire[g] = "draining"
               /\ op'[owner[g]].expects = g
               /\ op'[owner[g]].step # "unsent"
    <3>1. /\ owner[g] \in Op
          /\ retire[g] = "draining" /\ op[owner[g]].expects = g /\ op[owner[g]].step # "unsent"
      BY <2>2 DEF SessionInv, Typed, Ends
    <3> QED
      BY <1>5, <3>1
  <2>3. ASSUME killing # NoOp
        PROVE  /\ current # 0
               /\ op'[killing].expects = current
               /\ op'[killing].step # "unsent"
               /\ proc[current] = "exited" => owner[current] = killing
    <3>1. /\ killing \in Op
          /\ current # 0 /\ op[killing].expects = current /\ op[killing].step # "unsent"
          /\ proc[current] = "exited" => owner[current] = killing
      BY <2>3 DEF SessionInv, Typed, Ends
    <3> QED
      BY <1>5, <3>1
  <2> QED
    BY <1>2, <2>1, <2>2, <2>3 DEF Ends
<1> QED
  BY <1>3, <1>4, <1>6

LEMMA LeasesKept ==
    ASSUME Leases, UNCHANGED <<current, proc, lease, grace, gone>>
    PROVE  Leases'
  BY DEF Leases, LeaseHonoured, HostStays, Live

LEMMA LeaseTaken ==
    ASSUME ~gone, ~Live(current), UNCHANGED <<current, proc, gone>>, NEW o, TakeLease(o)
    PROVE  Leases'
  BY DEF Leases, LeaseHonoured, HostStays, Live, TakeLease

LEMMA ConfirmKeeps ==
    ASSUME SessionInv, ~gone, NEW o \in Op, NEW ask, AskOk(o, ask), ~Live(current),
           Confirm(o, ask), Bystander, UNCHANGED killing,
           o \in completed => ask.expects = 0 \/ proc[ask.expects] = "exited"
    PROVE  SessionInv'
<1>1. ask.expects = 0 \/ proc[ask.expects] = "exited"
  BY AllOver, SessionAssumption DEF SessionInv, AskOk, KillRequest, Generation
<1>2. UNCHANGED <<current, proc, gone>>
  BY DEF Bystander
<1>3. CASE /\ ~ask.reserves
           /\ op' = [op EXCEPT ![o] = [ask EXCEPT !.step = "ok"]]
           /\ completed' = completed \cup {o}
           /\ UNCHANGED <<lease, leased, grace>>
  BY <1>1, <1>2, <1>3, AnswerKeeps, LeasesKept DEF SessionInv, KillStep
<1>4. CASE /\ op' = [op EXCEPT ![o] = [ask EXCEPT !.step = "ok"]]
           /\ completed' = completed \cup {o}
           /\ TakeLease(o)
  BY <1>1, <1>2, <1>4, AnswerKeeps, LeaseTaken DEF SessionInv, KillStep
<1>5. CASE /\ op' = [op EXCEPT ![o] = [ask EXCEPT !.step = "error"]]
           /\ UNCHANGED <<completed, lease, leased, grace>>
  BY <1>1, <1>2, <1>5, AnswerKeeps, LeasesKept DEF SessionInv, KillStep
<1> QED
  BY <1>3, <1>4, <1>5 DEF Confirm

LEMMA SupersededKeeps ==
    ASSUME SessionInv, NEW o \in Op, NEW ask, AskOk(o, ask), Live(current),
           ask.expects # current, Superseded(o, ask), Bystander, UNCHANGED killing,
           o \in completed => ask.expects = 0 \/ proc[ask.expects] = "exited"
    PROVE  SessionInv'
<1>1. ask.expects = 0 \/ proc[ask.expects] = "exited"
  BY SessionAssumption DEF SessionInv, Typed, Lives, Live, AskOk, KillRequest, Generation
<1>2. /\ UNCHANGED <<current, proc, gone, lease, grace>>
      /\ completed' \in {completed, completed \cup {o}}
  BY DEF Bystander, Superseded
<1>3. \E s \in KillStep \ {"unsent"} : op' = [op EXCEPT ![o] = [ask EXCEPT !.step = s]]
  <2>1. CASE ask.reserves
    <3>1. op' = [op EXCEPT ![o] = [ask EXCEPT !.step = "error"]]
      BY <2>1 DEF Superseded
    <3> QED
      BY <3>1 DEF KillStep
  <2>2. CASE ~ask.reserves
    <3>1. op' = [op EXCEPT ![o] = [ask EXCEPT !.step = "ok"]]
      BY <2>2 DEF Superseded
    <3> QED
      BY <3>1 DEF KillStep
  <2> QED
    BY <2>1, <2>2
<1>4. Typed' /\ Lives' /\ Ends' /\ Attaches'
  BY <1>1, <1>2, <1>3, AnswerKeeps
<1> QED
  BY <1>2, <1>4, LeasesKept DEF SessionInv

-------------------------------------------------------------------------------
(* Kills that end the session                                                 *)

\* The process is signalled, and nothing is said of the lease or the name.
LEMMA SignalKeeps ==
    ASSUME SessionInv, Live(current),
           proc' = [proc EXCEPT ![current] = "dying"],
           \E r \in Retirement \ {"draining", "done"} : retire' = [retire EXCEPT ![current] = r],
           UNCHANGED <<current, owner, attach, started, lease, grace, gone>>
    PROVE  Lives' /\ Leases' /\ Attaches' /\ \A g \in Generation : proc[g] = "exited" <=> proc'[g] = "exited"
<1> USE SessionAssumption
<1>1. current \in Generation /\ current = started /\ proc[current] # "exited"
  BY DEF SessionInv, Typed, Lives, Live, Generation
<1>2. \A g \in Generation : /\ proc'[g] = IF g = current THEN "dying" ELSE proc[g]
                            /\ g # current => retire'[g] = retire[g]
                            /\ g = current => retire'[g] \notin {"draining", "done"}
  BY <1>1 DEF SessionInv, Typed
<1>3. retire[current] \notin {"draining", "done"}
  BY <1>1 DEF SessionInv, Lives
<1>4. Lives'
  BY <1>1, <1>2, <1>3 DEF SessionInv, Lives, Generation, Typed
<1>5. Leases'
  BY <1>1, <1>2 DEF SessionInv, Leases, LeaseHonoured, HostStays, Live
<1>6. Attaches'
  BY DEF SessionInv, Attaches
<1> QED
  BY <1>1, <1>2, <1>4, <1>5, <1>6

LEMMA BeginKillKeeps ==
    ASSUME SessionInv, NEW o \in Op, NEW ask, AskOk(o, ask), Live(current),
           ask.expects = current, BeginKill(o, ask),
           o \in completed => ask.expects = 0 \/ proc[ask.expects] = "exited"
    PROVE  SessionInv'
<1>1. /\ UNCHANGED <<current, owner, attach, started, gone, completed, lease, grace>>
      /\ current # 0 /\ current \in Generation /\ proc[current] # "exited" /\ o \notin completed
      /\ retire[current] \notin {"draining", "done"}
  BY SessionAssumption DEF BeginKill, SessionInv, Typed, Lives, Live, Generation
<1>2. ASSUME NEW s \in KillStep \ {"unsent", "ok"},
             op' = [op EXCEPT ![o] = [ask EXCEPT !.step = s]],
             killing' = o \/ killing' = killing,
             \A g \in Generation : proc[g] = "exited" <=> proc'[g] = "exited",
             \A g \in Generation : retire[g] = "draining" => retire'[g] = "draining"
      PROVE  Ends' /\ op' \in [Op -> KillRequest] /\ killing' \in Op \cup {NoOp}
  <2>1. /\ op' \in [Op -> KillRequest]
        /\ op'[o].step = s /\ op'[o].expects = current
        /\ \A p \in Op : p # o => op'[p] = op[p]
    <3>1. Typed /\ s \in KillStep
      BY DEF SessionInv
    <3>2. /\ op' \in [Op -> KillRequest]
          /\ op'[o].step = s /\ op'[o].expects = ask.expects
          /\ \A p \in Op : p # o => op'[p] = op[p]
      BY <1>2, <3>1, AnswerIs
    <3> QED
      BY <3>2
  <2>2. ASSUME NEW p \in Op
        PROVE  /\ op'[p].expects <= started
               /\ p \in completed' \/ op'[p].step = "ok" => Confirmed(p)'
    <3>1. CASE p = o
      BY <1>1, <1>2, <2>1, <3>1 DEF AskOk
    <3>2. CASE p # o
      <4>1. op[p].expects \in 0 .. MaxGeneration
        BY DEF SessionInv, Typed, KillRequest
      <4> QED
        BY <1>1, <1>2, <2>1, <3>2, <4>1, SessionAssumption
           DEF SessionInv, Ends, Confirmed, Generation
    <3> QED
      BY <3>1, <3>2
  <2>3. ASSUME NEW g \in Generation, owner[g] # NoOp
        PROVE  /\ retire'[g] = "draining"
               /\ op'[owner[g]].expects = g
               /\ op'[owner[g]].step # "unsent"
    <3>1. /\ owner[g] \in Op
          /\ retire[g] = "draining" /\ op[owner[g]].expects = g /\ op[owner[g]].step # "unsent"
      BY <2>3 DEF SessionInv, Typed, Ends
    <3>2. owner[g] = o => current = g
      BY <3>1 DEF AskOk
    <3> QED
      BY <1>1, <1>2, <2>1, <3>1, <3>2
  <2>4. ASSUME killing' # NoOp
        PROVE  /\ killing' \in Op
               /\ op'[killing'].expects = current
               /\ op'[killing'].step # "unsent"
    <3>1. CASE killing' = o
      BY <2>1, <3>1
    <3>2. CASE killing' = killing /\ killing # o
      <4>1. killing \in Op /\ op[killing].expects = current /\ op[killing].step # "unsent"
        BY <2>4, <3>2 DEF SessionInv, Typed, Ends
      <4> QED
        BY <2>1, <3>2, <4>1
    <3> QED
      BY <1>2, <3>1, <3>2
  <2>5. proc'[current] # "exited"
    BY <1>1, <1>2
  <2>6. killing' \in Op \cup {NoOp}
    BY <2>4
  <2> QED
    BY <1>1, <2>1, <2>2, <2>3, <2>4, <2>5, <2>6 DEF Ends
<1>3. CASE /\ op' = [op EXCEPT ![o] = [ask EXCEPT !.step = "pending"]]
           /\ proc' = [proc EXCEPT ![current] = "dying"]
           /\ retire' = [retire EXCEPT ![current] = "waiting"]
           /\ killing' = o
  <2>1. Lives' /\ Leases' /\ Attaches' /\ \A g \in Generation : proc[g] = "exited" <=> proc'[g] = "exited"
    BY <1>1, <1>3, SignalKeeps DEF Retirement
  <2>2. \A g \in Generation : retire[g] = "draining" => retire'[g] = "draining"
    BY <1>1, <1>3 DEF SessionInv, Typed
  <2>3. Ends' /\ op' \in [Op -> KillRequest] /\ killing' \in Op \cup {NoOp}
    BY <1>2, <1>3, <2>1, <2>2 DEF KillStep
  <2>4. Typed'
    BY <1>1, <1>3, <2>3 DEF SessionInv, Typed, Process, Retirement
  <2> QED
    BY <2>1, <2>3, <2>4 DEF SessionInv
<1>4. ASSUME NEW s \in KillStep \ {"unsent", "ok"},
             op' = [op EXCEPT ![o] = [ask EXCEPT !.step = s]],
             killing' = o \/ killing' = killing, UNCHANGED <<proc, retire>>
      PROVE  SessionInv'
  <2>1. Ends' /\ op' \in [Op -> KillRequest] /\ killing' \in Op \cup {NoOp}
    BY <1>2, <1>4
  <2>2. Typed'
    BY <1>1, <1>4, <2>1 DEF SessionInv, Typed
  <2>3. Lives' /\ Leases' /\ Attaches'
    BY <1>1, <1>4, LeasesKept DEF SessionInv, Lives, Attaches
  <2> QED
    BY <2>1, <2>2, <2>3 DEF SessionInv
<1>5. CASE /\ op' = [op EXCEPT ![o] = [ask EXCEPT !.step = "error"]]
           /\ UNCHANGED <<proc, retire, killing>>
  BY <1>4, <1>5 DEF KillStep
<1>6. CASE /\ op' = [op EXCEPT ![o] = [ask EXCEPT !.step = "taskkill"]]
           /\ killing' = o
           /\ UNCHANGED <<proc, retire>>
  BY <1>4, <1>6 DEF KillStep
<1> QED
  BY <1>3, <1>5, <1>6 DEF BeginKill

LEMMA DecideKeeps ==
    ASSUME SessionInv, ~gone, NEW o \in Op, NEW ask, AskOk(o, ask), Decide(o, ask),
           o \in completed => ask.expects = 0 \/ proc[ask.expects] = "exited"
    PROVE  SessionInv'
<1>1. CASE ~Live(current) /\ Confirm(o, ask) /\ Bystander /\ UNCHANGED killing
  BY <1>1, ConfirmKeeps
<1>2. CASE /\ Live(current) /\ ask.expects # current
           /\ Superseded(o, ask) /\ Bystander /\ UNCHANGED killing
  BY <1>2, SupersededKeeps
<1>3. CASE Live(current) /\ ask.expects = current /\ BeginKill(o, ask)
  BY <1>3, BeginKillKeeps
<1> QED
  BY <1>1, <1>2, <1>3 DEF Decide

\* An answer to an operation that leaves its parameters, or takes those it is sent with.
LEMMA RepliedKeeps ==
    ASSUME SessionInv, NEW o \in Op, NEW ask, AskOk(o, ask),
           NEW s \in KillStep \ {"unsent", "ok"},
           op' = [op EXCEPT ![o] = [ask EXCEPT !.step = s]],
           o \in completed => ask.expects = 0 \/ proc[ask.expects] = "exited",
           Bystander, UNCHANGED <<killing, completed, lease, grace>>
    PROVE  SessionInv'
<1>1. UNCHANGED <<current, proc, gone>>
  BY DEF Bystander
<1>2. Typed' /\ Lives' /\ Ends' /\ Attaches'
  BY AnswerKeeps
<1> QED
  BY <1>1, <1>2, LeasesKept DEF SessionInv

LEMMA KillKeeps ==
    ASSUME SessionInv, ~gone, NEW o \in Op, NEW ask, AskOk(o, ask), Kill(o, ask)
    PROVE  SessionInv'
<1>1. o \notin completed
  BY DEF Kill
<1>2. CASE /\ op' = [op EXCEPT ![o] = [ask EXCEPT !.step = "error"]]
           /\ Bystander /\ UNCHANGED <<killing, completed, lease, leased, grace>>
  BY <1>1, <1>2, RepliedKeeps DEF KillStep
<1>3. CASE /\ killing = NoOp /\ Retiring(current)
           /\ op' = [op EXCEPT ![o] = [ask EXCEPT !.step = "waiting", !.gen = current]]
           /\ Bystander /\ UNCHANGED <<killing, completed, lease, leased, grace>>
  <2> DEFINE then == [ask EXCEPT !.gen = current]
  <2>1. ask \in KillRequest /\ current \in 0 .. MaxGeneration
    BY DEF AskOk, SessionInv, Typed
  <2>2. /\ then \in KillRequest /\ then.expects = ask.expects
        /\ [then EXCEPT !.step = "waiting"] = [ask EXCEPT !.step = "waiting", !.gen = current]
    BY <2>1 DEF KillRequest
  <2>3. AskOk(o, then)
    BY <2>2 DEF AskOk
  <2>4. op' = [op EXCEPT ![o] = [then EXCEPT !.step = "waiting"]]
    BY <1>3, <2>2
  <2>5. Bystander /\ UNCHANGED <<killing, completed, lease, grace>>
    BY <1>3
  <2>6. "waiting" \in KillStep \ {"unsent", "ok"}
    BY DEF KillStep
  <2> HIDE DEF then
  <2> QED
    BY <1>1, <2>3, <2>4, <2>5, <2>6, RepliedKeeps
<1>4. CASE Decide(o, ask)
  BY <1>1, <1>4, DecideKeeps
<1> QED
  BY <1>2, <1>3, <1>4 DEF Kill

\* A reply leaves the parameters of its operation.
LEMMA ReplyIs ==
    ASSUME Typed, Ends, NEW o \in Op, NEW s \in KillStep, Reply(o, s)
    PROVE  /\ op' = [op EXCEPT ![o] = [op[o] EXCEPT !.step = s]]
           /\ AskOk(o, op[o])
<1>1. op \in [Op -> KillRequest]
  BY DEF Typed
<1>2. op' = [op EXCEPT ![o] = [op[o] EXCEPT !.step = s]]
  BY <1>1 DEF Reply
<1>3. AskOk(o, op[o])
  BY <1>1 DEF AskOk, Ends
<1> QED
  BY <1>2, <1>3

LEMMA RetryKeeps ==
    ASSUME SessionInv, ~gone, NEW o \in Op, Retry(o)
    PROVE  SessionInv'
<1>1. /\ o \in completed /\ Bystander /\ UNCHANGED <<killing, completed>>
      /\ UNCHANGED <<current, proc, gone>>
      /\ op[o].expects = 0 \/ proc[op[o].expects] = "exited"
  BY DEF Retry, Bystander, SessionInv, Ends, Confirmed
<1>2. ASSUME NEW s \in KillStep \ {"unsent"}, Reply(o, s)
      PROVE  Typed' /\ Lives' /\ Ends' /\ Attaches'
  <2>1. /\ op' = [op EXCEPT ![o] = [op[o] EXCEPT !.step = s]]
        /\ AskOk(o, op[o])
    BY <1>2, ReplyIs DEF SessionInv
  <2> QED
    BY <1>1, <2>1, AnswerKeeps
<1>3. CASE ~op[o].reserves /\ Reply(o, "ok") /\ UNCHANGED <<lease, leased, grace>>
  BY <1>1, <1>2, <1>3, LeasesKept DEF SessionInv, KillStep
<1>4. CASE ~Live(current) /\ Reply(o, "ok") /\ TakeLease(o)
  BY <1>1, <1>2, <1>4, LeaseTaken DEF SessionInv, KillStep
<1>5. CASE Reply(o, "error") /\ UNCHANGED <<lease, leased, grace>>
  BY <1>1, <1>2, <1>5, LeasesKept DEF SessionInv, KillStep
<1> QED
  BY <1>3, <1>4, <1>5 DEF Retry

LEMMA SendKillKeeps ==
    ASSUME SessionInv, ~gone, NEW o \in Op, SendKill(o)
    PROVE  SessionInv'
<1>1. op[o] \in KillRequest /\ op[o].expects <= started /\ started \in 0 .. MaxGeneration
  BY DEF SessionInv, Typed, Ends
<1>2. ASSUME op[o].step = "unsent", NEW e \in 0 .. started, NEW r \in BOOLEAN,
             Kill(o, [op[o] EXCEPT !.expects = e, !.reserves = r])
      PROVE  SessionInv'
  <2> DEFINE ask == [op[o] EXCEPT !.expects = e, !.reserves = r]
  <2>1. e \in 0 .. MaxGeneration
    BY <1>1, SessionAssumption
  <2>2. ask \in KillRequest /\ ask.expects = e
    BY <1>1, <2>1 DEF KillRequest
  <2>3. AskOk(o, ask)
    BY <1>1, <1>2, <2>2 DEF AskOk
  <2> HIDE DEF ask
  <2> QED
    BY <1>2, <2>3, KillKeeps DEF ask
<1>3. CASE Kill(o, op[o])
  BY <1>1, <1>3, KillKeeps DEF AskOk
<1> QED
  BY <1>2, <1>3, RetryKeeps DEF SendKill

LEMMA KillResumesKeeps ==
    ASSUME SessionInv, ~gone, NEW o \in Op, KillResumes(o)
    PROVE  SessionInv'
<1>1. AskOk(o, op[o]) /\ (o \in completed => op[o].expects = 0 \/ proc[op[o].expects] = "exited")
  BY DEF SessionInv, Typed, Ends, Confirmed, AskOk
<1> QED
  BY <1>1, DecideKeeps DEF KillResumes

LEMMA TaskkillDoneKeeps ==
    ASSUME SessionInv, ~gone, NEW o \in Op, TaskkillDone(o)
    PROVE  SessionInv'
<1>1. /\ op[o].step = "taskkill"
      /\ Reply(o, "pending")
      /\ UNCHANGED <<current, owner, createdBy, turns, attach, started, gone, killing, completed,
                     lease, leased, grace>>
  BY DEF TaskkillDone
<1>2. /\ op' = [op EXCEPT ![o] = [op[o] EXCEPT !.step = "pending"]]
      /\ AskOk(o, op[o])
  BY <1>1, ReplyIs DEF SessionInv, KillStep
<1>3. /\ op' \in [Op -> KillRequest]
      /\ op'[o].step = "pending" /\ op'[o].expects = op[o].expects
      /\ \A p \in Op : p # o => op'[p] = op[p]
  BY <1>2, AnswerIs DEF SessionInv, KillStep
<1>4. ASSUME \A g \in Generation : proc[g] = "exited" <=> proc'[g] = "exited",
             \A g \in Generation : retire[g] = "draining" => retire'[g] = "draining"
      PROVE  Ends'
  <2>1. ASSUME NEW p \in Op
        PROVE  /\ op'[p].expects <= started
               /\ p \in completed \/ op'[p].step = "ok" => Confirmed(p)'
    <3>1. /\ op'[p].expects = op[p].expects
          /\ op'[p].step = "ok" => op[p].step = "ok"
          /\ op[p].expects \in 0 .. MaxGeneration
      BY <1>3 DEF SessionInv, Typed, KillRequest
    <3> QED
      BY <1>4, <3>1, SessionAssumption DEF SessionInv, Ends, Confirmed, Generation
  <2>2. ASSUME NEW g \in Generation, owner[g] # NoOp
        PROVE  /\ retire'[g] = "draining"
               /\ op'[owner[g]].expects = g
               /\ op'[owner[g]].step # "unsent"
    <3>1. /\ owner[g] \in Op
          /\ retire[g] = "draining" /\ op[owner[g]].expects = g /\ op[owner[g]].step # "unsent"
      BY <2>2 DEF SessionInv, Typed, Ends
    <3> QED
      BY <1>3, <1>4, <3>1
  <2>3. ASSUME killing # NoOp
        PROVE  /\ current # 0
               /\ op'[killing].expects = current
               /\ op'[killing].step # "unsent"
               /\ proc'[current] = "exited" => owner[current] = killing
    <3>1. /\ killing \in Op /\ current \in Generation
          /\ current # 0 /\ op[killing].expects = current /\ op[killing].step # "unsent"
          /\ proc[current] = "exited" => owner[current] = killing
      BY <2>3, SessionAssumption DEF SessionInv, Typed, Ends, Generation
    <3> QED
      BY <1>3, <1>4, <3>1
  <2> QED
    BY <1>1, <2>1, <2>2, <2>3 DEF Ends
<1>5. CASE /\ Live(current)
           /\ proc' = [proc EXCEPT ![current] = "dying"]
           /\ retire' = [retire EXCEPT ![current] = IF @ = "no" THEN "waiting" ELSE @]
  <2>1. current \in Generation /\ retire[current] \in Retirement \ {"draining", "done"}
    BY <1>5, SessionAssumption DEF SessionInv, Typed, Lives, Live, Generation
  <2>2. \E r \in Retirement \ {"draining", "done"} : retire' = [retire EXCEPT ![current] = r]
    <3>1. CASE retire[current] = "no"
      BY <1>5, <3>1 DEF Retirement
    <3>2. CASE retire[current] # "no"
      BY <1>5, <2>1, <3>2
    <3> QED
      BY <3>1, <3>2
  <2>3. Lives' /\ Leases' /\ Attaches' /\ \A g \in Generation : proc[g] = "exited" <=> proc'[g] = "exited"
    BY <1>1, <1>5, <2>2, SignalKeeps
  <2>4. \A g \in Generation : retire[g] = "draining" => retire'[g] = "draining"
    BY <2>1, <2>2 DEF SessionInv, Typed
  <2>5. Typed'
    BY <1>1, <1>3, <1>5, <2>2 DEF SessionInv, Typed, Process, Retirement
  <2> QED
    BY <1>4, <2>3, <2>4, <2>5 DEF SessionInv
<1>6. CASE UNCHANGED <<proc, retire>>
  <2>1. Typed'
    BY <1>1, <1>3, <1>6 DEF SessionInv, Typed
  <2>2. Lives' /\ Leases' /\ Attaches'
    BY <1>1, <1>6, LeasesKept DEF SessionInv, Lives, Attaches
  <2>3. Ends'
    BY <1>4, <1>6
  <2> QED
    BY <2>1, <2>2, <2>3 DEF SessionInv
<1> QED
  BY <1>5, <1>6 DEF TaskkillDone

LEMMA TaskkillFailsKeeps ==
    ASSUME SessionInv, NEW o \in Op, TaskkillFails(o)
    PROVE  SessionInv'
<1>1. /\ Reply(o, "error") /\ killing' = NoOp /\ Bystander
      /\ UNCHANGED <<current, proc, retire, owner, attach, started, gone>>
      /\ UNCHANGED <<completed, lease, grace>>
  BY DEF TaskkillFails, Bystander
<1>2. /\ op' = [op EXCEPT ![o] = [op[o] EXCEPT !.step = "error"]]
      /\ AskOk(o, op[o])
  BY <1>1, ReplyIs DEF SessionInv, KillStep
<1>3. /\ op' \in [Op -> KillRequest]
      /\ op'[o].step = "error" /\ op'[o].expects = op[o].expects
      /\ \A p \in Op : p # o => op'[p] = op[p]
  BY <1>2, AnswerIs DEF SessionInv, KillStep
<1>4. Ends'
  <2>1. ASSUME NEW p \in Op
        PROVE  /\ op'[p].expects <= started
               /\ p \in completed \/ op'[p].step = "ok" => Confirmed(p)'
    <3>1. /\ op'[p].expects = op[p].expects
          /\ op'[p].step = "ok" => op[p].step = "ok"
      BY <1>3
    <3> QED
      BY <1>1, <3>1 DEF SessionInv, Ends, Confirmed
  <2>2. ASSUME NEW g \in Generation, owner[g] # NoOp
        PROVE  /\ retire[g] = "draining"
               /\ op'[owner[g]].expects = g
               /\ op'[owner[g]].step # "unsent"
    <3>1. /\ owner[g] \in Op
          /\ retire[g] = "draining" /\ op[owner[g]].expects = g /\ op[owner[g]].step # "unsent"
      BY <2>2 DEF SessionInv, Typed, Ends
    <3> QED
      BY <1>3, <3>1
  <2> QED
    BY <1>1, <2>1, <2>2 DEF Ends
<1>5. Typed'
  BY <1>1, <1>3 DEF SessionInv, Typed
<1>6. Lives' /\ Leases' /\ Attaches'
  BY <1>1, LeasesKept DEF SessionInv, Lives, Attaches
<1> QED
  BY <1>4, <1>5, <1>6 DEF SessionInv

-------------------------------------------------------------------------------
(* The end of a generation                                                    *)

LEMMA ProcExitsKeeps ==
    ASSUME SessionInv, NEW g \in Generation, ProcExits(g)
    PROVE  SessionInv'
<1> USE SessionAssumption
<1>1. /\ proc[g] \in {"alive", "dying"}
      /\ proc' = [proc EXCEPT ![g] = "exited"]
      /\ retire' = [retire EXCEPT ![g] = "draining"]
      /\ owner' = [owner EXCEPT ![g] = killing]
      /\ UNCHANGED <<current, attach, op, killing, completed, lease, grace, started, gone>>
  BY DEF ProcExits
<1>2. g = current /\ g = started /\ retire[g] \notin {"draining", "done"}
  BY <1>1 DEF SessionInv, Typed, Lives, Generation
<1>3. \A h \in Generation : /\ proc'[h] = IF h = g THEN "exited" ELSE proc[h]
                            /\ retire'[h] = IF h = g THEN "draining" ELSE retire[h]
                            /\ owner'[h] = IF h = g THEN killing ELSE owner[h]
  BY <1>1 DEF SessionInv, Typed
<1>4. Typed'
  BY <1>1 DEF SessionInv, Typed, Process, Retirement
<1>5. Lives'
  BY <1>1, <1>2, <1>3 DEF SessionInv, Typed, Lives, Generation
<1>6. Ends'
  <2>1. ASSUME NEW p \in Op
        PROVE  /\ op[p].expects <= started
               /\ p \in completed \/ op[p].step = "ok" => Confirmed(p)'
    <3>1. op[p].expects \in 0 .. MaxGeneration
      BY DEF SessionInv, Typed, KillRequest
    <3> QED
      BY <1>1, <1>3, <3>1 DEF SessionInv, Ends, Confirmed, Generation
  <2>2. ASSUME NEW h \in Generation, owner'[h] # NoOp
        PROVE  /\ retire'[h] = "draining"
               /\ op[owner'[h]].expects = h
               /\ op[owner'[h]].step # "unsent"
    BY <1>2, <1>3, <2>2 DEF SessionInv, Ends
  <2>3. killing # NoOp => /\ current # 0
                          /\ op[killing].expects = current
                          /\ op[killing].step # "unsent"
                          /\ owner'[current] = killing
    BY <1>2, <1>3 DEF SessionInv, Ends
  <2> QED
    BY <1>1, <2>1, <2>2, <2>3 DEF Ends
<1>7. Leases'
  BY <1>1, <1>2, <1>3 DEF SessionInv, Leases, LeaseHonoured, HostStays, Live
<1>8. Attaches'
  BY <1>1 DEF SessionInv, Attaches
<1> QED
  BY <1>4, <1>5, <1>6, <1>7, <1>8 DEF SessionInv

LEMMA DrainedKeeps ==
    ASSUME SessionInv, ~gone, NEW g \in Generation, Drained(g)
    PROVE  SessionInv'
<1> USE SessionAssumption
<1> DEFINE o == owner[g]
<1>1. retire[g] = "draining" /\ g = current /\ g = started /\ proc[g] = "exited"
  <2>1. retire[g] = "draining"
    BY DEF Drained
  <2> QED
    BY <2>1 DEF SessionInv, Typed, Lives, Generation
<1>2. /\ retire' = [retire EXCEPT ![g] = "done"]
      /\ current' = 0
      /\ grace' = "armed"
      /\ owner' = [owner EXCEPT ![g] = NoOp]
      /\ UNCHANGED <<proc, attach, started, gone>>
  BY <1>1 DEF Drained
<1>3. \A h \in Generation : /\ retire'[h] = IF h = g THEN "done" ELSE retire[h]
                            /\ owner'[h] = IF h = g THEN NoOp ELSE owner[h]
  BY <1>2 DEF SessionInv, Typed
<1>4. Lives'
  BY <1>1, <1>2, <1>3 DEF SessionInv, Lives, Typed, Generation
<1>5. Leases'
  BY <1>2 DEF SessionInv, Leases, LeaseHonoured, HostStays, Live
<1>6. Attaches'
  BY <1>2 DEF SessionInv, Attaches
<1>7. \A h \in Generation : h # g => owner[h] = NoOp
  BY <1>1 DEF SessionInv, Typed, Lives, Ends, Generation
<1>8. owner'[g] = NoOp /\ \A h \in Generation : owner'[h] = NoOp
  BY <1>3, <1>7
<1>9. ASSUME op' \in [Op -> KillRequest],
             \A p \in Op : /\ op'[p].expects = op[p].expects
                           /\ op'[p].step = "ok" => op[p].step = "ok" \/ op[p].expects = g,
             \A p \in Op : p \in completed' => p \in completed \/ op[p].expects = g,
             killing' = NoOp
      PROVE  SessionInv'
  <2>1. Typed'
    BY <1>2, <1>3, <1>9 DEF SessionInv, Typed, Retirement
  <2>2. \A p \in Op : /\ op'[p].expects <= started'
                      /\ p \in completed' \/ op'[p].step = "ok" => Confirmed(p)'
    BY <1>1, <1>2, <1>9 DEF SessionInv, Ends, Confirmed
  <2>3. Ends'
    BY <1>8, <1>9, <2>2 DEF Ends
  <2> QED
    BY <1>4, <1>5, <1>6, <2>1, <2>3 DEF SessionInv
<1>10. CASE o = NoOp /\ UNCHANGED <<op, killing, completed, lease, leased>>
  <2>1. killing = NoOp
    BY <1>1, <1>10 DEF SessionInv, Ends
  <2> QED
    BY <1>9, <1>10, <2>1 DEF SessionInv, Typed
<1>11. CASE /\ o # NoOp
            /\ killing' = IF killing = o THEN NoOp ELSE killing
            /\ completed' = completed \cup {o}
            /\ op' = [op EXCEPT ![o].step = IF @ \in {"taskkill", "pending"} THEN "ok" ELSE @]
  <2>1. o \in Op /\ op[o].expects = g /\ op[o] \in KillRequest
    BY <1>11 DEF SessionInv, Typed, Ends
  <2>2. killing' = NoOp
    <3>1. killing # NoOp => killing = o
      BY <1>1 DEF SessionInv, Ends
    <3> QED
      BY <1>11, <3>1
  <2> DEFINE s == IF op[o].step \in {"taskkill", "pending"} THEN "ok" ELSE op[o].step
  <2>3. s \in KillStep
    BY <2>1 DEF KillRequest, KillStep
  <2>4. op' = [op EXCEPT ![o] = [op[o] EXCEPT !.step = s]]
    BY <1>11, <2>1 DEF SessionInv, Typed
  <2> HIDE DEF s, o
  <2>5. /\ op' \in [Op -> KillRequest]
        /\ op'[o].step = s /\ op'[o].expects = op[o].expects
        /\ \A p \in Op : p # o => op'[p] = op[p]
    <3>1. AskOk(o, op[o]) /\ Typed
      BY <2>1 DEF AskOk, SessionInv, Ends
    <3> QED
      BY <2>1, <2>3, <2>4, <3>1, AnswerIs
  <2>6. \A p \in Op : /\ op'[p].expects = op[p].expects
                      /\ op'[p].step = "ok" => op[p].step = "ok" \/ op[p].expects = g
    BY <2>1, <2>5
  <2>7. \A p \in Op : p \in completed' => p \in completed \/ op[p].expects = g
    BY <1>11, <2>1
  <2> QED
    BY <1>9, <2>2, <2>5, <2>6, <2>7
<1> QED
  BY <1>10, <1>11 DEF Drained

LEMMA RestKeeps ==
    ASSUME SessionInv, ~gone,
           (\E o \in Op : Forgets(o)) \/ LeaseLapses \/ GraceFires
    PROVE  SessionInv'
<1>1. ASSUME NEW o \in Op, Forgets(o)
      PROVE  SessionInv'
  <2>1. /\ completed' = completed \ {o}
        /\ UNCHANGED <<current, proc, retire, owner, attach, started, gone, op, killing, lease, grace>>
    BY <1>1 DEF Forgets, Bystander
  <2>2. Ends'
    BY <2>1 DEF SessionInv, Ends, Confirmed
  <2> QED
    BY <2>1, <2>2, LeasesKept DEF SessionInv, Typed, Lives, Attaches
<1>2. ASSUME \/ LeaseLapses
             \/ GraceFires
      PROVE  SessionInv'
  <2>1. UNCHANGED <<current, proc, retire, owner, attach, started, op, killing, completed>>
    BY <1>2 DEF LeaseLapses, GraceFires, Bystander
  <2>2. Leases'
    <3>1. CASE LeaseLapses
      BY <3>1 DEF LeaseLapses, Bystander, SessionInv, Leases, LeaseHonoured, HostStays, Live
    <3>2. CASE GraceFires
      <4>1. grace = "armed" /\ lease = NoOp
        BY <3>2 DEF GraceFires, SessionInv, Leases
      <4>2. lease' = NoOp /\ current' = current /\ grace' = "off" /\ gone' = (current = 0)
        BY <3>2, <4>1 DEF GraceFires
      <4> QED
        BY <4>2 DEF Leases, LeaseHonoured, HostStays
    <3> QED
      BY <1>2, <3>1, <3>2
  <2> QED
    BY <2>1, <2>2 DEF SessionInv, Typed, Lives, Ends, Confirmed, Attaches
<1> QED
  BY <1>1, <1>2

-------------------------------------------------------------------------------
(* Attaches                                                                   *)

\* A request's record changes, and nothing is said of what it is for.
LEMMA AttachWritten ==
    ASSUME SessionInv, NEW c \in Client, NEW r \in AttachRequest,
           attach' = [attach EXCEPT ![c] = r],
           started' \in 0 .. MaxGeneration, started <= started',
           r.step \in {"warm", "cold", "undo"} => r.gen \in 1 .. started'
    PROVE  attach' \in [Client -> AttachRequest] /\ Attaches'
<1>1. attach \in [Client -> AttachRequest] /\ started \in 0 .. MaxGeneration
  BY DEF SessionInv, Typed
<1>2. attach' \in [Client -> AttachRequest]
      /\ \A d \in Client : attach'[d] = IF d = c THEN r ELSE attach[d]
  BY <1>1
<1>3. Attaches'
  BY <1>1, <1>2, SessionAssumption DEF SessionInv, Attaches
<1> QED
  BY <1>2, <1>3

LEMMA AttachEdited ==
    ASSUME NEW a \in AttachRequest, NEW s \in {"idle", "turn", "warm", "cold", "undo"}
    PROVE  /\ [a EXCEPT !.step = s] \in AttachRequest
           /\ [a EXCEPT !.step = s].gen = a.gen
  BY DEF AttachRequest

LEMMA NoRequestIs == NoRequest \in AttachRequest /\ NoRequest.step = "idle"
  BY SessionAssumption DEF NoRequest, AttachRequest

\* Only the request, and the grace timer of a name that has a session, change.
LEMMA RequestKeeps ==
    ASSUME SessionInv, ~gone, NEW c \in Client, NEW r \in AttachRequest,
           attach' = [attach EXCEPT ![c] = r],
           r.step \in {"warm", "cold", "undo"} => r.gen \in 1 .. started,
           \/ UNCHANGED <<lease, grace>>
           \/ grace' = "armed" /\ lease' \in {lease, NoOp}
           \/ grace' = "off" /\ current # 0 /\ UNCHANGED lease,
           UNCHANGED <<current, proc, retire, owner, op, killing, completed, started, gone>>
    PROVE  SessionInv'
<1>1. attach' \in [Client -> AttachRequest] /\ Attaches'
  <2>1. started' \in 0 .. MaxGeneration /\ started <= started' /\ started' = started
    BY SessionAssumption DEF SessionInv, Typed
  <2> QED
    BY <2>1, AttachWritten
<1>2. Typed'
  BY <1>1 DEF SessionInv, Typed
<1>3. Lives' /\ Ends'
  BY DEF SessionInv, Lives, Ends, Confirmed
<1>4. Leases'
  BY DEF SessionInv, Leases, LeaseHonoured, HostStays, Live
<1> QED
  BY <1>1, <1>2, <1>3, <1>4 DEF SessionInv

LEMMA SpawnedKeeps ==
    ASSUME SessionInv, ~gone, NEW c \in Client, Spawned(c)
    PROVE  SessionInv'
<1> USE SessionAssumption
<1> DEFINE g == started + 1
<1>1. /\ current = 0 /\ started < MaxGeneration
      /\ current' = g /\ started' = g
      /\ proc' = [proc EXCEPT ![g] = "alive"]
      /\ attach' = [attach EXCEPT ![c] = [attach[c] EXCEPT !.step = "cold", !.gen = g]]
      /\ lease' = NoOp /\ grace' = "off"
      /\ UNCHANGED <<retire, owner, op, killing, completed, gone>>
  <2>1. attach' = [attach EXCEPT ![c] = [@ EXCEPT !.step = "cold", !.gen = g]]
    BY DEF Spawned
  <2>2. attach' = [attach EXCEPT ![c] = [attach[c] EXCEPT !.step = "cold", !.gen = g]]
    BY <2>1 DEF SessionInv, Typed
  <2> QED
    BY <2>2 DEF Spawned, AttachCold, NameClaimed
<1>2. g \in Generation /\ g \in 0 .. MaxGeneration /\ started \in 0 .. MaxGeneration
  BY <1>1 DEF SessionInv, Typed, Generation
<1>3. attach' \in [Client -> AttachRequest] /\ Attaches'
  <2> DEFINE r == [attach[c] EXCEPT !.step = "cold", !.gen = g]
  <2>1. attach[c] \in AttachRequest
    BY DEF SessionInv, Typed
  <2>2. r \in AttachRequest /\ r.gen = g
    BY <1>2, <2>1 DEF AttachRequest
  <2>3. g \in 1 .. g
    BY <1>2
  <2> HIDE DEF r
  <2>4. /\ attach' = [attach EXCEPT ![c] = r]
        /\ started' \in 0 .. MaxGeneration /\ started <= started'
        /\ r.gen \in 1 .. started'
    BY <1>1, <1>2, <2>2, <2>3 DEF r
  <2> HIDE DEF g
  <2> QED
    BY <2>2, <2>4, AttachWritten
<1>4. \A h \in Generation : proc'[h] = IF h = g THEN "alive" ELSE proc[h]
  BY <1>1 DEF SessionInv, Typed
<1>5. Typed'
  BY <1>1, <1>2, <1>3 DEF SessionInv, Typed, Process
<1>6. Lives'
  BY <1>1, <1>2, <1>4 DEF SessionInv, Lives, Generation
<1>7. killing = NoOp /\ \A h \in Generation : owner[h] = NoOp
  BY <1>1 DEF SessionInv, Ends, Lives, Typed, Generation
<1>8. Ends'
  <2>1. ASSUME NEW p \in Op
        PROVE  /\ op[p].expects <= g
               /\ p \in completed \/ op[p].step = "ok" => Confirmed(p)'
    <3>1. op[p].expects \in 0 .. MaxGeneration /\ op[p].expects <= started
      BY DEF SessionInv, Typed, KillRequest, Ends
    <3>2. op[p].expects <= g /\ op[p].expects # g
      BY <1>2, <3>1
    <3> HIDE DEF g
    <3>3. op[p].expects # 0 => proc'[op[p].expects] = proc[op[p].expects]
      BY <1>4, <3>1, <3>2 DEF Generation
    <3> QED
      BY <1>1, <3>2, <3>3 DEF SessionInv, Ends, Confirmed
  <2> QED
    BY <1>1, <1>7, <2>1 DEF Ends
<1>9. Leases'
  BY <1>1, <1>2 DEF SessionInv, Leases, LeaseHonoured, HostStays, Generation
<1> QED
  BY <1>3, <1>5, <1>6, <1>8, <1>9 DEF SessionInv

LEMMA ColdEndsKeeps ==
    ASSUME SessionInv, ~gone, NEW c \in Client, ColdEnds(c)
    PROVE  SessionInv'
<1> USE SessionAssumption
<1> DEFINE g == attach[c].gen
<1>1. /\ attach[c].step = "cold" /\ attach[c] \in AttachRequest
      /\ g \in Generation /\ g <= started
      /\ UNCHANGED <<current, owner, op, killing, completed, lease, grace, started, gone>>
  BY DEF ColdEnds, SessionInv, Typed, Attaches, Generation
<1>2. CASE Leave(c) /\ UNCHANGED <<proc, retire>>
  BY <1>1, <1>2, RequestKeeps, NoRequestIs DEF Leave
<1>3. CASE /\ attach' = [attach EXCEPT ![c] = [@ EXCEPT !.step = "undo"]]
           /\ proc' = [proc EXCEPT ![g] = IF @ = "alive" /\ retire[g] = "no" THEN "dying" ELSE @]
           /\ retire' = [retire EXCEPT ![g] = IF @ = "no" THEN "waiting" ELSE @]
  <2> DEFINE r == [attach[c] EXCEPT !.step = "undo"]
  <2>1. r \in AttachRequest /\ r.gen = g /\ g \in 1 .. started
    <3>1. g \in 1 .. started
      BY <1>1 DEF Generation, SessionInv, Typed
    <3> QED
      BY <1>1, <3>1, AttachEdited
  <2>2. attach' = [attach EXCEPT ![c] = r]
    BY <1>3 DEF SessionInv, Typed
  <2> HIDE DEF r, g
  <2>3. attach' \in [Client -> AttachRequest] /\ Attaches'
    <3>1. started' \in 0 .. MaxGeneration /\ started <= started' /\ started' = started
      BY <1>1 DEF SessionInv, Typed
    <3> QED
      BY <2>1, <2>2, <3>1, AttachWritten
  <2>4. /\ \A h \in Generation :
              /\ h # g => proc'[h] = proc[h] /\ retire'[h] = retire[h]
              /\ h = g => /\ proc'[h] = IF proc[h] = "alive" /\ retire[h] = "no"
                                        THEN "dying" ELSE proc[h]
                          /\ retire'[h] = IF retire[h] = "no" THEN "waiting" ELSE retire[h]
        /\ proc' \in [Generation -> Process] /\ retire' \in [Generation -> Retirement]
    BY <1>1, <1>3 DEF SessionInv, Typed, Process, Retirement, g
  <2>5. Typed'
    BY <1>1, <2>3, <2>4 DEF SessionInv, Typed
  <2>6. \A h \in Generation : /\ proc'[h] = "exited" <=> proc[h] = "exited"
                              /\ proc'[h] = "unborn" <=> proc[h] = "unborn"
                              /\ retire'[h] = "draining" <=> retire[h] = "draining"
                              /\ retire'[h] = "done" <=> retire[h] = "done"
                              /\ h # g => proc'[h] = proc[h] /\ retire'[h] = retire[h]
    BY <2>4
  <2>7. Lives'
    BY <1>1, <2>6 DEF SessionInv, Typed, Lives, Generation
  <2>8. Ends'
    <3>1. \A p \in Op : op[p].expects \in 0 .. MaxGeneration
      BY DEF SessionInv, Typed, KillRequest
    <3> QED
      BY <1>1, <2>6, <3>1 DEF SessionInv, Typed, Ends, Confirmed, Generation
  <2>9. Leases'
    BY <1>1, <2>6 DEF SessionInv, Typed, Leases, LeaseHonoured, HostStays, Live, Generation
  <2> QED
    BY <2>3, <2>5, <2>7, <2>8, <2>9 DEF SessionInv
<1> QED
  BY <1>2, <1>3 DEF ColdEnds

LEMMA AttachStepsKeep ==
    ASSUME SessionInv, ~gone, NEW c \in Client,
           \/ \E kind \in {"attach", "existing"}, t \in Op \cup {NoOp} : Ask(c, kind, t)
           \/ AttachSteps(c)
    PROVE  SessionInv'
<1> USE SessionAssumption
<1>1. attach[c] \in AttachRequest /\ current \in 0 .. started /\ started \in 0 .. MaxGeneration
  BY DEF SessionInv, Typed, Lives
<1>2. ASSUME NEW kind \in {"attach", "existing"}, NEW t \in Op \cup {NoOp}, Ask(c, kind, t)
      PROVE  SessionInv'
  <2> DEFINE r == [step |-> "turn", kind |-> kind, gen |-> 0, token |-> t]
  <2>1. r \in AttachRequest /\ r.step = "turn"
    BY DEF AttachRequest
  <2>2. /\ attach' = [attach EXCEPT ![c] = r]
        /\ UNCHANGED <<current, proc, retire, owner, op, killing, completed, started, gone>>
        /\ UNCHANGED <<lease, grace>>
    BY <1>2 DEF Ask
  <2> HIDE DEF r
  <2> QED
    BY <2>1, <2>2, RequestKeeps
<1>3. ASSUME Leave(c),
             \/ UNCHANGED <<lease, grace>>
             \/ grace' = "armed" /\ lease' \in {lease, NoOp}
             \/ grace' = "off" /\ current # 0 /\ UNCHANGED lease,
             UNCHANGED <<current, proc, retire, owner, op, killing, completed, started, gone>>
      PROVE  SessionInv'
  BY <1>3, RequestKeeps, NoRequestIs DEF Leave
<1>4. CASE AttachWarm(c)
  <2>1. /\ current # 0 /\ grace' = "off" /\ UNCHANGED lease
        /\ UNCHANGED <<current, proc, retire, owner, op, killing, completed, started, gone>>
    BY <1>4 DEF AttachWarm, NameClaimed
  <2>2. CASE attach' = [attach EXCEPT ![c] = [@ EXCEPT !.step = "warm", !.gen = current]]
    <3> DEFINE r == [attach[c] EXCEPT !.step = "warm", !.gen = current]
    <3>1. r \in AttachRequest /\ r.gen = current /\ current \in 1 .. started
      <4>1. /\ current \in 0 .. MaxGeneration /\ current \in 1 .. started
            /\ "warm" \in {"idle", "turn", "warm", "cold", "undo"}
        BY <1>1, <2>1
      <4>2. attach[c] \in AttachRequest
        BY <1>1
      <4> QED
        BY <4>1, <4>2 DEF AttachRequest
    <3>2. attach' = [attach EXCEPT ![c] = r]
      BY <2>2 DEF SessionInv, Typed
    <3> HIDE DEF r
    <3> QED
      BY <2>1, <3>1, <3>2, RequestKeeps
  <2> QED
    BY <1>3, <1>4, <2>1, <2>2 DEF AttachWarm
<1>5. CASE NotSpawned(c)
  <2>1. /\ grace' = "armed" /\ lease' \in {lease, NoOp} /\ Leave(c)
        /\ UNCHANGED <<current, proc, retire, owner, op, killing, completed, started, gone>>
    BY <1>5 DEF NotSpawned
  <2> QED
    BY <1>3, <2>1
<1>6. CASE WarmEnds(c)
  <2>1. /\ UNCHANGED <<lease, grace>>
        /\ UNCHANGED <<current, proc, retire, owner, op, killing, completed, started, gone>>
    BY <1>6 DEF WarmEnds
  <2>2. CASE attach' = [attach EXCEPT ![c] = [@ EXCEPT !.step = "turn", !.gen = 0]]
    <3> DEFINE r == [attach[c] EXCEPT !.step = "turn", !.gen = 0]
    <3>1. r \in AttachRequest /\ r.step = "turn"
      <4>1. /\ 0 \in 0 .. MaxGeneration
            /\ "turn" \in {"idle", "turn", "warm", "cold", "undo"}
        OBVIOUS
      <4>2. attach[c] \in AttachRequest
        BY <1>1
      <4> QED
        BY <4>1, <4>2 DEF AttachRequest
    <3>2. attach' = [attach EXCEPT ![c] = r]
      BY <2>2 DEF SessionInv, Typed
    <3> HIDE DEF r
    <3> QED
      BY <2>1, <3>1, <3>2, RequestKeeps
  <2> QED
    BY <1>3, <1>6, <2>1, <2>2 DEF WarmEnds
<1>7. CASE Undone(c)
  <2>1. /\ UNCHANGED <<lease, grace>> /\ Leave(c)
        /\ UNCHANGED <<current, proc, retire, owner, op, killing, completed, started, gone>>
    BY <1>7 DEF Undone
  <2> QED
    BY <1>3, <2>1
<1> QED
  BY <1>2, <1>4, <1>5, <1>6, <1>7, SpawnedKeeps, ColdEndsKeeps DEF AttachSteps

-------------------------------------------------------------------------------
LEMMA SessionNext_Inv == SessionInv /\ [SessionNext]_sessionVars => SessionInv'
<1> SUFFICES ASSUME SessionInv, [SessionNext]_sessionVars PROVE SessionInv'
  OBVIOUS
<1>1. CASE UNCHANGED sessionVars
  BY <1>1 DEF sessionVars, SessionInv, Typed, Lives, Ends, Confirmed, Leases, LeaseHonoured,
              HostStays, Live, Attaches
<1>2. CASE ~gone /\ SessionNext
  <2>1. ASSUME NEW o \in Op, SendKill(o) \/ KillSteps(o)
        PROVE  SessionInv'
    BY <1>2, <2>1, SendKillKeeps, KillResumesKeeps, TaskkillDoneKeeps, TaskkillFailsKeeps
       DEF KillSteps
  <2>2. ASSUME NEW g \in Generation, ProcExits(g) \/ Drained(g)
        PROVE  SessionInv'
    BY <1>2, <2>2, ProcExitsKeeps, DrainedKeeps
  <2> QED
    BY <1>2, <2>1, <2>2, AttachStepsKeep, RestKeeps DEF SessionNext
<1> QED
  BY <1>1, <1>2 DEF SessionNext

LEMMA SessionInvAlways == SessionSpec => []SessionInv
  BY SessionInit_Inv, SessionNext_Inv, PTL DEF SessionSpec

\* A name has one generation at a time (host.ts handleAttach, generation-barrier.ts), however
\* attaches, kills and exits interleave.
THEOREM GenerationsAreOne == SessionSpec => []OneGeneration
  BY SessionInvAlways, InvImplies, PTL

\* A kill is confirmed only of a process that has exited, and it is the one the kill was sent
\* for (host.ts handleKill, publishSessionEnd).
THEOREM KillsConfirmExits == SessionSpec => []KillsAreExact
  BY SessionInvAlways, InvImplies, PTL

\* A leased name has no process, and the host outlives sessions and leases (host.ts
\* setReplacementReservation, the grace timer).
THEOREM LeasesAreHonoured == SessionSpec => []LeaseHonoured
  BY SessionInvAlways, InvImplies, PTL

-------------------------------------------------------------------------------
(* The session host's turns and the rest of its types.                       *)

\* A request is in the queue of turns once, from its claim to its answer, and only the one at
\* its head has gone on.
TurnsTaken == /\ turns \in Seq(Client) /\ IsInjective(turns)
              /\ \A c \in Client : c \in ToSet(turns) <=> attach[c].step # "idle"
              /\ \A c \in Client : attach[c].step \in {"warm", "cold", "undo"}
                                      => turns # << >> /\ Head(turns) = c

\* The types that the argument above has no need of.
Named == /\ createdBy \in [Generation -> Op \cup {NoOp}]
         /\ completed \subseteq Op /\ leased \subseteq Op
         /\ lease \in Op \cup {NoOp}
         /\ gone \in BOOLEAN

\* A request takes its place behind the others, goes on from its turn, or leaves it.
LEMMA TurnAsked ==
    ASSUME Typed, TurnsTaken, NEW c \in Client, attach[c].step = "idle",
           NEW r, r.step = "turn", attach' = [attach EXCEPT ![c] = r], turns' = Append(turns, c)
    PROVE  TurnsTaken'
<1>1. attach \in [Client -> AttachRequest]
  BY DEF Typed
<1>2. \A d \in Client : attach'[d] = IF d = c THEN r ELSE attach[d]
  BY <1>1
<1>3. /\ turns' \in Seq(Client) /\ IsInjective(turns') /\ ToSet(turns') = ToSet(turns) \cup {c}
  BY AppendList DEF TurnsTaken
<1>4. ASSUME turns # << >> PROVE turns' # << >> /\ Head(turns') = Head(turns)
  <2>1. Len(turns) \in Nat /\ Len(turns) # 0
    BY <1>4, LenProperties, EmptySeq DEF TurnsTaken
  <2>2. Len(turns') = Len(turns) + 1 /\ turns'[1] = turns[1]
    BY <2>1, AppendProperties DEF TurnsTaken
  <2>3. turns' # << >>
    BY <1>3, <2>1, <2>2, EmptySeq
  <2> QED
    BY <1>3, <1>4, <2>2, <2>3, HeadTailProperties DEF TurnsTaken
<1> QED
  BY <1>2, <1>3, <1>4 DEF TurnsTaken

LEMMA TurnKept ==
    ASSUME Typed, TurnsTaken, NEW c \in Client, turns # << >>, Head(turns) = c,
           NEW r, r.step # "idle", attach' = [attach EXCEPT ![c] = r], turns' = turns
    PROVE  TurnsTaken'
<1>1. attach \in [Client -> AttachRequest]
  BY DEF Typed
<1>2. \A d \in Client : attach'[d] = IF d = c THEN r ELSE attach[d]
  BY <1>1
<1>3. c \in ToSet(turns)
  BY TailList DEF TurnsTaken
<1> QED
  BY <1>2, <1>3 DEF TurnsTaken

LEMMA TurnLeft ==
    ASSUME Typed, TurnsTaken, NEW c \in Client, turns # << >>, Head(turns) = c, Leave(c)
    PROVE  TurnsTaken'
<1>1. attach \in [Client -> AttachRequest]
  BY DEF Typed
<1>2. \A d \in Client : attach'[d] = IF d = c THEN NoRequest ELSE attach[d]
  BY <1>1 DEF Leave
<1>3. turns' \in Seq(Client) /\ IsInjective(turns') /\ ToSet(turns') = ToSet(turns) \ {c}
  BY TailList DEF TurnsTaken, Leave
<1>4. \A d \in Client : attach'[d].step \in {"warm", "cold", "undo"} => FALSE
  BY <1>2, NoRequestIs DEF TurnsTaken
<1> QED
  BY <1>2, <1>3, <1>4, NoRequestIs DEF TurnsTaken

LEMMA TurnsNext ==
    ASSUME Typed, TurnsTaken, [SessionNext]_sessionVars
    PROVE  TurnsTaken'
<1>1. CASE UNCHANGED <<turns, attach>>
  BY <1>1 DEF TurnsTaken
<1>2. ASSUME NEW c \in Client, NEW kind, NEW t, Ask(c, kind, t)
      PROVE  TurnsTaken'
  <2> DEFINE r == [step |-> "turn", kind |-> kind, gen |-> 0, token |-> t]
  <2>1. r.step = "turn" /\ attach' = [attach EXCEPT ![c] = r] /\ turns' = Append(turns, c)
        /\ attach[c].step = "idle"
    BY <1>2 DEF Ask
  <2> HIDE DEF r
  <2> QED
    BY <2>1, TurnAsked
<1>3. ASSUME NEW c \in Client, AttachSteps(c)
      PROVE  TurnsTaken'
  <2>1. attach[c] \in AttachRequest
    BY DEF Typed
  <2>2. turns # << >> /\ Head(turns) = c
    BY <1>3 DEF AttachSteps, AttachWarm, Spawned, AttachCold, NotSpawned, HasTurn, WarmEnds,
                ColdEnds, Undone, TurnsTaken
  <2>3. \/ Leave(c)
        \/ /\ turns' = turns
           /\ \E s \in {"turn", "warm", "cold", "undo"} : \E g :
                 \/ attach' = [attach EXCEPT ![c] = [attach[c] EXCEPT !.step = s, !.gen = g]]
                 \/ attach' = [attach EXCEPT ![c] = [attach[c] EXCEPT !.step = s]]
    <3>1. CASE AttachWarm(c)
      BY <3>1 DEF AttachWarm
    <3>2. CASE Spawned(c)
      BY <3>2 DEF Spawned
    <3>3. CASE NotSpawned(c)
      BY <3>3 DEF NotSpawned
    <3>4. CASE WarmEnds(c)
      BY <3>4 DEF WarmEnds
    <3>5. CASE ColdEnds(c)
      BY <3>5 DEF ColdEnds
    <3>6. CASE Undone(c)
      BY <3>6 DEF Undone
    <3> QED
      BY <1>3, <3>1, <3>2, <3>3, <3>4, <3>5, <3>6 DEF AttachSteps
  <2>4. CASE Leave(c)
    BY <2>2, <2>4, TurnLeft
  <2>5. ASSUME turns' = turns, NEW s \in {"turn", "warm", "cold", "undo"}, NEW g,
               \/ attach' = [attach EXCEPT ![c] = [attach[c] EXCEPT !.step = s, !.gen = g]]
               \/ attach' = [attach EXCEPT ![c] = [attach[c] EXCEPT !.step = s]]
        PROVE  TurnsTaken'
    <3>1. /\ [attach[c] EXCEPT !.step = s, !.gen = g].step = s
          /\ [attach[c] EXCEPT !.step = s].step = s
      BY <2>1 DEF AttachRequest
    <3> QED
      BY <2>2, <2>5, <3>1, TurnKept
  <2> QED
    BY <2>3, <2>4, <2>5
<1>4. ASSUME NEW o \in Op, SendKill(o) \/ KillSteps(o) \/ Forgets(o)
      PROVE  UNCHANGED <<turns, attach>>
  <2>1. ASSUME NEW ask, Decide(o, ask)
        PROVE  UNCHANGED <<turns, attach>>
    BY <2>1 DEF Decide, Bystander, BeginKill
  <2>2. ASSUME NEW ask, Kill(o, ask)
        PROVE  UNCHANGED <<turns, attach>>
    BY <2>1, <2>2 DEF Kill, Bystander
  <2>3. CASE SendKill(o)
    BY <2>2, <2>3 DEF SendKill, Retry, Bystander
  <2>4. CASE KillSteps(o)
    BY <2>1, <2>4 DEF KillSteps, KillResumes, TaskkillDone, TaskkillFails, Bystander
  <2>5. CASE Forgets(o)
    BY <2>5 DEF Forgets, Bystander
  <2> QED
    BY <1>4, <2>3, <2>4, <2>5
<1>5. ASSUME NEW g \in Generation, ProcExits(g) \/ Drained(g)
      PROVE  UNCHANGED <<turns, attach>>
  BY <1>5 DEF ProcExits, Drained
<1>6. LeaseLapses \/ GraceFires \/ UNCHANGED sessionVars => UNCHANGED <<turns, attach>>
  BY DEF LeaseLapses, GraceFires, Bystander, sessionVars
<1> QED
  BY <1>1, <1>2, <1>3, <1>4, <1>5, <1>6 DEF SessionNext

LEMMA NamedNext ==
    ASSUME Typed, Named, [SessionNext]_sessionVars
    PROVE  Named'
<1> USE SessionAssumption
<1>1. CASE UNCHANGED <<createdBy, completed, leased, lease, gone>>
  BY <1>1 DEF Named
<1>2. ASSUME NEW c \in Client, NEW kind, NEW t, Ask(c, kind, t)
      PROVE  Named'
  BY <1>1, <1>2 DEF Ask
<1>3. ASSUME NEW c \in Client, AttachSteps(c)
      PROVE  Named'
  <2>1. CASE Spawned(c)
    <3>1. started + 1 \in Generation
      BY <2>1 DEF Spawned, Typed, Generation
    <3> QED
      BY <2>1, <3>1 DEF Spawned, Named
  <2>2. CASE NotSpawned(c)
    BY <2>2 DEF NotSpawned, Named
  <2> QED
    BY <1>1, <1>3, <2>1, <2>2 DEF AttachSteps, AttachWarm, WarmEnds, ColdEnds, Undone
<1>4. ASSUME NEW o \in Op, SendKill(o) \/ KillSteps(o) \/ Forgets(o)
      PROVE  Named'
  <2> DEFINE Written == /\ completed' \in {completed, completed \cup {o}, completed \ {o}}
                        /\ leased' \in {leased, leased \cup {o}}
                        /\ lease' \in {lease, o}
                        /\ UNCHANGED <<createdBy, gone>>
  <2>1. ASSUME NEW ask, Decide(o, ask)
        PROVE  Written
    <3>1. CASE Confirm(o, ask) /\ Bystander
      BY <3>1 DEF Confirm, TakeLease, Bystander
    <3>2. CASE Superseded(o, ask) /\ Bystander
      BY <3>2 DEF Superseded, Bystander
    <3>3. CASE BeginKill(o, ask)
      BY <3>3 DEF BeginKill
    <3> QED
      BY <2>1, <3>1, <3>2, <3>3 DEF Decide
  <2>2. ASSUME NEW ask, Kill(o, ask)
        PROVE  Written
    <3> HIDE DEF Written
    <3>1. UNCHANGED <<createdBy, completed, leased, lease, gone>> => Written
      BY DEF Written
    <3> QED
      BY <2>1, <2>2, <3>1 DEF Kill, Bystander
  <2>3. Retry(o) => Written
    BY DEF Retry, TakeLease, Bystander
  <2>4. SendKill(o) => Written
    <3> HIDE DEF Written
    <3> QED
      BY <2>2, <2>3 DEF SendKill
  <2>5. KillSteps(o) => Written
    <3>1. UNCHANGED <<createdBy, completed, leased, lease, gone>> => Written
      OBVIOUS
    <3> HIDE DEF Written
    <3> QED
      BY <2>1, <3>1 DEF KillSteps, KillResumes, TaskkillDone, TaskkillFails, Bystander
  <2>6. Forgets(o) => Written
    BY DEF Forgets, Bystander
  <2>7. Written => Named'
    BY DEF Named
  <2> HIDE DEF Written
  <2> QED
    BY <1>4, <2>4, <2>5, <2>6, <2>7
<1>5. ASSUME NEW g \in Generation, ProcExits(g)
      PROVE  Named'
  BY <1>1, <1>5 DEF ProcExits
<1>6. ASSUME NEW g \in Generation, Drained(g)
      PROVE  Named'
  <2>1. owner[g] \in Op \cup {NoOp}
    BY DEF Typed
  <2>2. createdBy' = [createdBy EXCEPT ![g] = NoOp] /\ UNCHANGED gone
    BY <1>6 DEF Drained
  <2>3. \/ UNCHANGED <<completed, lease, leased>>
        \/ /\ owner[g] # NoOp
           /\ lease' \in {lease, owner[g]} /\ completed' = completed \cup {owner[g]}
           /\ leased' \in {leased, leased \cup {owner[g]}}
    BY <1>6 DEF Drained
  <2> QED
    BY <2>1, <2>2, <2>3 DEF Named
<1>7. CASE LeaseLapses
  BY <1>7 DEF LeaseLapses, Bystander, Named
<1>8. CASE GraceFires
  <2>1. gone' \in BOOLEAN /\ UNCHANGED <<createdBy, completed, leased, lease>>
    BY <1>8 DEF GraceFires
  <2> QED
    BY <2>1 DEF Named
<1>9. UNCHANGED sessionVars => Named'
  BY <1>1 DEF sessionVars
<1> QED
  BY <1>2, <1>3, <1>4, <1>5, <1>6, <1>7, <1>8, <1>9 DEF SessionNext

\* Everything the host's state is known for.
HostInv == SessionInv /\ TurnsTaken /\ Named

LEMMA HostInvInit == SessionInit => HostInv
<1> SUFFICES ASSUME SessionInit PROVE HostInv
  OBVIOUS
<1>1. TurnsTaken
  <2>1. << >> \in Seq(Client) /\ DOMAIN << >> = {}
    BY EmptySeq
  <2>2. turns = << >> /\ \A c \in Client : attach[c] = NoRequest
    BY DEF SessionInit
  <2>3. IsInjective(turns) /\ ToSet(turns) = {}
    BY <2>1, <2>2 DEF IsInjective, ToSet
  <2> QED
    BY <2>1, <2>2, <2>3, NoRequestIs DEF TurnsTaken
<1>2. Named
  <2>1. gone \in BOOLEAN
    BY DEF SessionInit
  <2> QED
    BY <2>1 DEF SessionInit, Named
<1> QED
  BY <1>1, <1>2, SessionInit_Inv DEF HostInv

LEMMA HostInvNext == HostInv /\ [SessionNext]_sessionVars => HostInv'
  BY SessionNext_Inv, TurnsNext, NamedNext DEF HostInv, SessionInv

LEMMA HostInvTyped == HostInv => SessionTypeOK
<1> SUFFICES ASSUME HostInv PROVE SessionTypeOK
  OBVIOUS
<1>1. grace \in {"off", "armed", "early"}
  BY DEF HostInv, SessionInv, Leases
<1> QED
  BY <1>1 DEF HostInv, SessionInv, Typed, Named, TurnsTaken, SessionTypeOK, Process, Retirement,
              KillRequest, KillStep, AttachRequest

\* Requests for a name take turns: each is in the coordinator's chain once, from its claim to
\* its answer, and only the one at the head has gone on (SessionGenerationCoordinator.run).
THEOREM TurnsAreTaken == SessionSpec => []TurnsTaken
<1>1. HostInv => TurnsTaken
  BY DEF HostInv
<1> QED
  BY <1>1, HostInvInit, HostInvNext, PTL DEF SessionSpec

-------------------------------------------------------------------------------
(* The triggers: a sweep delivers each of its entries at most once, and one that runs alone
   fires each slot at most once.                                                      *)

\* What a sweep still has to look at: each trigger once, not advanced since it was listed.
Ready(e, st, t) == /\ st[e.key].canon # NoSpec
                   /\ st[e.key].nextAt = e.slot
                   /\ e.slot <= t

Listing(due, st, t, first) ==
    /\ \A j \in DOMAIN due : j >= first => Ready(due[j], st, t)
    /\ \A j, k \in DOMAIN due : due[j].key = due[k].key => j = k

\* Every slot fired lies before the trigger's next one.
Ahead(st) == \A s \in slots : st[s.key].nextAt # Never => s.at < st[s.key].nextAt


\* The types, and that a sweep under way has listed something by now.
TriggerInv ==
    /\ TriggerTypeOK
    /\ \A i \in 1 .. Sweeps :
          sweeps[i] # NoSweep => sweeps[i].due # << >> /\ sweeps[i].t \in 0 .. clock

OnceInv == /\ twice = {}
           /\ \A s \in slots : s.at <= clock
           /\ Ahead(states)
           /\ \A i \in 1 .. Sweeps : Listing(sweeps[i].due, states, sweeps[i].t, 2)

-------------------------------------------------------------------------------
\* The next slot lies strictly ahead: a minute that has just fired is not due again.
LEMMA NextFireAhead ==
    ASSUME NEW s \in Schedule, NEW t \in Nat
    PROVE  /\ NextFire(s, t) \in Nat \cup {Never}
           /\ NextFire(s, t) # Never => NextFire(s, t) > t
           /\ Advanced(s, t) \in Nat \cup {Never}
           /\ Advanced(s, t) # Never => Advanced(s, t) > t
<1> DEFINE n == s.n
<1>1. n \in Nat \ {0}
  BY TriggerAssumption
<1> HIDE DEF n
<1>2. n * (t \div n + 1) > t
  BY <1>1, SMTT(30)
<1>3. t \div n \in Nat
  BY <1>1, SMTT(30)
<1> DEFINE later == n * (t \div n + 1)
<1>4. later \in Nat
  BY <1>1, <1>3
<1>5. later > t
  BY <1>2
<1> HIDE DEF later
<1>6. NextFire(s, t) = IF s.kind = "interval" THEN t + n
                       ELSE IF s.kind = "cron" THEN later
                       ELSE IF n > t THEN n ELSE Never
  BY DEF NextFire, n, later
<1>7. t + n \in Nat /\ t + n > t
  BY <1>1
<1> DEFINE soon == t + n
<1>8. soon \in Nat /\ soon > t
  BY <1>7
<1> HIDE DEF soon
<1>9. NextFire(s, t) = soon \/ NextFire(s, t) = later
      \/ (n > t /\ NextFire(s, t) = n) \/ NextFire(s, t) = Never
  BY <1>6 DEF soon
<1>10. /\ NextFire(s, t) \in Nat \cup {Never}
       /\ NextFire(s, t) # Never => NextFire(s, t) > t
  BY <1>1, <1>4, <1>5, <1>8, <1>9
<1> QED
  BY <1>10 DEF Advanced

-------------------------------------------------------------------------------
(* One walk over what is due                                                   *)

\* The walk ends at the entry `stop`, which it delivers, or passes all of them.
Walked(i, due, t, st, flying, stop) ==
    /\ states' \in [Trigger -> KeyState]
    /\ \A k \in Trigger : \/ states'[k] = st[k]
                          \/ /\ \E j \in 1 .. stop : due[j].key = k
                             /\ states'[k].nextAt = Never \/ states'[k].nextAt > t
    /\ \A j \in 1 .. stop : st[due[j].key].canon # NoSpec
          => states'[due[j].key].nextAt = Never \/ states'[due[j].key].nextAt > t
    /\ \/ /\ stop \in DOMAIN due
          /\ st[due[stop].key].canon # NoSpec
          /\ inFlight' = flying \cup {due[stop].key}
          /\ sweeps' = [sweeps EXCEPT ![i] = [t |-> t, due |-> SubSeq(due, stop, Len(due))]]
          /\ LET slot == [key |-> due[stop].key, spec |-> due[stop].spec, at |-> due[stop].slot]
             IN  /\ slots' = slots \cup {slot}
                 /\ twice' = IF slot \in slots THEN twice \cup {slot} ELSE twice
       \/ /\ stop = Len(due)
          /\ inFlight' = flying
          /\ sweeps' = [sweeps EXCEPT ![i] = NoSweep]
          /\ UNCHANGED <<slots, twice>>

LEMMA WalkIs ==
    ASSUME NEW i \in 1 .. Sweeps, NEW due \in Seq(Entry), NEW t \in Nat,
           NEW st \in [Trigger -> KeyState], NEW flying,
           Walk(i, due, t, st, flying)
    PROVE  \E stop \in 0 .. Len(due) : Walked(i, due, t, st, flying, stop)
<1> DEFINE firing == {j \in DOMAIN due : Delivers(due[j], st)}
           stop == IF firing = {} THEN Len(due)
                   ELSE CHOOSE j \in firing : \A k \in firing : j <= k
           passed == {j \in 1 .. stop : st[due[j].key].canon # NoSpec}
           by(k) == CHOOSE j \in passed : due[j].key = k
<1>1. Len(due) \in Nat /\ DOMAIN due = 1 .. Len(due) /\ \A j \in 1 .. Len(due) : due[j] \in Entry
  BY LenProperties, ElementOfSeq
<1>2. ASSUME firing # {}
      PROVE  stop \in firing
  <2>1. firing \in SUBSET (1 .. Len(due))
    BY <1>1
  <2>2. \E j \in firing : \A k \in firing : j <= k
    BY <1>1, <1>2, <2>1, LeastIndex
  <2> HIDE DEF firing
  <2> QED
    BY <1>2, <2>2
<1>3. stop \in 0 .. Len(due) /\ (firing # {} => stop \in DOMAIN due /\ Delivers(due[stop], st))
  <2>1. CASE firing = {}
    BY <1>1, <2>1
  <2>2. CASE firing # {}
    <3>1. stop \in firing
      BY <1>2, <2>2
    <3> HIDE DEF stop
    <3> QED
      BY <1>1, <3>1
  <2> QED
    BY <2>1, <2>2
<1>4. /\ states' = [k \in Trigger |-> IF \E j \in passed : due[j].key = k
                                      THEN [st[k] EXCEPT !.nextAt = Advanced(due[by(k)].spec, t)]
                                      ELSE st[k]]
      /\ \/ /\ firing # {}
            /\ inFlight' = flying \cup {due[stop].key}
            /\ sweeps' = [sweeps EXCEPT ![i] = [t |-> t, due |-> SubSeq(due, stop, Len(due))]]
            /\ LET slot == [key |-> due[stop].key, spec |-> due[stop].spec, at |-> due[stop].slot]
               IN  /\ slots' = slots \cup {slot}
                   /\ twice' = IF slot \in slots THEN twice \cup {slot} ELSE twice
         \/ /\ firing = {}
            /\ inFlight' = flying
            /\ sweeps' = [sweeps EXCEPT ![i] = NoSweep]
            /\ UNCHANGED <<slots, twice>>
  BY DEF Walk
<1>5. firing = {} => stop = Len(due)
  OBVIOUS
<1> HIDE DEF firing, stop
<1>6. ASSUME NEW k \in Trigger, \E j \in passed : due[j].key = k
      PROVE  /\ states'[k] \in KeyState
             /\ states'[k].nextAt = Never \/ states'[k].nextAt > t
             /\ \E j \in 1 .. stop : due[j].key = k
  <2>1. by(k) \in passed
    BY <1>6
  <2>2. by(k) \in 1 .. Len(due) /\ due[by(k)].spec \in Schedule
    <3> HIDE DEF by
    <3>1. by(k) \in 1 .. Len(due)
      BY <1>1, <1>3, <2>1
    <3> QED
      BY <1>1, <3>1 DEF Entry
  <2> DEFINE a == Advanced(due[by(k)].spec, t)
  <2>3. a \in Nat \cup {Never} /\ (a # Never => a > t)
    BY <2>2, NextFireAhead
  <2>4. states'[k] = [st[k] EXCEPT !.nextAt = a]
    BY <1>4, <1>6
  <2> HIDE DEF a, by
  <2>5. st[k] \in KeyState
    OBVIOUS
  <2> QED
    BY <1>6, <2>3, <2>4, <2>5 DEF KeyState
<1>7. ASSUME NEW k \in Trigger, ~\E j \in passed : due[j].key = k
      PROVE  states'[k] = st[k]
  BY <1>4, <1>7
<1>8. DOMAIN states' = Trigger /\ states' = [k \in Trigger |-> states'[k]]
  BY <1>4
<1> HIDE DEF by
<1>9. states' \in [Trigger -> KeyState]
  <2>1. \A k \in Trigger : states'[k] \in KeyState
    BY <1>6, <1>7
  <2> QED
    BY <1>8, <2>1
<1>10. ASSUME NEW j \in 1 .. stop, st[due[j].key].canon # NoSpec
       PROVE  states'[due[j].key].nextAt = Never \/ states'[due[j].key].nextAt > t
  <2>1. j \in passed /\ due[j].key \in Trigger
    BY <1>1, <1>3, <1>10 DEF Entry
  <2> HIDE DEF passed
  <2> QED
    BY <1>6, <2>1
<1>11. \A k \in Trigger : \/ states'[k] = st[k]
                          \/ /\ \E j \in 1 .. stop : due[j].key = k
                             /\ states'[k].nextAt = Never \/ states'[k].nextAt > t
  <2> HIDE DEF passed
  <2> QED
    BY <1>6, <1>7
<1>12. firing # {} => stop \in DOMAIN due /\ st[due[stop].key].canon # NoSpec
  BY <1>3 DEF Delivers
<1> HIDE DEF passed
<1>13. Walked(i, due, t, st, flying, stop)
  BY <1>4, <1>5, <1>9, <1>10, <1>11, <1>12 DEF Walked
<1> QED
  BY <1>3, <1>13

\* What is left of the list once the walk waits at `stop`.
LEMMA LeftOfList ==
    ASSUME NEW due \in Seq(Entry), NEW stop \in DOMAIN due
    PROVE  LET left == SubSeq(due, stop, Len(due))
           IN  /\ left \in Seq(Entry) /\ left # << >>
               /\ DOMAIN left = 1 .. Len(due) - stop + 1
               /\ \A j \in DOMAIN left : stop + j - 1 \in DOMAIN due /\ left[j] = due[stop + j - 1]
<1> DEFINE left == SubSeq(due, stop, Len(due))
<1>1. Len(due) \in Nat /\ DOMAIN due = 1 .. Len(due) /\ \A j \in 1 .. Len(due) : due[j] \in Entry
  BY LenProperties, ElementOfSeq
<1>2. /\ left \in Seq(Entry)
      /\ Len(left) = Len(due) - stop + 1
      /\ \A j \in 1 .. Len(due) - stop + 1 : left[j] = due[stop + j - 1]
  <2>1. stop \in Int /\ Len(due) \in Int /\ stop <= Len(due)
        /\ \A j \in stop .. Len(due) : due[j] \in Entry
    BY <1>1
  <2> QED
    BY <2>1, SubSeqProperties
<1> HIDE DEF left
<1>3. DOMAIN left = 1 .. Len(due) - stop + 1 /\ left # << >>
  <2>1. DOMAIN left = 1 .. Len(left)
    BY <1>2, LenProperties
  <2>2. Len(left) # 0
    BY <1>1, <1>2
  <2> QED
    BY <1>2, <2>1, <2>2, EmptySeq
<1>4. \A j \in DOMAIN left : stop + j - 1 \in DOMAIN due /\ left[j] = due[stop + j - 1]
  BY <1>1, <1>2, <1>3
<1> QED
  BY <1>2, <1>3, <1>4 DEF left

\* A walk keeps the types, and the sweep it leaves waiting has something left.
LEMMA WalkKeeps ==
    ASSUME TriggerInv, NEW i \in 1 .. Sweeps, NEW due \in Seq(Entry), NEW t \in 0 .. clock,
           NEW st \in [Trigger -> KeyState], NEW flying \in SUBSET Trigger,
           Walk(i, due, t, st, flying), swept' \in Nat \cup {Never},
           UNCHANGED <<sweeping, clock, canvas, arms>>
    PROVE  TriggerInv'
<1>1. /\ TriggerTypeOK /\ clock \in Nat /\ t \in Nat
      /\ \A k \in 1 .. Sweeps : sweeps[k] # NoSweep => sweeps[k].due # << >> /\ sweeps[k].t \in 0 .. clock
  BY TriggerAssumption DEF TriggerInv, TriggerTypeOK
<1>2. PICK stop \in 0 .. Len(due) : Walked(i, due, t, st, flying, stop)
  BY <1>1, WalkIs
<1>3. \A j \in DOMAIN due : due[j] \in Entry
  BY LenProperties, ElementOfSeq
<1> DEFINE Sw == [t : Nat \cup {Never}, due : Seq(Entry)]
           left == [t |-> t, due |-> SubSeq(due, stop, Len(due))]
<1>4. NoSweep \in Sw
  <2>1. << >> \in Seq(Entry)
    BY EmptySeq
  <2> QED
    BY <2>1 DEF NoSweep
<1>5. ASSUME stop \in DOMAIN due PROVE left \in Sw /\ left.due # << >> /\ left.t = t
  BY <1>1, <1>5, LeftOfList
<1>6. states' \in [Trigger -> KeyState]
  BY <1>2 DEF Walked
<1>7. CASE stop \in DOMAIN due /\ sweeps' = [sweeps EXCEPT ![i] = left]
           /\ inFlight' = flying \cup {due[stop].key}
           /\ LET slot == [key |-> due[stop].key, spec |-> due[stop].spec, at |-> due[stop].slot]
              IN  /\ slots' = slots \cup {slot}
                  /\ twice' = IF slot \in slots THEN twice \cup {slot} ELSE twice
  <2>1. left \in Sw /\ left.due # << >> /\ left.t = t
    BY <1>5, <1>7
  <2> HIDE DEF left
  <2>2. sweeps' \in [1 .. Sweeps -> Sw]
    BY <1>1, <1>7, <2>1 DEF TriggerTypeOK
  <2>3. \A k \in 1 .. Sweeps : sweeps'[k] # NoSweep => sweeps'[k].due # << >> /\ sweeps'[k].t \in 0 .. clock'
    BY <1>1, <1>7, <2>1 DEF TriggerTypeOK
  <2> DEFINE slot == [key |-> due[stop].key, spec |-> due[stop].spec, at |-> due[stop].slot]
  <2>4. due[stop].key \in Trigger /\ slot \in Slot
    BY <1>3, <1>7 DEF Entry, Slot
  <2> HIDE DEF slot
  <2>5. slots' = slots \cup {slot} /\ twice' = IF slot \in slots THEN twice \cup {slot} ELSE twice
    BY <1>7 DEF slot
  <2>6. slots' \subseteq Slot /\ twice' \subseteq slots' /\ inFlight' \subseteq Trigger
    BY <1>1, <1>7, <2>4, <2>5 DEF TriggerTypeOK
  <2> QED
    BY <1>1, <1>6, <2>2, <2>3, <2>6 DEF TriggerInv, TriggerTypeOK
<1>8. CASE sweeps' = [sweeps EXCEPT ![i] = NoSweep] /\ inFlight' = flying /\ UNCHANGED <<slots, twice>>
  <2>1. sweeps' \in [1 .. Sweeps -> Sw]
    BY <1>1, <1>4, <1>8 DEF TriggerTypeOK
  <2>2. \A k \in 1 .. Sweeps : sweeps'[k] # NoSweep => sweeps'[k].due # << >> /\ sweeps'[k].t \in 0 .. clock'
    BY <1>1, <1>8 DEF TriggerTypeOK
  <2> QED
    BY <1>1, <1>6, <1>8, <2>1, <2>2 DEF TriggerInv, TriggerTypeOK
<1> QED
  BY <1>2, <1>7, <1>8 DEF Walked

\* What a sweep lists is due: each trigger once, as the listing leaves it.
LEMMA DueIs ==
    ASSUME TriggerInv
    PROVE  /\ DueEntries \in Seq(Entry)
           /\ \A j \in DOMAIN DueEntries : LET e == DueEntries[j]
                                           IN  /\ IsDue(e.key) /\ e.slot = states[e.key].nextAt
           /\ \A j, k \in DOMAIN DueEntries : DueEntries[j].key = DueEntries[k].key => j = k
<1> DEFINE A == {k \in Trigger : IsDue(k)}
           due == Only(Rows, A)
<1>1. Rows \in Seq(Trigger) /\ IsInjective(Rows)
  BY TriggerAssumption DEF IsInjective
<1>2. due \in Seq(Trigger) /\ ToSet(due) = ToSet(Rows) \cap A /\ IsInjective(due)
  BY <1>1, OnlyList
<1>3. DueEntries = [j \in 1 .. Len(due) |->
                      [key |-> due[j], spec |-> canvas[due[j]], slot |-> states[due[j]].nextAt]]
  BY DEF DueEntries
<1> HIDE DEF due
<1>4. Len(due) \in Nat /\ DOMAIN due = 1 .. Len(due)
  BY <1>2, LenProperties
<1>5. ASSUME NEW j \in 1 .. Len(due)
      PROVE  /\ due[j] \in Trigger /\ IsDue(due[j])
             /\ DueEntries[j] \in Entry
             /\ DueEntries[j].key = due[j] /\ DueEntries[j].slot = states[due[j]].nextAt
  <2>1. due[j] \in A
    BY <1>2, <1>4, <1>5 DEF ToSet
  <2>2. due[j] \in Trigger /\ IsDue(due[j])
    BY <2>1
  <2>3. canvas[due[j]] \in Schedule /\ states[due[j]].nextAt \in Nat
    BY <2>2 DEF IsDue, TriggerInv, TriggerTypeOK, KeyState
  <2> QED
    BY <1>3, <2>2, <2>3 DEF Entry
<1>6. DOMAIN DueEntries = 1 .. Len(due) /\ DueEntries \in [1 .. Len(due) -> Entry]
  BY <1>3, <1>5
<1>7. DueEntries \in Seq(Entry)
  BY <1>4, <1>6, SeqDef
<1>8. ASSUME NEW j \in DOMAIN DueEntries, NEW k \in DOMAIN DueEntries,
             DueEntries[j].key = DueEntries[k].key
      PROVE  j = k
  BY <1>2, <1>4, <1>5, <1>6, <1>8 DEF IsInjective
<1> QED
  BY <1>5, <1>6, <1>7, <1>8

LEMMA ListedIs ==
    ASSUME TriggerInv, NEW k \in Trigger
    PROVE  /\ Listed(k) \in KeyState
           /\ IsDue(k) => Listed(k) = states[k] /\ states[k].canon # NoSpec
           /\ Listed(k).nextAt # Never => Listed(k).nextAt > clock \/ Listed(k) = states[k]
<1>1. /\ clock \in Nat /\ canvas[k] \in Schedule \cup {NoSpec} /\ states[k] \in KeyState
  BY TriggerAssumption DEF TriggerInv, TriggerTypeOK
<1>2. CASE canvas[k] = NoSpec
  BY <1>1, <1>2 DEF Listed, Unknown, KeyState, IsDue
<1>3. CASE canvas[k] # NoSpec /\ states[k].canon # canvas[k]
  <2> DEFINE next == NextFire(canvas[k], clock)
  <2>1. next \in Nat \cup {Never} /\ (next # Never => next > clock)
    BY <1>1, <1>3, NextFireAhead
  <2>2. Listed(k) = [canon |-> canvas[k], nextAt |-> next]
    BY <1>3 DEF Listed
  <2> HIDE DEF next
  <2> QED
    BY <1>1, <1>3, <2>1, <2>2 DEF KeyState, IsDue
<1>4. CASE canvas[k] # NoSpec /\ states[k].canon = canvas[k]
  BY <1>1, <1>4 DEF Listed, IsDue
<1> QED
  BY <1>2, <1>3, <1>4

\* A sweep begins with the states of its listing; one that goes on, with those it finds.
LEMMA SweepWalks ==
    ASSUME TriggerInv, NEW i \in 1 .. Sweeps, Sweep(i)
    PROVE  LET st == [k \in Trigger |-> Listed(k)]
           IN  /\ clock \in 0 .. clock /\ inFlight \in SUBSET Trigger /\ DueEntries \in Seq(Entry)
               /\ st \in [Trigger -> KeyState]
               /\ Walk(i, DueEntries, clock, st, inFlight)
               /\ swept' = clock /\ UNCHANGED <<sweeping, clock, canvas, arms>>
<1>1. clock \in 0 .. clock /\ inFlight \in SUBSET Trigger
  BY TriggerAssumption DEF TriggerInv, TriggerTypeOK
<1> QED
  BY <1>1, DueIs, ListedIs DEF Sweep

LEMMA FireEndsWalks ==
    ASSUME TriggerInv, NEW i \in 1 .. Sweeps, FireEnds(i)
    PROVE  LET due == sweeps[i].due
               flying == inFlight \ {sweeps[i].due[1].key}
           IN  /\ sweeps[i].t \in 0 .. clock /\ flying \in SUBSET Trigger
               /\ Tail(due) \in Seq(Entry) /\ DOMAIN Tail(due) = 1 .. Len(due) - 1
               /\ DOMAIN due = 1 .. Len(due) /\ Len(due) \in Nat
               /\ \A j \in DOMAIN Tail(due) : j + 1 \in DOMAIN due /\ Tail(due)[j] = due[j + 1]
               /\ states \in [Trigger -> KeyState]
               /\ Walk(i, Tail(due), sweeps[i].t, states, flying)
               /\ swept' = swept /\ UNCHANGED <<sweeping, clock, canvas, arms>>
<1> DEFINE due == sweeps[i].due
<1>1. due \in Seq(Entry) /\ due # << >> /\ sweeps[i].t \in 0 .. clock
  BY DEF TriggerInv, TriggerTypeOK, FireEnds
<1>2. /\ Tail(due) \in Seq(Entry) /\ Len(Tail(due)) = Len(due) - 1 /\ Len(due) \in Nat
      /\ DOMAIN due = 1 .. Len(due)
      /\ \A j \in 1 .. Len(Tail(due)) : Tail(due)[j] = due[j + 1]
  BY <1>1, HeadTailProperties, LenProperties
<1>3. DOMAIN Tail(due) = 1 .. Len(due) - 1
  BY <1>2, LenProperties
<1>4. inFlight \ {sweeps[i].due[1].key} \in SUBSET Trigger /\ states \in [Trigger -> KeyState]
  BY DEF TriggerInv, TriggerTypeOK
<1> QED
  BY <1>1, <1>2, <1>3, <1>4 DEF FireEnds

LEMMA TriggerInvInit == TriggerInit => TriggerInv
<1> SUFFICES ASSUME TriggerInit PROVE TriggerInv
  OBVIOUS
<1>1. NoSweep \in [t : Nat \cup {Never}, due : Seq(Entry)] /\ Unknown \in KeyState
  <2>1. << >> \in Seq(Entry)
    BY EmptySeq
  <2> QED
    BY <2>1 DEF NoSweep, Unknown, KeyState
<1>2. clock \in 0 .. TriggerTime /\ swept \in Nat \cup {Never}
  BY TriggerAssumption DEF TriggerInit
<1>4. sweeping \in BOOLEAN
  BY DEF TriggerInit
<1>3. /\ canvas \in [Trigger -> Schedule \cup {NoSpec}] /\ arms \in [Trigger -> Schedule \cup {NoSpec}]
      /\ states \in [Trigger -> KeyState]
      /\ sweeps \in [1 .. Sweeps -> [t : Nat \cup {Never}, due : Seq(Entry)]]
      /\ \A i \in 1 .. Sweeps : sweeps[i] = NoSweep
  BY <1>1 DEF TriggerInit
<1> QED
  BY <1>2, <1>3, <1>4 DEF TriggerInit, TriggerInv, TriggerTypeOK

LEMMA TriggerInvNext == TriggerInv /\ [TriggerNext]_triggerVars => TriggerInv'
<1> SUFFICES ASSUME TriggerInv, [TriggerNext]_triggerVars PROVE TriggerInv'
  OBVIOUS
<1>1. CASE UNCHANGED triggerVars
  BY <1>1 DEF triggerVars, TriggerInv, TriggerTypeOK
<1>2. ASSUME NEW i \in 1 .. Sweeps, Sweep(i)
      PROVE  TriggerInv'
  <2>1. clock \in Nat
    BY TriggerAssumption DEF TriggerInv, TriggerTypeOK
  <2> QED
    BY <1>2, <2>1, SweepWalks, WalkKeeps
<1>3. ASSUME NEW i \in 1 .. Sweeps, FireEnds(i)
      PROVE  TriggerInv'
  <2> DEFINE due == sweeps[i].due
             flying == inFlight \ {sweeps[i].due[1].key}
  <2>1. /\ sweeps[i].t \in 0 .. clock /\ flying \in SUBSET Trigger /\ Tail(due) \in Seq(Entry)
        /\ states \in [Trigger -> KeyState] /\ Walk(i, Tail(due), sweeps[i].t, states, flying)
        /\ swept' = swept /\ UNCHANGED <<sweeping, clock, canvas, arms>>
    BY <1>3, FireEndsWalks
  <2>2. swept' \in Nat \cup {Never}
    BY <2>1 DEF TriggerInv, TriggerTypeOK
  <2> HIDE DEF due, flying
  <2> QED
    BY <2>1, <2>2, WalkKeeps
<1>4. ASSUME NEW k \in Trigger, NEW s \in Schedule \cup {NoSpec}, EditTrigger(k, s)
      PROVE  TriggerInv'
  BY <1>4 DEF EditTrigger, TriggerInv, TriggerTypeOK
<1>5. ASSUME NEW k \in Trigger, ArmTrigger(k) \/ DisarmTrigger(k)
      PROVE  TriggerInv'
  BY <1>5 DEF ArmTrigger, DisarmTrigger, TriggerInv, TriggerTypeOK
<1>6. ASSUME NEW on \in BOOLEAN, TurnTriggers(on)
      PROVE  TriggerInv'
  BY <1>6 DEF TurnTriggers, TriggerInv, TriggerTypeOK
<1>7. CASE ClockTick
  <2>1. clock' \in 0 .. TriggerTime /\ \A t \in 0 .. clock : t \in 0 .. clock'
    BY <1>7, TriggerAssumption DEF ClockTick, TriggerInv, TriggerTypeOK
  <2> QED
    BY <1>7, <2>1 DEF ClockTick, TriggerInv, TriggerTypeOK
<1> QED
  BY <1>1, <1>2, <1>3, <1>4, <1>5, <1>6, <1>7 DEF TriggerNext

LEMMA TriggerInvAlways == TriggerSpec => []TriggerInv
  BY TriggerInvInit, TriggerInvNext, PTL DEF TriggerSpec

-------------------------------------------------------------------------------
(* Once per slot, where no two sweeps overlap behind a delivery.                *)

Alone == Sweeps <= 1 \/ Len(Rows) <= 1

\* A list that names each trigger once is no longer than the listing.
LEMMA ShortList ==
    ASSUME Len(Rows) <= 1, NEW due \in Seq(Entry),
           \A j, k \in DOMAIN due : due[j].key = due[k].key => j = k
    PROVE  \A j \in DOMAIN due : j < 2
<1>1. /\ DOMAIN due = 1 .. Len(due) /\ Len(due) \in Nat
      /\ DOMAIN Rows = 1 .. Len(Rows) /\ Len(Rows) \in Nat
      /\ \A j \in DOMAIN due : due[j].key \in Trigger
  <2>1. \A j \in DOMAIN due : due[j] \in Entry
    BY LenProperties, ElementOfSeq
  <2> QED
    BY <2>1, TriggerAssumption, LenProperties DEF Entry
<1>2. \A k \in Trigger : k = Rows[1]
  <2>1. \A i \in DOMAIN Rows : i = 1
    BY <1>1
  <2> QED
    BY <2>1 DEF Trigger
<1> SUFFICES ASSUME NEW j \in DOMAIN due, j >= 2 PROVE FALSE
  BY <1>1
<1>3. 1 \in DOMAIN due /\ due[1].key = due[j].key
  BY <1>1, <1>2
<1> QED
  BY <1>3

\* One walk fires only slots that lie ahead of every slot fired before.
LEMMA WalkOnce ==
    ASSUME Alone, TriggerInv, twice = {}, \A s \in slots : s.at <= clock,
           NEW i \in 1 .. Sweeps, NEW due \in Seq(Entry), NEW t \in 0 .. clock,
           NEW st \in [Trigger -> KeyState], NEW flying \in SUBSET Trigger,
           Walk(i, due, t, st, flying), clock' = clock,
           Ahead(st), Listing(due, st, t, 1),
           \A k \in 1 .. Sweeps : Listing(sweeps[k].due, states, sweeps[k].t, 2)
    PROVE  OnceInv'
<1>1. /\ clock \in Nat /\ t \in Nat /\ slots \subseteq Slot
      /\ sweeps \in [1 .. Sweeps -> [t : Nat \cup {Never}, due : Seq(Entry)]]
      /\ DOMAIN due = 1 .. Len(due) /\ Len(due) \in Nat
      /\ \A j \in DOMAIN due : due[j] \in Entry
  BY TriggerAssumption, LenProperties, ElementOfSeq DEF TriggerInv, TriggerTypeOK
<1>2. PICK stop \in 0 .. Len(due) : Walked(i, due, t, st, flying, stop)
  BY <1>1, WalkIs
<1>3. /\ \A j \in DOMAIN due : Ready(due[j], st, t)
      /\ \A j, k \in DOMAIN due : due[j].key = due[k].key => j = k
  BY <1>1 DEF Listing
\* What has been fired stays behind the new states.
<1>4. ASSUME NEW s \in slots, states'[s.key].nextAt # Never
      PROVE  s.at < states'[s.key].nextAt
  <2>1. s.key \in Trigger /\ s.at \in Nat
    BY <1>1 DEF Slot
  <2>2. CASE states'[s.key] = st[s.key]
    BY <1>4, <2>1, <2>2 DEF Ahead
  <2>3. CASE states'[s.key] # st[s.key]
    <3>1. PICK j \in 1 .. stop : due[j].key = s.key
      BY <1>2, <2>1, <2>3 DEF Walked
    <3>2. states'[s.key].nextAt > t /\ states'[s.key].nextAt \in Nat
      BY <1>2, <1>4, <2>1, <2>3 DEF Walked, KeyState
    <3>3. j \in DOMAIN due
      BY <1>1, <1>2
    <3>4. st[s.key].nextAt = due[j].slot /\ due[j].slot <= t /\ due[j].slot \in Nat
      BY <1>1, <1>3, <3>1, <3>3 DEF Ready, Entry
    <3>5. s.at < due[j].slot
      BY <3>4 DEF Ahead, Never
    <3> QED
      BY <1>1, <2>1, <3>2, <3>4, <3>5
  <2> QED
    BY <2>2, <2>3
<1>5. ASSUME NEW k \in 1 .. Sweeps, k # i
      PROVE  Listing(sweeps[k].due, states', sweeps[k].t, 2)
  <2>1. Len(Rows) <= 1
    BY <1>5, TriggerAssumption DEF Alone
  <2>2. \A j \in DOMAIN sweeps[k].due : j < 2
    <3>1. sweeps[k].due \in Seq(Entry)
      BY <1>1
    <3> QED
      BY <2>1, <3>1, ShortList DEF Listing
  <2>3. DOMAIN sweeps[k].due = 1 .. Len(sweeps[k].due) /\ Len(sweeps[k].due) \in Nat
    BY <1>1, LenProperties
  <2> QED
    BY <2>2, <2>3 DEF Listing
<1>6. CASE /\ stop = Len(due) /\ sweeps' = [sweeps EXCEPT ![i] = NoSweep]
           /\ UNCHANGED <<slots, twice>>
  <2>1. \A k \in 1 .. Sweeps : Listing(sweeps'[k].due, states', sweeps'[k].t, 2)
    <3>1. Listing(NoSweep.due, states', NoSweep.t, 2)
      BY EmptySeq DEF Listing, NoSweep
    <3> QED
      BY <1>1, <1>5, <1>6, <3>1
  <2> QED
    BY <1>4, <1>6, <2>1 DEF OnceInv, Ahead
<1> DEFINE e    == due[stop]
           slot == [key |-> e.key, spec |-> e.spec, at |-> e.slot]
           left == [t |-> t, due |-> SubSeq(due, stop, Len(due))]
<1>7. CASE /\ stop \in DOMAIN due
           /\ st[due[stop].key].canon # NoSpec
           /\ sweeps' = [sweeps EXCEPT ![i] = left]
           /\ slots' = slots \cup {slot}
           /\ twice' = IF slot \in slots THEN twice \cup {slot} ELSE twice
  <2>1. /\ e.key \in Trigger /\ e.slot \in Nat /\ e.slot <= t /\ st[e.key].nextAt = e.slot
        /\ slot.key = e.key /\ slot.at = e.slot
    BY <1>1, <1>3, <1>7 DEF Entry, Ready
  <2>2. slot \notin slots
    BY <1>1, <2>1 DEF Ahead, Never
  <2>3. states'[e.key].nextAt = Never \/ states'[e.key].nextAt > t
    BY <1>1, <1>2, <1>7 DEF Walked
  <2> HIDE DEF slot
  <2>4. \A s \in slots' : s.at <= clock'
    BY <1>1, <1>7, <2>1
  <2>5. \A s \in slots' : states'[s.key].nextAt # Never => s.at < states'[s.key].nextAt
    <3>1. states'[e.key].nextAt \in Nat \cup {Never}
      BY <1>2, <2>1 DEF Walked, KeyState
    <3>2. states'[slot.key].nextAt # Never => slot.at < states'[slot.key].nextAt
      BY <1>1, <2>1, <2>3, <3>1
    <3> QED
      BY <1>4, <1>7, <3>2
  <2>6. Listing(left.due, states', left.t, 2)
    <3>1. /\ DOMAIN left.due = 1 .. Len(due) - stop + 1 /\ left.t = t
          /\ \A j \in DOMAIN left.due : stop + j - 1 \in DOMAIN due /\ left.due[j] = due[stop + j - 1]
      BY <1>7, LeftOfList
    <3> HIDE DEF left
    <3>2. ASSUME NEW j \in DOMAIN left.due, j >= 2 PROVE Ready(left.due[j], states', t)
      <4>1. stop + j - 1 \in DOMAIN due /\ left.due[j] = due[stop + j - 1] /\ stop + j - 1 > stop
        BY <1>1, <1>7, <3>1, <3>2
      <4> DEFINE n == stop + j - 1
      <4>2. \A m \in 1 .. stop : m # n /\ m \in DOMAIN due
        BY <1>1, <4>1
      <4> HIDE DEF n
      <4>3. \A m \in 1 .. stop : due[m].key # due[n].key
        BY <1>3, <4>1, <4>2 DEF n
      <4>4. due[n].key \in Trigger /\ n \in DOMAIN due
        BY <1>1, <4>1 DEF n, Entry
      <4>5. states'[due[n].key] = st[due[n].key]
        BY <1>2, <4>3, <4>4 DEF Walked
      <4>6. Ready(due[n], st, t)
        BY <1>3, <4>4
      <4> QED
        BY <4>1, <4>5, <4>6 DEF n, Ready
    <3>3. ASSUME NEW j \in DOMAIN left.due, NEW k \in DOMAIN left.due, left.due[j].key = left.due[k].key
          PROVE  j = k
      <4>1. stop + j - 1 = stop + k - 1
        BY <1>3, <3>1, <3>3
      <4> QED
        BY <1>1, <1>7, <3>1, <4>1
    <3> QED
      BY <3>1, <3>2, <3>3 DEF Listing
  <2> HIDE DEF left
  <2>7. \A k \in 1 .. Sweeps : Listing(sweeps'[k].due, states', sweeps'[k].t, 2)
    BY <1>1, <1>5, <1>7, <2>6
  <2> QED
    BY <1>7, <2>2, <2>4, <2>5, <2>7 DEF OnceInv, Ahead
<1> QED
  BY <1>2, <1>6, <1>7 DEF Walked

LEMMA OnceInvNext ==
    ASSUME Alone, TriggerInv, OnceInv, [TriggerNext]_triggerVars
    PROVE  OnceInv'
<1>1. CASE UNCHANGED <<states, sweeps, slots, twice>> /\ clock' >= clock /\ clock' \in Nat
  <2>1. clock \in Nat /\ slots \subseteq Slot
    BY TriggerAssumption DEF TriggerInv, TriggerTypeOK
  <2>2. \A s \in slots : s.at <= clock'
    <3>1. \A s \in slots : s.at \in Nat /\ s.at <= clock
      BY <2>1 DEF Slot, OnceInv
    <3> QED
      BY <1>1, <2>1, <3>1
  <2> QED
    BY <1>1, <2>2 DEF OnceInv, Ahead
<1>2. clock \in Nat
  BY TriggerAssumption DEF TriggerInv, TriggerTypeOK
<1>3. ASSUME NEW i \in 1 .. Sweeps, Sweep(i)
      PROVE  OnceInv'
  <2> DEFINE st == [k \in Trigger |-> Listed(k)]
  <2>1. /\ clock \in 0 .. clock /\ inFlight \in SUBSET Trigger /\ DueEntries \in Seq(Entry)
        /\ st \in [Trigger -> KeyState]
        /\ Walk(i, DueEntries, clock, st, inFlight) /\ clock' = clock
    BY <1>3, SweepWalks
  <2>2. \A j \in DOMAIN DueEntries : DueEntries[j] \in Entry
    BY <2>1, LenProperties, ElementOfSeq
  <2>3. Listing(DueEntries, st, clock, 1)
    <3>1. ASSUME NEW j \in DOMAIN DueEntries PROVE Ready(DueEntries[j], st, clock)
      <4> DEFINE e == DueEntries[j]
      <4>1. e.key \in Trigger /\ IsDue(e.key) /\ e.slot = states[e.key].nextAt
        BY <2>2, DueIs DEF Entry
      <4>2. st[e.key] = states[e.key] /\ states[e.key].canon # NoSpec
        BY <4>1, ListedIs
      <4>3. states[e.key].nextAt <= clock
        BY <4>1 DEF IsDue
      <4> QED
        BY <4>1, <4>2, <4>3 DEF Ready
    <3> HIDE DEF st
    <3> QED
      BY <3>1, DueIs DEF Listing
  <2>4. Ahead(st)
    <3>1. ASSUME NEW s \in slots, st[s.key].nextAt # Never PROVE s.at < st[s.key].nextAt
      <4>1. s.key \in Trigger /\ s.at \in Nat /\ s.at <= clock
        BY DEF TriggerInv, TriggerTypeOK, Slot, OnceInv
      <4>2. st[s.key] = Listed(s.key) /\ Listed(s.key) \in KeyState
        BY <4>1, ListedIs
      <4>3. CASE Listed(s.key) = states[s.key]
        BY <3>1, <4>2, <4>3 DEF OnceInv, Ahead
      <4>4. CASE Listed(s.key).nextAt > clock
        BY <1>2, <3>1, <4>1, <4>2, <4>4 DEF KeyState
      <4> QED
        BY <3>1, <4>1, <4>2, <4>3, <4>4, ListedIs
    <3> HIDE DEF st
    <3> QED
      BY <3>1 DEF Ahead
  <2> HIDE DEF st
  <2> QED
    BY <1>3, <2>1, <2>3, <2>4, WalkOnce DEF OnceInv
<1>4. ASSUME NEW i \in 1 .. Sweeps, FireEnds(i)
      PROVE  OnceInv'
  <2> DEFINE due == sweeps[i].due
             rest == Tail(due)
             flying == inFlight \ {sweeps[i].due[1].key}
  <2>1. /\ sweeps[i].t \in 0 .. clock /\ flying \in SUBSET Trigger
        /\ rest \in Seq(Entry) /\ DOMAIN rest = 1 .. Len(due) - 1
        /\ DOMAIN due = 1 .. Len(due) /\ Len(due) \in Nat
        /\ \A j \in DOMAIN rest : j + 1 \in DOMAIN due /\ rest[j] = due[j + 1]
        /\ states \in [Trigger -> KeyState]
        /\ Walk(i, rest, sweeps[i].t, states, flying) /\ clock' = clock
    BY <1>4, FireEndsWalks
  <2>2. Listing(due, states, sweeps[i].t, 2)
    BY DEF OnceInv
  <2> HIDE DEF due, rest, flying
  <2>3. Listing(rest, states, sweeps[i].t, 1)
    <3>1. ASSUME NEW j \in DOMAIN rest PROVE Ready(rest[j], states, sweeps[i].t)
      BY <2>1, <2>2 DEF Listing
    <3>2. ASSUME NEW j \in DOMAIN rest, NEW k \in DOMAIN rest, rest[j].key = rest[k].key PROVE j = k
      <4>1. j + 1 = k + 1
        BY <2>1, <2>2, <3>2 DEF Listing
      <4> QED
        BY <2>1, <4>1
    <3> QED
      BY <3>1, <3>2 DEF Listing
  <2> QED
    BY <1>4, <2>1, <2>3, WalkOnce DEF OnceInv
<1>5. CASE UNCHANGED triggerVars
  BY <1>1, <1>2, <1>5 DEF triggerVars
<1>6. ASSUME NEW k \in Trigger, NEW s \in Schedule \cup {NoSpec}, EditTrigger(k, s)
      PROVE  OnceInv'
  BY <1>1, <1>2, <1>6 DEF EditTrigger
<1>7. ASSUME NEW k \in Trigger, ArmTrigger(k) \/ DisarmTrigger(k)
      PROVE  OnceInv'
  BY <1>1, <1>2, <1>7 DEF ArmTrigger, DisarmTrigger
<1>8. ASSUME NEW on \in BOOLEAN, TurnTriggers(on)
      PROVE  OnceInv'
  BY <1>1, <1>2, <1>8 DEF TurnTriggers
<1>9. CASE ClockTick
  BY <1>1, <1>2, <1>9 DEF ClockTick
<1> QED
  BY <1>3, <1>4, <1>5, <1>6, <1>7, <1>8, <1>9 DEF TriggerNext

\* OncePerSlot where sweeps do not overlap, or where a sweep has nothing behind its first
\* delivery: the advance before the delivery is enough.  With two of each it is not.
THEOREM FiresOncePerSlot == Alone => (TriggerSpec => []OncePerSlot)
<1> SUFFICES ASSUME Alone PROVE TriggerSpec => []OncePerSlot
  OBVIOUS
<1>1. TriggerInit => OnceInv
  <2> SUFFICES ASSUME TriggerInit PROVE OnceInv
    OBVIOUS
  <2>1. Listing(NoSweep.due, states, NoSweep.t, 2)
    BY EmptySeq DEF Listing, NoSweep
  <2> QED
    BY <2>1 DEF TriggerInit, OnceInv, Ahead
<1>2. TriggerInv /\ OnceInv /\ [TriggerNext]_triggerVars => OnceInv'
  BY OnceInvNext
<1>3. OnceInv => OncePerSlot
  BY DEF OnceInv, OncePerSlot
<1> QED
  BY <1>1, <1>2, <1>3, TriggerInvAlways, PTL DEF TriggerSpec

-------------------------------------------------------------------------------
(* Every variable of every service has its type, in the run they share.        *)

\* The five inductive invariants side by side.
ServicesInv == GateInv /\ HostedFacts /\ TriggerInv /\ ReqInv /\ Paced /\ HostInv

LEMMA ServicesInvInit == ServicesInit => ServicesInv
  BY GateInvInit, HostedInvInit, TriggerInvInit, ReqInvInit, PacedInit, HostInvInit
     DEF ServicesInit, ServicesInv

\* A step is a step of one service and of no other.
LEMMA StepsAreOne ==
    ASSUME [ServicesNext]_allVars
    PROVE  /\ [GateNext]_gateVars /\ [HostedNext]_hostedVars /\ [TriggerNext]_triggerVars
           /\ [ReqNext]_reqVars /\ [SessionNext]_sessionVars
<1>1. CASE ServicesNext
  BY <1>1 DEF ServicesNext
<1>2. CASE UNCHANGED allVars
  BY <1>2 DEF allVars
<1> QED
  BY <1>1, <1>2

LEMMA ServicesInvNext == ServicesInv /\ [ServicesNext]_allVars => ServicesInv'
<1> SUFFICES ASSUME ServicesInv, [ServicesNext]_allVars PROVE ServicesInv'
  OBVIOUS
<1>1. /\ [GateNext]_gateVars /\ [HostedNext]_hostedVars /\ [TriggerNext]_triggerVars
      /\ [ReqNext]_reqVars /\ [SessionNext]_sessionVars
  BY StepsAreOne
<1>2. GateInv'
  BY <1>1, GateInvNext DEF ServicesInv
<1>3. HostedFacts'
  BY <1>1, HostedInvNext DEF ServicesInv
<1>4. TriggerInv'
  BY <1>1, TriggerInvNext DEF ServicesInv
<1>5. ReqInv' /\ Paced'
  BY <1>1, ReqInvNext, PacedNext DEF ServicesInv
<1>6. HostInv'
  BY <1>1, HostInvNext DEF ServicesInv
<1> QED
  BY <1>2, <1>3, <1>4, <1>5, <1>6 DEF ServicesInv

\* In whatever service the behaviour is, and for every value of their constants, no counter
\* leaves its range, no queue holds what cannot wait in it, and no name or generation is
\* written that was never given out.
THEOREM ServicesTypes == ServicesSpec => []ServicesTypeOK
<1>1. ServicesInv => ServicesTypeOK
  <2>1. SUFFICES ASSUME ServicesInv PROVE ServicesTypeOK
    OBVIOUS
  <2>2. GateTypeOK
    BY <2>1 DEF ServicesInv, GateInv
  <2>3. HostedTypeOK
    BY <2>1, FactsAreInv DEF ServicesInv, HostedInv
  <2>4. TriggerTypeOK
    BY <2>1 DEF ServicesInv, TriggerInv
  <2>5. ReqTypeOK
    BY <2>1, ReqInvTyped DEF ServicesInv
  <2>6. SessionTypeOK
    BY <2>1, HostInvTyped DEF ServicesInv
  <2> QED
    BY <2>2, <2>3, <2>4, <2>5, <2>6 DEF ServicesTypeOK
<1> QED
  BY <1>1, ServicesInvInit, ServicesInvNext, PTL DEF ServicesSpec
===============================================================================
