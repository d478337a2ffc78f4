-------------------------- MODULE CanvasOrderProofs --------------------------
(* Proofs about CanvasOrderLink: for any set of keys, any caps and any bounds.  *)
EXTENDS CanvasOrderLink, CanvasOrderLemmas

\* The deliveries the link makes.
Delivered == [key : Key, remove : BOOLEAN, src : {Me, Peer}, seq : Nat \ {0}, seen : Int]

-------------------------------------------------------------------------------
(* Types.                                                                     *)

\* What the link delivers is a delivery.
LEMMA DeliveryType ==
    ASSUME NEW k \in Key, NEW remove \in BOOLEAN, NEW src \in {Me, Peer}, NEW seen \in Int,
           NEW s \in 1 .. MaxSeq
    PROVE  /\ Delivery(k, remove, src, seen, s) \in Delivered
           /\ Delivery(k, remove, src, seen, s).key = k
           /\ Delivery(k, remove, src, seen, s).src = src
           /\ Delivery(k, remove, src, seen, s).seq = s
  BY DEF Delivery, Delivered

\* What a delivery does to the client's order.
LEMMA JudgedHeard ==
    ASSUME NEW o \in Order, NEW m \in Delivered
    PROVE  LET h == Heard(o, m)
           IN  /\ h \in Order
               /\ Keeps(o, h)
               /\ h.seen = [o.seen EXCEPT ![m.key] = IF m.seq > @ THEN m.seq ELSE @]
               /\ h.rebase = FALSE
               /\ h.lastSeq = IF o.rebase \/ m.seq > o.lastSeq THEN m.seq ELSE o.lastSeq
               /\ \A j \in Key : h.removed[j] # o.removed[j] =>
                                   h.removed[j] = 0 \/ (j = m.key /\ h.removed[j] = m.seq)
<1>1. m.key \in Key /\ m.seq \in Nat \ {0}
  BY DEF Delivered
<1> QED
  BY <1>1, HeardFields

LEMMA Judged ==
    ASSUME NEW o \in Order, NEW m \in Delivered
    PROVE  AcceptedOutcome(o, m, Me, Accepted(o, m, Me))
<1>1. m.key \in Key /\ m.seq \in Nat \ {0}
  BY DEF Delivered
<1> QED
  BY <1>1, AcceptedFields

\* The head of a sequence of echoes, and the tail.
LEMMA EchoesHead ==
    ASSUME echoes \in Seq(Echo), echoes # << >>
    PROVE  /\ Head(echoes) \in Echo
           /\ Head(echoes) = echoes[1]
           /\ Head(echoes).key \in Key /\ Head(echoes).remove \in BOOLEAN
           /\ Head(echoes).seen \in Int
           /\ Tail(echoes) \in Seq(Echo)
           /\ Len(echoes) \in Nat \ {0}
           /\ Len(Tail(echoes)) = Len(echoes) - 1
           /\ \A i \in 1 .. Len(Tail(echoes)) : Tail(echoes)[i] = echoes[i + 1]
<1>1. Head(echoes) \in Echo /\ Tail(echoes) \in Seq(Echo)
  BY HeadTailProperties
<1>2. Len(echoes) \in Nat \ {0}
  BY EmptySeq
<1>3. /\ Len(Tail(echoes)) = Len(echoes) - 1
      /\ \A i \in 1 .. Len(Tail(echoes)) : Tail(echoes)[i] = echoes[i + 1]
  BY HeadTailProperties
<1> QED
  BY <1>1, <1>2, <1>3 DEF Echo

\* Every variable keeps its type.
LEMMA TypePreserved == TypeOK /\ [Next]_vars => TypeOK'
<1> SUFFICES ASSUME TypeOK, [Next]_vars PROVE TypeOK'
  OBVIOUS
<1>t. /\ order \in Order /\ echoes \in Seq(Echo) /\ Len(echoes) \in Nat
      /\ covered \in 0 .. Len(echoes) /\ heard \in Nat /\ moved \in BOOLEAN
  BY LenProperties DEF TypeOK
<1>1. ASSUME NEW k \in Key, NEW remove \in BOOLEAN, CastOne(k, remove) PROVE TypeOK'
  <2>1. order' \in Order
    BY <1>1, <1>t, OnLocalFields DEF CastOne, CastOutcome
  <2> DEFINE e == [key |-> k, remove |-> remove, seen |-> StampSeen(order), known |-> TRUE]
  <2>2. e \in Echo
    BY <1>t DEF Echo, StampSeen, Order
  <2>3. echoes' = Append(echoes, e)
    BY <1>1 DEF CastOne
  <2>4. echoes' \in Seq(Echo) /\ Len(echoes') = Len(echoes) + 1
    BY <1>t, <2>2, <2>3, AppendProperties
  <2>5. covered' \in {covered, covered + 1} /\ heard' = heard /\ moved' = moved
    BY <1>1 DEF CastOne
  <2> QED
    BY <1>t, <2>1, <2>4, <2>5 DEF TypeOK
<1>2. ASSUME NEW s \in 1 .. MaxSeq, EchoArrives(s) PROVE TypeOK'
  <2> DEFINE m == Delivery(Head(echoes).key, Head(echoes).remove, Me, Head(echoes).seen, s)
  <2>1. m \in Delivered
    BY <1>2, <1>t, EchoesHead, DeliveryType DEF EchoArrives
  <2>2. order' = Accepted(order, m, Me)
    BY <1>2 DEF EchoArrives
  <2> HIDE DEF m
  <2>3. order' \in Order
    BY <1>t, <2>1, <2>2, Judged DEF AcceptedOutcome
  <2>4. /\ echoes' = Tail(echoes) /\ covered' = Less(covered, 1) /\ heard' = s /\ moved' = moved
        /\ echoes # << >>
    BY <1>2 DEF EchoArrives
  <2> QED
    BY <1>t, <2>3, <2>4, EchoesHead DEF TypeOK, Less
<1>3. CASE EchoLost
  BY <1>3, <1>t, EchoesHead DEF EchoLost, TypeOK, Less
<1>4. ASSUME NEW k \in Key, NEW remove \in BOOLEAN, NEW s \in 1 .. MaxSeq,
             NEW seen \in {Unstamped} \cup (0 .. s - 1), PeerArrives(k, remove, seen, s)
      PROVE  TypeOK'
  <2> DEFINE m == Delivery(k, remove, Peer, seen, s)
  <2>1. m \in Delivered
    BY DeliveryType DEF Unstamped
  <2>2. order' = Accepted(order, m, Me)
    BY <1>4 DEF PeerArrives
  <2> HIDE DEF m
  <2>3. order' \in Order
    BY <1>t, <2>1, <2>2, Judged DEF AcceptedOutcome
  <2> QED
    BY <1>4, <1>t, <2>3 DEF TypeOK, PeerArrives
<1>5. ASSUME NEW k \in Key, TtlLapses(k) PROVE TypeOK'
  <2> DEFINE stale == order.stale \cup {k}
  <2>1. order' = [order EXCEPT !.stale = stale] /\ stale \in SUBSET Key
    BY <1>5, <1>t DEF TtlLapses, Lapse, Order
  <2> HIDE DEF stale
  <2>2. order' \in Order
    BY <1>t, <2>1 DEF Order
  <2> QED
    BY <1>5, <1>t, <2>2 DEF TtlLapses, TypeOK
<1>6. ASSUME NEW restarted \in BOOLEAN, Reconnect(restarted) PROVE TypeOK'
  <2>1. echoes' \in Seq(Echo) /\ Len(echoes') = 0
    BY <1>6, EmptySeq DEF Reconnect
  <2> QED
    BY <1>6, <1>t, <2>1 DEF Reconnect, TypeOK
<1>7. CASE IdLearned
  <2>1. order' \in Order
    BY <1>7, <1>t, NewOrderType DEF IdLearned
  <2>2. \A i \in 1 .. Len(echoes) : [echoes[i] EXCEPT !.known = FALSE] \in Echo
    <3>1. SUFFICES ASSUME NEW i \in 1 .. Len(echoes)
                   PROVE  [echoes[i] EXCEPT !.known = FALSE] \in Echo
      OBVIOUS
    <3>2. echoes[i] \in Echo
      BY <1>t, ElementOfSeq
    <3> QED
      BY <3>2 DEF Echo
  <2>3. DOMAIN echoes = 1 .. Len(echoes)
    BY <1>t, LenProperties
  <2>4. echoes' = [i \in 1 .. Len(echoes) |-> [echoes[i] EXCEPT !.known = FALSE]]
    BY <1>7, <2>3 DEF IdLearned
  <2>5. echoes' \in Seq(Echo) /\ Len(echoes') = Len(echoes)
    <3> DEFINE e(i) == [echoes[i] EXCEPT !.known = FALSE]
    <3>1. [i \in 1 .. Len(echoes) |-> e(i)] \in Seq(Echo)
      BY <1>t, <2>2, IsASeq
    <3>2. DOMAIN echoes' = 1 .. Len(echoes)
      BY <2>4
    <3> QED
      BY <1>t, <2>4, <3>1, <3>2, LenProperties
  <2>6. covered' \in 0 .. Len(echoes') /\ heard' \in Nat
    BY <1>7, <1>t, <2>5 DEF IdLearned
  <2>7. moved' \in BOOLEAN
    BY <1>7 DEF IdLearned
  <2> QED
    BY <2>1, <2>5, <2>6, <2>7 DEF TypeOK
<1>8. CASE UNCHANGED vars
  BY <1>8 DEF vars, TypeOK
<1> QED
  BY <1>1, <1>2, <1>3, <1>4, <1>5, <1>6, <1>7, <1>8 DEF Next, LocalEdit, LocalRemove

\* Every variable of the link has its type, whatever the caps and bounds: no count
\* of what is pending, forgotten or held by a gate ever runs below zero.
THEOREM TypeCorrect == Spec => []TypeOK
<1>1. Init => TypeOK
  <2>1. SUFFICES ASSUME Init PROVE TypeOK
    OBVIOUS
  <2>2. echoes \in Seq(Echo) /\ Len(echoes) = 0
    BY <2>1, EmptySeq DEF Init
  <2>3. order \in Order /\ covered \in 0 .. Len(echoes) /\ heard \in Nat
    BY <2>1, <2>2, NewOrderType DEF Init
  <2>4. moved \in BOOLEAN
    BY <2>1 DEF Init
  <2> QED
    BY <2>2, <2>3, <2>4 DEF TypeOK
<1> QED
  BY <1>1, TypePreserved, PTL DEF Spec

-------------------------------------------------------------------------------
(* The seqs: what was seen, the tombstones and the causal position.           *)

\* A pending rebase has seen nothing since its reset.
RebaseIsFresh == order.rebase => \A k \in Key : order.seen[k] = 0

\* PositionTruthful is not inductive alone: the delivery that resolves a rebase sets the
\* position to its own seq, which covers what was seen only because nothing was.
SeqInv == /\ RebaseIsFresh
          /\ PositionCoversSeen
          /\ TombstonesHeard
          /\ NotDeaf
          /\ PositionTruthful

\* A delivery above all this connection delivered before keeps the seqs in order.
LEMMA DeliveryKeepsSeqs ==
    ASSUME TypeOK, SeqInv, NEW m \in Delivered, heard < m.seq,
           order' = Accepted(order, m, Me), heard' = m.seq, moved' = moved
    PROVE  SeqInv' /\ (order'.lastSeq < order.lastSeq => order.rebase /\ ~order'.rebase)
<1>1. /\ order \in Order /\ heard \in Nat /\ m.seq \in Nat \ {0} /\ m.key \in Key
      /\ order.seen \in [Key -> Nat] /\ order.removed \in [Key -> Nat] /\ order.lastSeq \in Nat
  BY DEF TypeOK, Order, Delivered
<1>2. /\ order'.seen = [order.seen EXCEPT ![m.key] = IF m.seq > @ THEN m.seq ELSE @]
      /\ order'.rebase = FALSE
      /\ order'.lastSeq = IF order.rebase \/ m.seq > order.lastSeq THEN m.seq ELSE order.lastSeq
      /\ \A j \in Key : order'.removed[j] # order.removed[j] =>
                          order'.removed[j] = 0 \/ (j = m.key /\ order'.removed[j] = m.seq)
  <2> DEFINE h == Heard(order, m)
  <2>1. /\ h.seen = [order.seen EXCEPT ![m.key] = IF m.seq > @ THEN m.seq ELSE @]
        /\ h.rebase = FALSE
        /\ h.lastSeq = IF order.rebase \/ m.seq > order.lastSeq THEN m.seq ELSE order.lastSeq
        /\ \A j \in Key : h.removed[j] # order.removed[j] =>
                            h.removed[j] = 0 \/ (j = m.key /\ h.removed[j] = m.seq)
    BY <1>1, JudgedHeard
  <2>2. KeepsOrder(h, order')
    BY <1>1, Judged DEF AcceptedOutcome
  <2> HIDE DEF h
  <2> QED
    BY <2>1, <2>2 DEF KeepsOrder
<1>3. \A k \in Key : order'.seen[k] = IF k = m.key /\ m.seq > order.seen[k] THEN m.seq
                                                                         ELSE order.seen[k]
  BY <1>1, <1>2
<1>4. RebaseIsFresh'
  BY <1>2 DEF RebaseIsFresh
<1>5. PositionCoversSeen'
  BY <1>1, <1>2, <1>3 DEF SeqInv, RebaseIsFresh, PositionCoversSeen
<1>6. TombstonesHeard'
  <2>1. ASSUME NEW k \in Key PROVE order'.removed[k] <= order'.seen[k]
    <3>1. order.removed[k] <= order.seen[k]
      BY DEF SeqInv, TombstonesHeard
    <3>2. CASE order'.removed[k] = order.removed[k]
      BY <1>1, <1>3, <3>1, <3>2
    <3>3. CASE order'.removed[k] = 0
      BY <1>1, <1>3, <3>3
    <3>4. CASE k = m.key /\ order'.removed[k] = m.seq
      BY <1>1, <1>3, <3>4
    <3> QED
      BY <1>2, <3>2, <3>3, <3>4
  <2> QED
    BY <2>1 DEF TombstonesHeard
<1>7. NotDeaf'
  BY <1>1, <1>3 DEF SeqInv, NotDeaf
<1>8. PositionTruthful'
  BY <1>1, <1>2 DEF SeqInv, PositionTruthful
<1> QED
  BY <1>1, <1>2, <1>4, <1>5, <1>6, <1>7, <1>8 DEF SeqInv

\* A step that leaves the seqs, `heard` and `moved` alone.
LEMMA SeqsUntouched ==
    ASSUME SeqInv, TypeOK, KeepsOrder(order, order'), heard' = heard, moved' = moved
    PROVE  SeqInv' /\ (order'.lastSeq < order.lastSeq => order.rebase /\ ~order'.rebase)
<1>1. order.lastSeq \in Nat
  BY DEF TypeOK, Order
<1> QED
  BY <1>1 DEF KeepsOrder, SeqInv, RebaseIsFresh, PositionCoversSeen, TombstonesHeard, NotDeaf,
              PositionTruthful

LEMMA SeqsPreserved ==
    TypeOK /\ SeqInv /\ [Next]_vars =>
        SeqInv' /\ (order'.lastSeq < order.lastSeq => order.rebase /\ ~order'.rebase)
<1> SUFFICES ASSUME TypeOK, SeqInv, [Next]_vars
             PROVE  SeqInv' /\ (order'.lastSeq < order.lastSeq => order.rebase /\ ~order'.rebase)
  OBVIOUS
<1> DEFINE Goal == SeqInv' /\ (order'.lastSeq < order.lastSeq => order.rebase /\ ~order'.rebase)
<1>t. /\ order \in Order /\ echoes \in Seq(Echo) /\ heard \in Nat /\ moved \in BOOLEAN
      /\ order.lastSeq \in Nat
  BY DEF TypeOK, Order
<1>1. ASSUME NEW k \in Key, NEW remove \in BOOLEAN, CastOne(k, remove) PROVE Goal
  <2>1. KeepsOrder(order, order') /\ heard' = heard /\ moved' = moved
    BY <1>1, <1>t, OnLocalFields DEF CastOne, CastOutcome
  <2> QED
    BY <2>1, SeqsUntouched
<1>2. ASSUME NEW s \in 1 .. MaxSeq, EchoArrives(s) PROVE Goal
  <2> DEFINE m == Delivery(Head(echoes).key, Head(echoes).remove, Me, Head(echoes).seen, s)
  <2>1. m \in Delivered /\ m.seq = s
    BY <1>2, <1>t, EchoesHead, DeliveryType DEF EchoArrives
  <2>2. order' = Accepted(order, m, Me) /\ heard < s /\ heard' = s /\ moved' = moved
    BY <1>2 DEF EchoArrives
  <2> HIDE DEF m
  <2> QED
    BY <2>1, <2>2, DeliveryKeepsSeqs
<1>3. CASE EchoLost
  <2>1. KeepsOrder(order, order') /\ heard' = heard /\ moved' = moved
    BY <1>3 DEF EchoLost, KeepsOrder
  <2> QED
    BY <2>1, SeqsUntouched
<1>4. ASSUME NEW k \in Key, NEW remove \in BOOLEAN, NEW s \in 1 .. MaxSeq,
             NEW seen \in {Unstamped} \cup (0 .. s - 1), PeerArrives(k, remove, seen, s)
      PROVE  Goal
  <2> DEFINE m == Delivery(k, remove, Peer, seen, s)
  <2>1. m \in Delivered /\ m.seq = s
    BY DeliveryType DEF Unstamped
  <2>2. order' = Accepted(order, m, Me) /\ heard < s /\ heard' = s /\ moved' = moved
    BY <1>4 DEF PeerArrives
  <2> HIDE DEF m
  <2> QED
    BY <2>1, <2>2, DeliveryKeepsSeqs
<1>5. ASSUME NEW k \in Key, TtlLapses(k) PROVE Goal
  <2>1. KeepsOrder(order, order') /\ heard' = heard /\ moved' = moved
    BY <1>5, <1>t DEF TtlLapses, Lapse, Order, KeepsOrder
  <2> QED
    BY <2>1, SeqsUntouched
<1>6. ASSUME NEW restarted \in BOOLEAN, Reconnect(restarted) PROVE Goal
  BY <1>6, <1>t DEF Reconnect, SeqInv, RebaseIsFresh, PositionCoversSeen, TombstonesHeard, NotDeaf,
                    PositionTruthful
<1>7. CASE IdLearned
  <2>1. order' = Reset(order) /\ heard' = heard
    BY <1>7 DEF IdLearned
  <2>2. /\ order'.seen = [k \in Key |-> 0]
        /\ order'.removed = [k \in Key |-> 0]
        /\ order'.rebase = TRUE
        /\ order'.lastSeq = order.lastSeq
    BY <1>t, <2>1, NewOrderType
  <2> QED
    BY <1>t, <2>1, <2>2 DEF SeqInv, RebaseIsFresh, PositionCoversSeen, TombstonesHeard, NotDeaf,
                            PositionTruthful
<1>8. CASE UNCHANGED vars
  <2>1. KeepsOrder(order, order') /\ heard' = heard /\ moved' = moved
    BY <1>8 DEF vars, KeepsOrder
  <2> QED
    BY <2>1, SeqsUntouched
<1> QED
  BY <1>1, <1>2, <1>3, <1>4, <1>5, <1>6, <1>7, <1>8 DEF Next, LocalEdit, LocalRemove

LEMMA SeqsInit == Init => SeqInv
<1>1. Init => /\ order.seen = [k \in Key |-> 0] /\ order.removed = [k \in Key |-> 0]
              /\ order.lastSeq = 0 /\ order.rebase = FALSE /\ heard = 0
  BY DEF Init, NewOrder
<1> QED
  BY <1>1 DEF SeqInv, RebaseIsFresh, PositionCoversSeen, TombstonesHeard, NotDeaf,
              PositionTruthful

\* Once the new connection is known the client is never deaf, whichever core it found
\* (NotDeaf); no tombstone outranks what was seen of its key; the position covers
\* everything seen, and after the rebase it is a seq of this core (PositionTruthful).
THEOREM SeqsCorrect ==
    Spec => []SeqsRight
<1>1. Init => SeqInv
  BY SeqsInit
<1>2. SeqInv => SeqsRight
  BY DEF SeqInv, SeqsRight
<1>3. Spec => []TypeOK
  BY TypeCorrect
<1>4. TypeOK /\ SeqInv /\ [Next]_vars => SeqInv'
  BY SeqsPreserved
<1> QED
  BY <1>1, <1>2, <1>3, <1>4, PTL DEF Spec

\* The causal position moves back only when a delivery resolves a pending rebase.
THEOREM PositionRebases == Spec => PositionOnlyRebases
<1>1. Init => SeqInv
  BY SeqsInit
<1>2. Spec => []TypeOK
  BY TypeCorrect
<1>3. TypeOK /\ SeqInv /\ [Next]_vars => SeqInv'
  BY SeqsPreserved
<1>4. TypeOK /\ SeqInv /\ [Next]_vars =>
        [order'.lastSeq < order.lastSeq => order.rebase /\ ~order'.rebase]_vars
  BY SeqsPreserved
<1> QED
  BY <1>1, <1>2, <1>3, <1>4, PTL DEF Spec, PositionOnlyRebases

-------------------------------------------------------------------------------
(* The re-creation gate and the pending counts: no remove that is in flight ever has its
   gate open, and no echo finds its pending entry gone, whatever is lost, forgotten or
   reset.  What is counted are the echoes still due.                                     *)

\* A cast of ours adds one echo to its key.
LEMMA EchoAdded ==
    ASSUME TypeOK, NEW e \in Echo, echoes' = Append(echoes, e), NEW k
    PROVE  /\ Cardinality(EchoesOf(k)) \in Nat
           /\ Cardinality(EchoesOf(k)') = IF e.key = k THEN Cardinality(EchoesOf(k)) + 1
                                                       ELSE Cardinality(EchoesOf(k))
<1> DEFINE n == Len(echoes)
           S == EchoesOf(k)
           T == EchoesOf(k)'
<1>1. /\ n \in Nat /\ Len(echoes') = n + 1 /\ echoes'[n + 1] = e
      /\ \A i \in 1 .. n : echoes'[i] = echoes[i]
      /\ DOMAIN echoes = 1 .. n /\ DOMAIN echoes' = 1 .. n + 1
  BY LenProperties, AppendProperties DEF TypeOK
<1> HIDE DEF n
<1>2. S \in SUBSET (1 .. n) /\ T \in SUBSET (1 .. n + 1)
  BY <1>1 DEF EchoesOf
<1>3. (\A i \in 1 .. n : i \in T <=> i \in S) /\ (n + 1 \in T <=> e.key = k)
  BY <1>1 DEF EchoesOf
<1> HIDE DEF S, T
<1>4. /\ Cardinality(S) \in Nat
      /\ Cardinality(T) = IF n + 1 \in T THEN Cardinality(S) + 1 ELSE Cardinality(S)
  BY <1>1, <1>2, <1>3, AppendCount
<1> QED
  BY <1>3, <1>4 DEF S, T

\* The oldest echo arrives, or is lost: its key has one fewer due, and, if it was of a
\* forgotten cast, one fewer of those.
LEMMA EchoGone ==
    ASSUME TypeOK, echoes # << >>, echoes' = Tail(echoes), covered' = Less(covered, 1), NEW k
    PROVE  /\ Cardinality(EchoesOf(k)) \in Nat
           /\ Cardinality(EchoesOf(k)') \in Nat
           /\ Cardinality(EchoesOf(k)') = IF Head(echoes).key = k THEN Cardinality(EchoesOf(k)) - 1
                                                                  ELSE Cardinality(EchoesOf(k))
           /\ Cardinality(CoveredOf(k)) \in Nat
           /\ Cardinality(CoveredOf(k)') \in Nat
           /\ Cardinality(CoveredOf(k)')
                = IF covered > 0 /\ Head(echoes).key = k THEN Cardinality(CoveredOf(k)) - 1
                                                         ELSE Cardinality(CoveredOf(k))
<1> DEFINE n == Len(echoes)
           S == EchoesOf(k)
           T == EchoesOf(k)'
           C == CoveredOf(k)
           D == CoveredOf(k)'
<1>1. /\ n \in Nat \ {0} /\ Len(echoes') = n - 1 /\ Head(echoes) = echoes[1]
      /\ \A i \in 1 .. n - 1 : echoes'[i] = echoes[i + 1]
      /\ DOMAIN echoes = 1 .. n /\ DOMAIN echoes' = 1 .. n - 1
      /\ covered \in 0 .. n
  BY EchoesHead, LenProperties DEF TypeOK
<1> HIDE DEF n
<1>2. S \in SUBSET (1 .. n) /\ T \in SUBSET (1 .. n - 1)
  BY <1>1 DEF EchoesOf
<1>3. (\A i \in 1 .. n - 1 : i \in T <=> i + 1 \in S) /\ (1 \in S <=> Head(echoes).key = k)
  BY <1>1 DEF EchoesOf
<1>4. /\ C \in SUBSET (1 .. covered)
      /\ covered > 0 => (1 \in C <=> Head(echoes).key = k)
  BY <1>1 DEF CoveredOf
<1>5. D = {i \in 1 .. covered' : echoes'[i].key = k}
  BY DEF CoveredOf
<1>6. CASE covered > 0
  <2>1. covered' = covered - 1 /\ covered \in Nat
    BY <1>1, <1>6 DEF Less
  <2>2. D \in SUBSET (1 .. covered - 1)
    BY <1>5, <2>1
  <2>3. \A i \in 1 .. covered - 1 : i \in D <=> i + 1 \in C
    BY <1>1, <1>5, <1>6, <2>1 DEF CoveredOf
  <2> HIDE DEF S, T, C, D
  <2>4. /\ Cardinality(D) \in Nat /\ Cardinality(C) \in Nat
        /\ Cardinality(D) = IF 1 \in C THEN Cardinality(C) - 1 ELSE Cardinality(C)
    BY <1>4, <2>1, <2>2, <2>3, TailCount
  <2>5. /\ Cardinality(T) \in Nat /\ Cardinality(S) \in Nat
        /\ Cardinality(T) = IF 1 \in S THEN Cardinality(S) - 1 ELSE Cardinality(S)
    BY <1>1, <1>2, <1>3, TailCount
  <2> QED
    BY <1>3, <1>4, <1>6, <2>4, <2>5 DEF S, T, C, D
<1>7. CASE covered = 0
  <2>1. covered' = 0
    BY <1>7 DEF Less
  <2>2. C = {} /\ D = {}
    BY <1>4, <1>5, <1>7, <2>1
  <2> HIDE DEF S, T, C, D
  <2>3. Cardinality(C) = 0 /\ Cardinality(D) = 0
    BY <2>2, FS_EmptySet
  <2>5. /\ Cardinality(T) \in Nat /\ Cardinality(S) \in Nat
        /\ Cardinality(T) = IF 1 \in S THEN Cardinality(S) - 1 ELSE Cardinality(S)
    BY <1>1, <1>2, <1>3, TailCount
  <2> QED
    BY <1>3, <1>7, <2>3, <2>5 DEF S, T, C, D
<1> QED
  BY <1>1, <1>6, <1>7

-------------------------------------------------------------------------------
(* The invariant.  GateShutWhileUnacked says nothing of the record, so it is not
   inductive: a lost echo leaves its cast recorded, a burst makes the record forget
   casts whose echo is still due.  What holds it up is that the echoes not covered
   by `forgotten` are the record's last casts, in order, and that a gate is raised
   once for every remove on the record.                                       *)

\* On a connection whose clientId is not known yet, nothing of ours is in flight.
MovedIsSilent == moved => echoes = << >>

GateInv == /\ GateHolds(order)
           /\ Len(order.casts) <= LocalCastsMax
           /\ RecordAligned
           /\ ForgottenAwaited
           /\ EchoesArePending
           /\ MarksArePending
           /\ MovedIsSilent

LEMMA GateInit == Init => GateInv
<1> SUFFICES ASSUME Init PROVE GateInv
  OBVIOUS
<1>1. /\ order.casts = << >> /\ order.pendingRemoves = [k \in Key |-> 0]
      /\ order.forgotten = [k \in Key |-> 0] /\ order.pending = [k \in Key |-> 0]
      /\ order.stale = {} /\ order.superseded = {}
      /\ echoes = << >> /\ covered = 0 /\ moved = FALSE
  BY DEF Init, NewOrder
<1>2. Len(<< >>) = 0 /\ DOMAIN << >> = {}
  BY EmptySeq
<1>3. \A k \in Key : RemovesOf(order.casts, k) = {} /\ EchoesOf(k) = {} /\ CoveredOf(k) = {}
  BY <1>1, <1>2 DEF RemovesOf, EchoesOf, CoveredOf
<1>4. \A k \in Key : /\ Cardinality(RemovesOf(order.casts, k)) = 0
                     /\ Cardinality(EchoesOf(k)) = 0 /\ Cardinality(CoveredOf(k)) = 0
  BY <1>3, FS_EmptySet
<1> QED
  BY <1>1, <1>2, <1>4, CapAssumption
     DEF GateInv, GateHolds, RecordAligned, ForgottenAwaited, EchoesArePending, MarksArePending,
         MovedIsSilent

\* We cast: record, pending count and echo grow together, and what the cap makes the
\* record forget is covered by `forgotten`.
LEMMA CastKeepsGate ==
    ASSUME TypeOK, GateInv, NEW k \in Key, NEW remove \in BOOLEAN, ~moved, CastOne(k, remove)
    PROVE  GateInv'
<1> DEFINE c     == [key |-> k, remove |-> remove]
           e     == [key |-> k, remove |-> remove, seen |-> StampSeen(order), known |-> TRUE]
           all   == Recorded(order, k, remove)
           over  == Len(all) > LocalCastsMax
           len   == Len(order.casts)
           n     == Len(echoes)
<1>1. /\ order \in Order /\ order' = OnLocal(order, c) /\ echoes' = Append(echoes, e)
      /\ moved' = moved
  BY DEF TypeOK, CastOne
<1>2. /\ order'.pending = [order.pending EXCEPT ![k] = @ + 1]
      /\ order'.stale = order.stale \ {k}
      /\ order'.superseded = order.superseded \ {k}
      /\ order'.casts = IF over THEN Tail(all) ELSE all
      /\ order'.forgotten = IF over THEN [order.forgotten EXCEPT ![Head(all).key] = @ + 1]
                                    ELSE order.forgotten
  <2>1. CastOutcome(order, k, remove, order')
    BY <1>1, OnLocalFields
  <2> QED
    BY <2>1 DEF CastOutcome
<1>3. e \in Echo
  BY <1>1 DEF Echo, StampSeen, Order
<1>4. /\ order.casts \in Seq(Cast) /\ c \in Cast /\ len \in Nat
      /\ order.forgotten \in [Key -> Nat] /\ order.pending \in [Key -> Nat]
      /\ order.stale \in SUBSET Key /\ order.superseded \in SUBSET Key
      /\ n \in Nat /\ covered \in 0 .. n /\ echoes \in Seq(Echo)
  BY <1>1, LenProperties DEF Order, Cast, TypeOK
<1>5. /\ all \in Seq(Cast) /\ Len(all) = len + 1 /\ all[len + 1] = c
      /\ \A i \in 1 .. len : all[i] = order.casts[i]
      /\ all # << >>
  BY <1>1, RecordedFields
<1>6. /\ Head(all) = all[1] /\ Head(all) \in Cast
      /\ Len(Tail(all)) = len
      /\ \A i \in 1 .. len : Tail(all)[i] = all[i + 1]
  <2>1. /\ Head(all) \in Cast /\ Len(Tail(all)) = Len(all) - 1
        /\ \A i \in 1 .. Len(Tail(all)) : Tail(all)[i] = all[i + 1]
    BY <1>5, HeadTailProperties
  <2>2. Head(all) = all[1]
    BY <1>5
  <2> QED
    BY <1>4, <1>5, <2>1, <2>2
<1>7. /\ Len(echoes') = n + 1 /\ echoes'[n + 1] = e
      /\ \A i \in 1 .. n : echoes'[i] = echoes[i]
  BY <1>1, <1>3, <1>4, AppendProperties
<1>8. over <=> len = LocalCastsMax
  BY <1>4, <1>5, CapAssumption DEF GateInv
<1>9. covered' = IF over /\ n - covered = LocalCastsMax THEN covered + 1 ELSE covered
  BY <1>8 DEF CastOne
<1>a. /\ n - covered <= len
      /\ \A i \in 1 .. n - covered :
            /\ order.casts[len - n + covered + i].key = echoes[covered + i].key
            /\ order.casts[len - n + covered + i].remove = echoes[covered + i].remove
      /\ len <= LocalCastsMax
  BY DEF GateInv, RecordAligned
<1>k. e.key = k /\ e.remove = remove /\ c.key = k /\ c.remove = remove
  OBVIOUS
<1> HIDE DEF c, e, all, len, n, over
<1>b. GateHolds(order)'
  <2>1. GateHolds(OnLocal(order, c))
    BY <1>1, OnLocalGate DEF GateInv, c
  <2> QED
    BY <1>1, <2>1 DEF GateHolds
<1>c. /\ Len(order'.casts) = IF over THEN len ELSE len + 1
      /\ Len(order'.casts) <= LocalCastsMax
  BY <1>2, <1>4, <1>5, <1>6, <1>8, <1>a, CapAssumption
<1>d. RecordAligned'
  <2> DEFINE u == n + 1 - covered'
             sh == IF over THEN 1 ELSE 0
             len2 == Len(order'.casts)
  <2>1. u \in Nat /\ u <= len2 /\ len2 = len + 1 - sh
    BY <1>4, <1>8, <1>9, <1>a, <1>c, CapAssumption
  <2>2. \A i \in 1 .. len2 : order'.casts[i] = all[i + sh]
    BY <1>2, <1>4, <1>6, <1>c
  <2>3. ASSUME NEW i \in 1 .. u
        PROVE  /\ order'.casts[len2 - u + i].key = echoes'[covered' + i].key
               /\ order'.casts[len2 - u + i].remove = echoes'[covered' + i].remove
    <3>1. /\ len2 - u + i \in 1 .. len2
          /\ len2 - u + i + sh = len + 1 - u + i
      <4>1. len \in Nat /\ sh \in {0, 1} /\ i \in 1 .. u
        BY <1>4
      <4> HIDE DEF u, sh, len2
      <4> QED
        BY <2>1, <4>1
    <3>2. order'.casts[len2 - u + i] = all[len + 1 - u + i]
      BY <2>2, <3>1
    <3>3. covered' + i = n + 1 - u + i
      BY <1>4, <1>9
    <3>4. CASE i = u
      <4>1. len + 1 - u + i = len + 1 /\ covered' + i = n + 1
        BY <1>4, <2>1, <3>3, <3>4
      <4> QED
        BY <1>5, <1>7, <1>k, <3>2, <4>1
    <3>5. CASE i # u
      <4> DEFINE j == IF covered' = covered THEN i ELSE i + 1
      <4>1. j \in 1 .. n - covered /\ len + 1 - u + i = len - n + covered + j
            /\ covered' + i = covered + j
        BY <1>4, <1>9, <2>1, <3>3, <3>5
      <4>2. len - n + covered + j \in 1 .. len /\ covered + j \in 1 .. n
        BY <1>4, <1>a, <4>1
      <4>3. all[len - n + covered + j] = order.casts[len - n + covered + j]
        BY <1>5, <4>2
      <4>4. echoes'[covered + j] = echoes[covered + j]
        BY <1>7, <4>2
      <4> QED
        BY <1>a, <3>2, <4>1, <4>3, <4>4
    <3> QED
      BY <3>4, <3>5
  <2>4. Len(echoes') - covered' = u
    BY <1>4, <1>7, <1>9
  <2>5. Len(order'.casts) - Len(echoes') + covered' = len2 - u
    BY <1>4, <1>7, <1>9, <2>1
  <2> HIDE DEF u, sh, len2
  <2> QED
    BY <2>1, <2>3, <2>4, <2>5 DEF RecordAligned, len2
<1>e. ForgottenAwaited'
  <2>1. ASSUME NEW j \in Key PROVE Cardinality(CoveredOf(j)') <= order'.forgotten[j]
    <3> DEFINE C == CoveredOf(j)
               D == CoveredOf(j)'
    <3>1. D = {i \in 1 .. covered' : echoes'[i].key = j}
      BY DEF CoveredOf
    <3>2. C \in SUBSET (1 .. covered) /\ covered \in Nat
      BY <1>4 DEF CoveredOf
    <3>3. Cardinality(C) <= order.forgotten[j] /\ order.forgotten[j] \in Nat
      BY <1>4 DEF GateInv, ForgottenAwaited
    <3>4. order'.forgotten[j] = IF over /\ Head(all).key = j THEN order.forgotten[j] + 1
                                                             ELSE order.forgotten[j]
      BY <1>2, <1>4, <1>6 DEF Cast
    <3>5. CASE covered' = covered
      <4>1. C = D
        BY <1>4, <1>7, <3>1, <3>5 DEF CoveredOf
      <4>2. Cardinality(C) \in Nat
        BY <3>2, CountType
      <4> HIDE DEF C, D
      <4> QED
        BY <3>3, <3>4, <4>1, <4>2 DEF D
    <3>6. CASE covered' = covered + 1
      <4>1. over /\ n - covered = LocalCastsMax /\ len = LocalCastsMax
        BY <1>4, <1>8, <1>9, <3>6
      <4>2. covered + 1 \in 1 .. n /\ len - n + covered + 1 = 1 /\ 1 \in 1 .. n - covered
        BY <1>4, <4>1, CapAssumption
      <4>3. echoes'[covered + 1].key = Head(all).key
        BY <1>4, <1>5, <1>6, <1>7, <1>a, <4>1, <4>2
      <4>4. D \in SUBSET (1 .. covered + 1)
        BY <3>1, <3>6
      <4>5. \A i \in 1 .. covered : i \in D <=> i \in C
        BY <1>4, <1>7, <3>1, <3>6 DEF CoveredOf
      <4>6. covered + 1 \in D <=> Head(all).key = j
        BY <1>4, <3>1, <3>6, <4>3
      <4> HIDE DEF C, D
      <4>7. /\ Cardinality(C) \in Nat /\ Cardinality(D) \in Nat
            /\ Cardinality(D) = IF covered + 1 \in D THEN Cardinality(C) + 1 ELSE Cardinality(C)
        BY <3>2, <4>4, <4>5, AppendCount
      <4> QED
        BY <3>3, <3>4, <4>1, <4>6, <4>7 DEF D
    <3> QED
      BY <1>9, <3>5, <3>6
  <2> QED
    BY <2>1 DEF ForgottenAwaited
<1>f. EchoesArePending'
  <2>1. ASSUME NEW j \in Key PROVE Cardinality(EchoesOf(j)') <= order'.pending[j]
    <3>1. /\ Cardinality(EchoesOf(j)) \in Nat
          /\ Cardinality(EchoesOf(j)') = IF e.key = j THEN Cardinality(EchoesOf(j)) + 1
                                                      ELSE Cardinality(EchoesOf(j))
      BY <1>1, <1>3, EchoAdded
    <3>2. Cardinality(EchoesOf(j)) <= order.pending[j] /\ order.pending[j] \in Nat
      BY <1>4 DEF GateInv, EchoesArePending
    <3>3. order'.pending[j] = IF k = j THEN order.pending[j] + 1 ELSE order.pending[j]
      BY <1>2, <1>4
    <3> QED
      BY <1>k, <3>1, <3>2, <3>3
  <2> QED
    BY <2>1 DEF EchoesArePending
<1>g. MarksArePending'
  BY <1>2, <1>4 DEF GateInv, MarksArePending
<1>h. MovedIsSilent'
  BY <1>1 DEF MovedIsSilent
<1> QED
  BY <1>b, <1>c, <1>d, <1>e, <1>f, <1>g, <1>h DEF GateInv

\* An echo goes and the record stays: what is left of the echoes is still its end.
LEMMA AlignedWithoutEcho ==
    ASSUME TypeOK, RecordAligned, echoes # << >>, order'.casts = order.casts,
           echoes' = Tail(echoes), covered' = Less(covered, 1)
    PROVE  RecordAligned'
<1> DEFINE len == Len(order.casts)
           n   == Len(echoes)
           n2  == Len(echoes')
           len2 == Len(order'.casts)
<1>1. /\ len \in Nat /\ n \in Nat \ {0} /\ covered \in 0 .. n
      /\ n2 = n - 1
      /\ \A i \in 1 .. n - 1 : echoes'[i] = echoes[i + 1]
  BY EchoesHead, LenProperties DEF TypeOK, Order
<1>2. /\ n - covered <= len
      /\ \A i \in 1 .. n - covered :
            /\ order.casts[len - n + covered + i].key = echoes[covered + i].key
            /\ order.casts[len - n + covered + i].remove = echoes[covered + i].remove
  BY DEF RecordAligned
<1>3. len2 = len
  OBVIOUS
<1> HIDE DEF len, n, n2, len2
<1>4. PICK d \in {0, 1} : covered' + 1 = covered + d /\ n2 - covered' = n - covered - d
  <2>1. CASE covered > 0
    <3>1. covered' + 1 = covered + 0 /\ n2 - covered' = n - covered - 0
      BY <1>1, <2>1 DEF Less
    <3> QED
      BY <3>1
  <2>2. CASE covered = 0
    <3>1. covered' + 1 = covered + 1 /\ n2 - covered' = n - covered - 1
      BY <1>1, <2>2 DEF Less
    <3> QED
      BY <3>1
  <2> QED
    BY <1>1, <2>1, <2>2
<1>5. covered' \in Nat
  BY <1>1 DEF Less
<1>6. ASSUME NEW i \in 1 .. n2 - covered'
      PROVE  /\ order'.casts[len2 - n2 + covered' + i].key = echoes'[covered' + i].key
             /\ order'.casts[len2 - n2 + covered' + i].remove = echoes'[covered' + i].remove
  <2>1. i + d \in 1 .. n - covered /\ covered' + i \in 1 .. n - 1
    BY <1>1, <1>4, <1>5
  <2> DEFINE was == covered
             now == covered'
  <2>t. /\ i \in Int /\ d \in Int /\ was \in Int /\ now \in Int /\ n \in Int /\ len \in Int
        /\ n2 = n - 1 /\ len2 = len /\ now + 1 = was + d
    BY <1>1, <1>3, <1>4, <1>5
  <2> HIDE DEF was, now
  <2>e. now + i + 1 = was + (i + d) /\ len2 - n2 + now + i = len - n + was + (i + d)
    BY <2>t
  <2>2. covered' + i + 1 = covered + (i + d) /\ len2 - n2 + covered' + i = len - n + covered + (i + d)
    BY <2>e DEF was, now
  <2>3. echoes'[covered' + i] = echoes[covered + (i + d)]
    BY <1>1, <2>1, <2>2
  <2> QED
    BY <1>2, <2>1, <2>2, <2>3
<1>7. n2 - covered' <= len2
  BY <1>1, <1>2, <1>3, <1>4, <1>5
<1> QED
  BY <1>6, <1>7 DEF RecordAligned, len2, n2

\* An echo takes its cast, and the older ones that lost theirs, off the record.
LEMMA AlignedAfterMatch ==
    ASSUME TypeOK, RecordAligned, echoes # << >>, covered = 0,
           NEW at, FirstAt(order, Head(echoes).key, at),
           order'.casts = SubSeq(order.casts, at + 1, Len(order.casts)),
           echoes' = Tail(echoes), covered' = 0
    PROVE  RecordAligned'
<1> DEFINE len == Len(order.casts)
           n   == Len(echoes)
<1>1. /\ len \in Nat /\ n \in Nat \ {0} /\ Head(echoes) = echoes[1]
      /\ Len(echoes') = n - 1
      /\ \A i \in 1 .. n - 1 : echoes'[i] = echoes[i + 1]
      /\ order.casts \in Seq(Cast)
  BY EchoesHead, LenProperties DEF TypeOK, Order
<1>2. /\ n <= len
      /\ \A i \in 1 .. n :
            /\ order.casts[len - n + i].key = echoes[i].key
            /\ order.casts[len - n + i].remove = echoes[i].remove
  <2>1. /\ n - covered <= len
        /\ \A i \in 1 .. n - covered :
              /\ order.casts[len - n + covered + i].key = echoes[covered + i].key
              /\ order.casts[len - n + covered + i].remove = echoes[covered + i].remove
    BY DEF RecordAligned
  <2> HIDE DEF n, len
  <2>2. n - covered = n /\ len - n + covered = len - n
    BY <1>1
  <2>3. \A i \in 1 .. n : covered + i = i
    OBVIOUS
  <2> QED
    BY <2>1, <2>2, <2>3
<1>3. at \in 1 .. len /\ at <= len - n + 1
  <2>1. at \in 1 .. len /\ \A i \in 1 .. len : order.casts[i].key = Head(echoes).key => at <= i
    BY DEF FirstAt
  <2> HIDE DEF n, len
  <2>2. len - n + 1 \in 1 .. len /\ order.casts[len - n + 1].key = Head(echoes).key
    BY <1>1, <1>2
  <2> QED
    BY <2>1, <2>2
<1>4. /\ Len(order'.casts) = len - at
      /\ \A i \in 1 .. len - at : order'.casts[i] = order.casts[at + i]
  <2>1. /\ at + 1 \in Int /\ len \in Int
        /\ \A i \in at + 1 .. len : order.casts[i] \in Cast
    BY <1>1, <1>3, ElementOfSeq
  <2> HIDE DEF len
  <2>2. LET q == SubSeq(order.casts, at + 1, len)
        IN  /\ Len(q) = IF at + 1 <= len THEN len - (at + 1) + 1 ELSE 0
            /\ \A i \in 1 .. len - (at + 1) + 1 : q[i] = order.casts[at + 1 + i - 1]
    BY <2>1, SubSeqProperties
  <2>3. order'.casts = SubSeq(order.casts, at + 1, len)
    BY DEF len
  <2> QED
    BY <1>1, <1>3, <2>2, <2>3
<1> HIDE DEF len, n
<1>5. ASSUME NEW i \in 1 .. n - 1
      PROVE  /\ order'.casts[(len - at) - (n - 1) + i].key = echoes'[i].key
             /\ order'.casts[(len - at) - (n - 1) + i].remove = echoes'[i].remove
  <2>1. (len - at) - (n - 1) + i \in 1 .. len - at
    BY <1>1, <1>3
  <2>2. order'.casts[(len - at) - (n - 1) + i] = order.casts[at + ((len - at) - (n - 1) + i)]
    BY <1>4, <2>1
  <2>3. at + ((len - at) - (n - 1) + i) = len - n + (i + 1) /\ i + 1 \in 1 .. n
    BY <1>1, <1>3
  <2> QED
    BY <1>1, <1>2, <2>2, <2>3
<1> DEFINE len2 == Len(order'.casts)
           n2   == Len(echoes')
<1>6. n2 = n - 1 /\ len2 = len - at
  BY <1>1, <1>4 DEF n
<1> HIDE DEF len2, n2
<1>7. /\ n2 - covered' = n - 1
      /\ len2 - n2 + covered' = (len - at) - (n - 1)
      /\ n2 - covered' <= len2
  BY <1>1, <1>3, <1>6
<1>8. ASSUME NEW i \in 1 .. n2 - covered'
      PROVE  /\ order'.casts[len2 - n2 + covered' + i].key = echoes'[covered' + i].key
             /\ order'.casts[len2 - n2 + covered' + i].remove = echoes'[covered' + i].remove
  <2>1. i \in 1 .. n - 1 /\ covered' + i = i
    BY <1>7
  <2> QED
    BY <1>5, <1>7, <2>1
<1> QED
  BY <1>7, <1>8 DEF RecordAligned, len2, n2

\* Our echo arrives: it is acked, and it meets the cast it is the echo of or, if that
\* one was forgotten, a cast that was.
LEMMA EchoKeepsGate ==
    ASSUME TypeOK, GateInv, NEW m \in Delivered, m.src = Me, echoes # << >>,
           m.key = Head(echoes).key, order' = Accepted(order, m, Me),
           echoes' = Tail(echoes), covered' = Less(covered, 1), moved' = moved
    PROVE  GateInv'
<1> DEFINE k == m.key
           h == Heard(order, m)
           a == Ack(h, k)
<1>1. order \in Order /\ k \in Key /\ h \in Order /\ Keeps(order, h) /\ order' = MatchEcho(a, k)
  BY JudgedHeard, Judged DEF TypeOK, AcceptedOutcome, Delivered
<1> HIDE DEF h
<1>2. /\ a \in Order
      /\ a.pending = [order.pending EXCEPT ![k] = Less(@, 1)]
      /\ a.stale \cup a.superseded \subseteq order.stale \cup order.superseded
      /\ order.pending[k] = 1 => k \notin a.stale \cup a.superseded
      /\ a.casts = order.casts
      /\ a.pendingRemoves = order.pendingRemoves
      /\ a.forgotten = order.forgotten
  <2>1. AckOutcome(h, k, a)
    BY <1>1, AckFields
  <2> QED
    BY <1>1, <2>1 DEF AckOutcome, Keeps
<1>3. /\ order.pending \in [Key -> Nat] /\ order.forgotten \in [Key -> Nat]
      /\ order.casts \in Seq(Cast) /\ Len(order.casts) \in Nat
      /\ order.stale \in SUBSET Key /\ order.superseded \in SUBSET Key
      /\ echoes \in Seq(Echo) /\ Len(echoes) \in Nat \ {0} /\ covered \in 0 .. Len(echoes)
      /\ Head(echoes) = echoes[1]
  BY <1>1, EchoesHead, LenProperties DEF Order, TypeOK
<1> HIDE DEF a
<1>4. GateHolds(order)'
  <2>1. GateHolds(a)
    BY <1>2 DEF GateInv, GateHolds
  <2>2. GateHolds(MatchEcho(a, k))
    BY <1>1, <1>2, <2>1, MatchEchoGate
  <2> QED
    BY <1>1, <2>2 DEF GateHolds
<1>5. /\ order'.pending = a.pending
      /\ order'.stale = a.stale
      /\ order'.superseded = a.superseded
  <2>1. MatchOutcome(a, k, order')
    BY <1>1, <1>2, MatchEchoFields
  <2> QED
    BY <2>1 DEF MatchOutcome
<1>6. EchoesArePending' /\ MarksArePending'
  <2>1. ASSUME NEW j \in Key
        PROVE  /\ Cardinality(EchoesOf(j)') <= order'.pending[j]
               /\ j \in order'.superseded \cup order'.stale => order'.pending[j] > 0
    <3>1. /\ Cardinality(EchoesOf(j)) \in Nat /\ Cardinality(EchoesOf(j)') \in Nat
          /\ Cardinality(EchoesOf(j)') = IF k = j THEN Cardinality(EchoesOf(j)) - 1
                                                  ELSE Cardinality(EchoesOf(j))
      BY EchoGone
    <3>2. Cardinality(EchoesOf(j)) <= order.pending[j] /\ order.pending[j] \in Nat
      BY <1>3 DEF GateInv, EchoesArePending
    <3>3. order'.pending[j] = IF k = j THEN Less(order.pending[j], 1) ELSE order.pending[j]
      BY <1>1, <1>2, <1>3, <1>5
    <3>4. j \in order.superseded \cup order.stale => order.pending[j] > 0
      BY DEF GateInv, MarksArePending
    <3> QED
      BY <1>2, <1>5, <3>1, <3>2, <3>3, <3>4 DEF Less
  <2>2. order'.superseded \cup order'.stale \subseteq Key
    BY <1>2, <1>5 DEF Order
  <2> QED
    BY <2>1, <2>2 DEF EchoesArePending, MarksArePending
<1>7. MovedIsSilent'
  BY DEF GateInv, MovedIsSilent
<1>8. \A j \in Key : /\ Cardinality(CoveredOf(j)') \in Nat /\ Cardinality(CoveredOf(j)) \in Nat
                     /\ Cardinality(CoveredOf(j)')
                          = IF covered > 0 /\ k = j THEN Cardinality(CoveredOf(j)) - 1
                                                    ELSE Cardinality(CoveredOf(j))
                     /\ Cardinality(CoveredOf(j)) <= order.forgotten[j]
  BY EchoGone DEF GateInv, ForgottenAwaited
<1>9. covered = 0 => \A j \in Key : Cardinality(CoveredOf(j)') = 0
  <2>1. SUFFICES ASSUME covered = 0, NEW j \in Key PROVE Cardinality(CoveredOf(j)') = 0
    OBVIOUS
  <2>2. CoveredOf(j)' = {}
    BY <2>1 DEF CoveredOf, Less
  <2> QED
    BY <2>2, FS_EmptySet
<1>10. order.forgotten[k] = 0 => covered = 0
  <2>1. SUFFICES ASSUME order.forgotten[k] = 0, covered > 0 PROVE FALSE
    BY <1>3
  <2>2. 1 \in CoveredOf(k)
    BY <1>3, <2>1 DEF CoveredOf
  <2>3. Cardinality(CoveredOf(k)) = 0
    BY <1>1, <1>3, <1>8, <2>1
  <2>4. CoveredOf(k) \in SUBSET (1 .. covered) /\ covered \in Nat
    BY <1>3 DEF CoveredOf
  <2>5. IsFiniteSet(CoveredOf(k))
    BY <2>4, CountType
  <2>6. CoveredOf(k) = {}
    BY <2>3, <2>5, FS_EmptySet
  <2> QED
    BY <2>2, <2>6
<1>11. CASE /\ order.forgotten[k] > 0
            /\ order'.forgotten = [order.forgotten EXCEPT ![k] = @ - 1]
            /\ order'.casts = order.casts
  <2>1. RecordAligned'
    BY <1>11, AlignedWithoutEcho DEF GateInv
  <2>2. ForgottenAwaited'
    <3>1. ASSUME NEW j \in Key PROVE Cardinality(CoveredOf(j)') <= order'.forgotten[j]
      <4>1. order'.forgotten[j] = IF j = k THEN order.forgotten[j] - 1 ELSE order.forgotten[j]
        BY <1>3, <1>11
      <4>2. order.forgotten[j] \in Nat
        BY <1>3
      <4> QED
        BY <1>3, <1>8, <1>9, <1>11, <4>1, <4>2
    <3> QED
      BY <3>1 DEF ForgottenAwaited
  <2> QED
    BY <1>4, <1>6, <1>7, <1>11, <2>1, <2>2 DEF GateInv
<1>12. CASE order.forgotten[k] = 0 /\ \A i \in 1 .. Len(order.casts) : order.casts[i].key # k
  <2>1. covered = 0
    BY <1>10, <1>12
  <2>2. /\ Len(echoes) <= Len(order.casts)
        /\ order.casts[Len(order.casts) - Len(echoes) + 1].key = echoes[1].key
    BY <1>3, <2>1 DEF GateInv, RecordAligned
  <2>3. Len(order.casts) - Len(echoes) + 1 \in 1 .. Len(order.casts)
    BY <1>3, <2>2
  <2> QED
    BY <1>3, <1>12, <2>2, <2>3
<1>13. ASSUME NEW at \in 1 .. Len(order.casts),
              order.forgotten[k] = 0,
              FirstAt(order, k, at),
              order'.casts = SubSeq(order.casts, at + 1, Len(order.casts)),
              order'.forgotten = [j \in Key |-> 0]
       PROVE  GateInv'
  <2>1. covered = 0 /\ covered' = 0
    BY <1>10, <1>13 DEF Less
  <2>2. RecordAligned'
    BY <1>13, <2>1, AlignedAfterMatch DEF GateInv
  <2>3. ForgottenAwaited'
    BY <1>9, <1>13, <2>1 DEF ForgottenAwaited
  <2>4. Len(order'.casts) <= LocalCastsMax
    <3>1. /\ at + 1 \in Int /\ Len(order.casts) \in Int
          /\ \A i \in at + 1 .. Len(order.casts) : order.casts[i] \in Cast
      BY <1>3, ElementOfSeq
    <3>2. Len(order'.casts) = IF at + 1 <= Len(order.casts) THEN Len(order.casts) - (at + 1) + 1
                                                            ELSE 0
      BY <1>13, <3>1, SubSeqProperties
    <3> QED
      BY <1>3, <3>2, CapAssumption DEF GateInv
  <2> QED
    BY <1>4, <1>6, <1>7, <2>2, <2>3, <2>4 DEF GateInv
<1> QED
  <2>1. \/ /\ order.forgotten[k] > 0
           /\ order'.forgotten = [order.forgotten EXCEPT ![k] = @ - 1]
           /\ order'.casts = order.casts
        \/ /\ order.forgotten[k] = 0
           /\ \A i \in 1 .. Len(order.casts) : order.casts[i].key # k
        \/ \E at \in 1 .. Len(order.casts) :
              /\ order.forgotten[k] = 0
              /\ FirstAt(order, k, at)
              /\ order'.casts = SubSeq(order.casts, at + 1, Len(order.casts))
              /\ order'.forgotten = [j \in Key |-> 0]
    <3>1. MatchOutcome(a, k, order')
      BY <1>1, <1>2, MatchEchoFields
    <3> QED
      BY <1>2, <3>1 DEF MatchOutcome, FirstAt
  <2> QED
    BY <1>11, <1>12, <1>13, <2>1

LEMMA GatePreserved == TypeOK /\ GateInv /\ [Next]_vars => GateInv'
<1> SUFFICES ASSUME TypeOK, GateInv, [Next]_vars PROVE GateInv'
  OBVIOUS
<1>t. /\ order \in Order /\ echoes \in Seq(Echo) /\ moved \in BOOLEAN
      /\ order.pending \in [Key -> Nat] /\ order.forgotten \in [Key -> Nat]
      /\ order.casts \in Seq(Cast) /\ Len(order.casts) \in Nat
      /\ order.stale \in SUBSET Key /\ order.superseded \in SUBSET Key
      /\ Len(echoes) \in Nat /\ covered \in 0 .. Len(echoes)
  BY LenProperties DEF TypeOK, Order
<1>1. ASSUME NEW k \in Key, NEW remove \in BOOLEAN, ~moved, CastOne(k, remove) PROVE GateInv'
  BY <1>1, CastKeepsGate
<1>2. ASSUME NEW s \in 1 .. MaxSeq, EchoArrives(s) PROVE GateInv'
  <2> DEFINE m == Delivery(Head(echoes).key, Head(echoes).remove, Me, Head(echoes).seen, s)
  <2>1. m \in Delivered /\ m.src = Me /\ m.key = Head(echoes).key
    BY <1>2, <1>t, EchoesHead, DeliveryType DEF EchoArrives
  <2>2. /\ order' = Accepted(order, m, Me) /\ echoes # << >> /\ echoes' = Tail(echoes)
        /\ covered' = Less(covered, 1) /\ moved' = moved
    BY <1>2 DEF EchoArrives
  <2> HIDE DEF m
  <2> QED
    BY <2>1, <2>2, EchoKeepsGate
<1>3. CASE EchoLost
  <2>1. /\ order' = order /\ echoes # << >> /\ echoes' = Tail(echoes)
        /\ covered' = Less(covered, 1) /\ moved' = moved
    BY <1>3 DEF EchoLost
  <2>2. RecordAligned'
    BY <2>1, AlignedWithoutEcho DEF GateInv
  <2>3. ASSUME NEW k \in Key
        PROVE  /\ Cardinality(EchoesOf(k)') <= order'.pending[k]
               /\ Cardinality(CoveredOf(k)') <= order'.forgotten[k]
    <3>1. /\ Cardinality(EchoesOf(k)) \in Nat /\ Cardinality(CoveredOf(k)) \in Nat
          /\ Cardinality(EchoesOf(k)') <= Cardinality(EchoesOf(k))
          /\ Cardinality(CoveredOf(k)') <= Cardinality(CoveredOf(k))
          /\ Cardinality(EchoesOf(k)') \in Nat /\ Cardinality(CoveredOf(k)') \in Nat
      BY <2>1, EchoGone
    <3>2. /\ Cardinality(EchoesOf(k)) <= order.pending[k]
          /\ Cardinality(CoveredOf(k)) <= order.forgotten[k]
          /\ order.pending[k] \in Nat /\ order.forgotten[k] \in Nat
      BY <1>t DEF GateInv, EchoesArePending, ForgottenAwaited
    <3> QED
      BY <2>1, <3>1, <3>2
  <2> QED
    BY <2>1, <2>2, <2>3
       DEF GateInv, GateHolds, EchoesArePending, ForgottenAwaited, MarksArePending, MovedIsSilent
<1>4. ASSUME NEW k \in Key, NEW remove \in BOOLEAN, NEW s \in 1 .. MaxSeq,
             NEW seen \in {Unstamped} \cup (0 .. s - 1), PeerArrives(k, remove, seen, s)
      PROVE  GateInv'
  <2> DEFINE m == Delivery(k, remove, Peer, seen, s)
  <2>1. m \in Delivered /\ m.src # Me /\ m.key = k
    BY DeliveryType, LinkAssumption DEF Unstamped
  <2>2. order' = Accepted(order, m, Me) /\ UNCHANGED <<echoes, covered, moved>>
    BY <1>4 DEF PeerArrives
  <2> HIDE DEF m
  <2>3. /\ order'.pending = order.pending
        /\ order'.stale = order.stale
        /\ order'.pendingRemoves = order.pendingRemoves
        /\ order'.casts = order.casts
        /\ order'.forgotten = order.forgotten
        /\ \/ order'.superseded = order.superseded
           \/ order.pending[k] > 0 /\ order'.superseded = order.superseded \cup {k}
    BY <1>t, <2>1, <2>2, Judged DEF AcceptedOutcome
  <2>4. MarksArePending'
    BY <2>3 DEF GateInv, MarksArePending
  <2> QED
    BY <2>2, <2>3, <2>4
       DEF GateInv, GateHolds, RecordAligned, EchoesArePending, ForgottenAwaited, MovedIsSilent,
           EchoesOf, CoveredOf
<1>5. ASSUME NEW k \in Key, TtlLapses(k) PROVE GateInv'
  <2>1. /\ order'.stale = order.stale \cup {k}
        /\ order'.superseded = order.superseded
        /\ order'.pending = order.pending
        /\ order'.pendingRemoves = order.pendingRemoves
        /\ order'.casts = order.casts
        /\ order'.forgotten = order.forgotten
        /\ order.pending[k] > 0
        /\ UNCHANGED <<echoes, covered, moved>>
    BY <1>5, <1>t DEF TtlLapses, Lapse, Order
  <2>2. MarksArePending'
    BY <2>1 DEF GateInv, MarksArePending
  <2> QED
    BY <2>1, <2>2
       DEF GateInv, GateHolds, RecordAligned, EchoesArePending, ForgottenAwaited, MovedIsSilent,
           EchoesOf, CoveredOf
<1>6. ASSUME order' \in Order, Len(echoes') = 0, covered' = 0, echoes' = << >>,
             \/ order' = order
             \/ order'.casts = << >> /\ order'.pendingRemoves = [k \in Key |-> 0]
                /\ order'.stale = {} /\ order'.superseded = {}
      PROVE  GateInv'
  <2>1. /\ order'.pending \in [Key -> Nat] /\ order'.forgotten \in [Key -> Nat]
        /\ Len(order'.casts) \in Nat
    BY <1>6, LenProperties DEF Order
  <2>2. \A k \in Key : EchoesOf(k)' = {} /\ CoveredOf(k)' = {}
    BY <1>6, EmptySeq DEF EchoesOf, CoveredOf
  <2>3. \A k \in Key : Cardinality(EchoesOf(k)') = 0 /\ Cardinality(CoveredOf(k)') = 0
    BY <2>2, FS_EmptySet
  <2>4. RecordAligned' /\ EchoesArePending' /\ ForgottenAwaited' /\ MovedIsSilent'
    BY <1>6, <2>1, <2>3 DEF RecordAligned, EchoesArePending, ForgottenAwaited, MovedIsSilent
  <2>5. CASE order' = order
    BY <2>4, <2>5 DEF GateInv, GateHolds, MarksArePending
  <2>6. CASE order'.casts = << >> /\ order'.pendingRemoves = [k \in Key |-> 0]
             /\ order'.stale = {} /\ order'.superseded = {}
    <3>1. Len(order'.casts) = 0 /\ DOMAIN order'.casts = {}
      BY <2>6, EmptySeq
    <3>2. \A k \in Key : RemovesOf(order'.casts, k) = {}
      BY <3>1 DEF RemovesOf
    <3>3. \A k \in Key : Cardinality(RemovesOf(order'.casts, k)) = 0
      BY <3>2, FS_EmptySet
    <3> QED
      BY <2>4, <2>6, <3>1, <3>3, CapAssumption DEF GateInv, GateHolds, MarksArePending
  <2> QED
    BY <1>6, <2>5, <2>6
<1>7. ASSUME NEW restarted \in BOOLEAN, Reconnect(restarted) PROVE GateInv'
  <2>1. order' = order /\ echoes' = << >> /\ covered' = 0 /\ Len(echoes') = 0
    BY <1>7, EmptySeq DEF Reconnect
  <2> QED
    BY <1>6, <1>t, <2>1
<1>8. CASE IdLearned
  <2>1. echoes = << >>
    BY <1>8 DEF IdLearned, GateInv, MovedIsSilent
  <2>2. echoes' = << >> /\ Len(echoes') = 0
    BY <1>8, <2>1, EmptySeq DEF IdLearned
  <2>3. order' \in Order /\ covered' = 0
    BY <1>8, <1>t, NewOrderType DEF IdLearned
  <2>4. /\ order'.casts = << >> /\ order'.pendingRemoves = [k \in Key |-> 0]
        /\ order'.stale = {} /\ order'.superseded = {}
    BY <1>8, <1>t, NewOrderType DEF IdLearned
  <2> QED
    BY <1>6, <2>2, <2>3, <2>4
<1>9. CASE UNCHANGED vars
  BY <1>9 DEF vars, GateInv, GateHolds, RecordAligned, EchoesArePending, ForgottenAwaited,
              MarksArePending, MovedIsSilent, EchoesOf, CoveredOf
<1> QED
  BY <1>1, <1>2, <1>3, <1>4, <1>5, <1>7, <1>8, <1>9 DEF Next, LocalEdit, LocalRemove

\* A remove in flight that the record still covers is on the record, so its gate is shut.
LEMMA GateInvShuts == TypeOK /\ GateInv => GateShutWhileUnacked
<1> SUFFICES ASSUME TypeOK, GateInv, NEW i \in covered + 1 .. Len(echoes), echoes[i].remove
             PROVE  HasPendingRemove(order, echoes[i].key)
  BY DEF GateShutWhileUnacked
<1> DEFINE len == Len(order.casts)
           at  == len - Len(echoes) + i
           k   == echoes[i].key
<1>1. /\ order.casts \in Seq(Cast) /\ len \in Nat /\ Len(echoes) \in Nat
      /\ covered \in 0 .. Len(echoes) /\ DOMAIN order.casts = 1 .. len
      /\ order.pendingRemoves \in [Key -> Nat]
  BY LenProperties DEF TypeOK, Order
<1>2. k \in Key
  <2>1. i \in 1 .. Len(echoes)
    BY <1>1
  <2>2. echoes[i] \in Echo
    BY <2>1, ElementOfSeq DEF TypeOK
  <2> QED
    BY <2>2 DEF Echo
<1>3. /\ Len(echoes) - covered <= len
      /\ order.casts[len - Len(echoes) + covered + (i - covered)].key = echoes[covered + (i - covered)].key
      /\ order.casts[len - Len(echoes) + covered + (i - covered)].remove
           = echoes[covered + (i - covered)].remove
  <2>1. i - covered \in 1 .. Len(echoes) - covered
    BY <1>1
  <2> QED
    BY <2>1 DEF GateInv, RecordAligned
<1> HIDE DEF len
<1>4. /\ len - Len(echoes) + covered + (i - covered) = at /\ covered + (i - covered) = i
      /\ at \in 1 .. len
  BY <1>1, <1>3
<1>5. order.casts[at].key = k /\ order.casts[at].remove
  BY <1>3, <1>4
<1>6. at \in RemovesOf(order.casts, k)
  BY <1>1, <1>4, <1>5 DEF RemovesOf
<1>7. IsFiniteSet(RemovesOf(order.casts, k)) /\ Cardinality(RemovesOf(order.casts, k)) \in Nat
  <2>1. RemovesOf(order.casts, k) \in SUBSET (1 .. len)
    BY <1>1 DEF RemovesOf
  <2> QED
    BY <1>1, <2>1, CountType
<1>8. Cardinality(RemovesOf(order.casts, k)) # 0
  BY <1>6, <1>7, FS_EmptySet
<1> QED
  BY <1>2, <1>7, <1>8 DEF GateInv, GateHolds, HasPendingRemove

\* While one of our removes is in flight and the capped record has not forgotten it, the
\* re-creation gate of its key is shut, for any caps, keys and losses: no re-creation is
\* ever stamped with a `seen` below the remove.
THEOREM GateIsShut == Spec => []GateShutWhileUnacked
<1>1. Spec => []TypeOK
  BY TypeCorrect
<1>2. Init => GateInv
  BY GateInit
<1>3. TypeOK /\ GateInv /\ [Next]_vars => GateInv'
  BY GatePreserved
<1>4. TypeOK /\ GateInv => GateShutWhileUnacked
  BY GateInvShuts
<1> QED
  BY <1>1, <1>2, <1>3, <1>4, PTL DEF Spec

\* The bookkeeping behind it: gates match the record, the record is aligned with the
\* echoes still due, an echo of a forgotten cast is waited for, every echo finds its
\* pending entry and only pending keys are marked.
THEOREM BookkeepingHolds == Spec => []Bookkeeping
<1>1. Spec => []TypeOK
  BY TypeCorrect
<1>2. Init => GateInv
  BY GateInit
<1>3. TypeOK /\ GateInv /\ [Next]_vars => GateInv'
  BY GatePreserved
<1>4. GateInv => Bookkeeping
  BY DEF GateInv, GateHolds, GateMatchesRecord, Bookkeeping
<1> QED
  BY <1>1, <1>2, <1>3, <1>4, PTL DEF Spec
===============================================================================
