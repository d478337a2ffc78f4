-------------------------- MODULE DeliveryQueueProofs --------------------------
(* The delivery queue, for any messages, capacity and number of enqueues, flushes and
   exits: where a message can be, what the file holds, and what its sender is told.  *)
EXTENDS DeliveryQueue, IndexLemmas

-------------------------------------------------------------------------------
(* The inductive invariant.                                                    *)

\* Fates of a message the queue has never taken.
Untaken == {"new", "asking", "unanswered", "full"}

\* An entry of this list object is as it should be.
ListedRight(l, m) == /\ fate[m] \in Promised
                     /\ m \notin delivering \cup reporting \cup ToSet(lapsed)
                     /\ m \in armed \/ fate[m] = "dropped"
                     /\ l # here => fate[m] = "dropped"
                     /\ m \in restored => m \notin Board

\* List objects share no entry, and only dropped messages are on one the map has let go of.
ListsRight ==
    /\ \A l \in ListId : IsInjective(lists[l])
    /\ \A k, l \in ListId : \A m \in ToSet(lists[k]) : m \in ToSet(lists[l]) => k = l
    /\ \A l \in ListId : \A m \in ToSet(lists[l]) : ListedRight(l, m)

\* Whatever was taken off the list is in one delivery or one report.
TakenRight ==
    /\ \A m \in delivering : /\ fate[m] \in Promised
                             /\ m \notin reporting \cup ToSet(lapsed)
                             /\ m \in restored => m \notin Board
    /\ \A m \in reporting : fate[m] \in Promised /\ m \notin ToSet(lapsed)
    /\ \A m \in ToSet(lapsed) : fate[m] \in Promised
    /\ IsInjective(lapsed)

\* Enqueues under way are counted, so that a list object is always free.
AskingRight ==
    /\ IsFiniteSet(Asking)
    /\ Cardinality(Asking) <= MaxEnqueuing
    /\ \A m \in Msg : enqueuing[m] # NoList <=> fate[m] = "asking"
    /\ \A m \in restored : fate[m] \notin Untaken

\* A dead process has nothing but the disk.
DownRight ==
    ~up => /\ lists = [l \in ListId |-> << >>] /\ here = NoList
           /\ delivering = {} /\ reporting = {} /\ lapsed = << >>
           /\ \A m \in Msg : enqueuing[m] = NoList

\* Snapshots are of messages the queue has taken, each once.
SnapshotRight(s) == IsInjective(s) /\ \A m \in ToSet(s) : fate[m] \notin Untaken

FileRight ==
    /\ \A s \in file.pending \cup file.writing \cup {file.disk} : SnapshotRight(s)
    /\ \A s, t \in file.pending : s = t
    /\ \A s, t \in file.writing : s = t
    /\ up /\ lapsed = << >> =>
           /\ file.pending # {} => Waiting \in file.pending
           /\ file.pending = {} /\ file.writing # {} => Waiting \in file.writing
           /\ Settled(file) /\ ~file.failed => file.disk = Waiting

QueueInv == TypeOK /\ ListsRight /\ TakenRight /\ AskingRight /\ DownRight /\ FileRight

\* With one flush at a time: what is on the list and was never dropped is in the order of
\* arrival, and behind what is being delivered.
Kept(m) == fate[m] # "dropped"

Before(m, n) == \A a, b \in DOMAIN arrived : arrived[a] = m /\ arrived[b] = n => a < b

OrderRight ==
    /\ IsInjective(arrived)
    /\ \A m \in ToSet(arrived) : fate[m] \notin Untaken
    /\ \A m, n \in delivering : m = n
    /\ \A i, j \in DOMAIN Waiting :
           i < j /\ Kept(Waiting[i]) /\ Kept(Waiting[j]) => Before(Waiting[i], Waiting[j])
    /\ \A m \in delivering : \A n \in ToSet(Waiting) : Kept(m) /\ Kept(n) => Before(m, n)

-------------------------------------------------------------------------------
(* The list the map holds.                                                     *)

LEMMA WaitingIs ==
    ASSUME QueueInv
    PROVE  /\ Waiting \in Seq(Msg) /\ IsInjective(Waiting)
           /\ DOMAIN Waiting = 1 .. Len(Waiting) /\ Len(Waiting) \in Nat
           /\ \A m \in ToSet(Waiting) : m \in Msg /\ here \in ListId /\ m \in ToSet(lists[here])
           /\ here \in ListId => Waiting = lists[here]
           /\ here = NoList => Waiting = << >>
<1>1. NoList \notin ListId
  BY DEF NoList, ListId
<1>2. << >> \in Seq(Msg) /\ IsInjective(<< >>) /\ ToSet(<< >>) = {}
  BY DEF IsInjective, ToSet
<1>3. CASE here = NoList
  BY <1>1, <1>2, <1>3, LenProperties DEF Waiting
<1>4. CASE here \in ListId
  <2>1. Waiting = lists[here] /\ lists[here] \in Seq(Msg) /\ IsInjective(lists[here])
    BY <1>1, <1>4 DEF Waiting, QueueInv, TypeOK, ListsRight
  <2>2. \A m \in ToSet(Waiting) : m \in Msg
    BY <2>1 DEF ToSet
  <2> QED
    BY <1>1, <1>4, <2>1, <2>2, LenProperties
<1> QED
  BY <1>3, <1>4 DEF QueueInv, TypeOK

\* Entries of the map's list are not elsewhere, and have their timers.
LEMMA WaitingRight ==
    ASSUME QueueInv, NEW m \in ToSet(Waiting)
    PROVE  /\ m \in Msg /\ fate[m] \in Promised
           /\ m \notin delivering \cup reporting \cup ToSet(lapsed)
           /\ m \in armed \/ fate[m] = "dropped"
           /\ m \in restored => m \notin Board
  BY WaitingIs DEF QueueInv, ListsRight, ListedRight

LEMMA UnlistIs ==
    ASSUME NEW q \in Seq(Msg), IsInjective(q), NEW m \in ToSet(q)
    PROVE  /\ Unlist(q, m) \in Seq(Msg) /\ InOrder(Unlist(q, m), q)
           /\ IsInjective(Unlist(q, m)) /\ ToSet(Unlist(q, m)) = ToSet(q) \ {m}
<1> DEFINE i == CHOOSE i \in DOMAIN q : q[i] = m
<1>1. i \in DOMAIN q /\ q[i] = m
  BY DEF ToSet
<1> HIDE DEF i
<1>2. /\ RemoveAt(q, i) \in Seq(Msg) /\ InOrder(RemoveAt(q, i), q)
      /\ ToSet(RemoveAt(q, i)) = ToSet(q) \ {q[i]}
  BY <1>1, RemoveList
<1>3. IsInjective(RemoveAt(q, i))
  BY <1>2, InOrderIsSub
<1> QED
  BY <1>1, <1>2, <1>3 DEF Unlist, i

LEMMA GoneFirstIs ==
    ASSUME NEW q \in Seq(Msg)
    PROVE  GoneFirst(q) \in 0 .. Len(q)
<1> DEFINE stays == {i \in DOMAIN q : Verdict(q[i]) # "gone"}
<1>1. Len(q) \in Nat /\ DOMAIN q = 1 .. Len(q)
  BY LenProperties
<1>2. CASE stays = {}
  BY <1>1, <1>2 DEF GoneFirst
<1>3. CASE stays # {}
  <2>1. stays \in SUBSET (1 .. Len(q))
    BY <1>1
  <2> HIDE DEF stays
  <2>2. PICK n \in stays : \A j \in stays : n <= j
    BY <1>1, <1>3, <2>1, LeastIndex
  <2>3. n - 1 \in 0 .. Len(q) /\ (n - 1) + 1 \in stays /\ \A j \in stays : n - 1 < j
    BY <1>1, <2>1, <2>2
  <2>4. \E i \in 0 .. Len(q) : i + 1 \in stays /\ \A j \in stays : i < j
    BY <2>3
  <2>5. (CHOOSE i \in 0 .. Len(q) : i + 1 \in stays /\ \A j \in stays : i < j) \in 0 .. Len(q)
    BY <2>4
  <2> QED
    BY <1>3, <2>5 DEF GoneFirst, stays
<1> QED
  BY <1>2, <1>3

-------------------------------------------------------------------------------
(* One turn of the flush: the entries in `refused` end, at most one is claimed, and the
   list is what is behind them.                                                *)

Turn(refused, claim, told) ==
    /\ refused \cap claim = {} /\ refused \cup claim \subseteq ToSet(Waiting)
    /\ \A m, n \in claim : m = n
    /\ \A m \in claim : Verdict(m) = "deliver"
    /\ \A m \in claim : \E j \in DOMAIN Waiting :
           /\ Waiting[j] = m
           /\ \A i \in DOMAIN Waiting' : \E k \in DOMAIN Waiting : j < k /\ Waiting'[i] = Waiting[k]
    /\ Waiting' \in Seq(Msg) /\ InOrder(Waiting', Waiting)
    /\ ToSet(Waiting') = ToSet(Waiting) \ (refused \cup claim)
    /\ lists' = IF here = NoList THEN lists ELSE [lists EXCEPT ![here] = Waiting']
    /\ here' \in {here, NoList}
    /\ delivering' = (delivering \ DOMAIN told) \cup claim
    /\ armed' = armed \ (claim \cup refused)
    /\ fate' = [m \in Msg |-> IF m \in DOMAIN told THEN told[m]
                              ELSE IF m \in refused THEN "refused" ELSE fate[m]]
    /\ file' = Save(file, Waiting')

\* The map's list becomes q: that is what is waiting afterwards.
LEMMA HoldsNowIs ==
    ASSUME QueueInv, NEW q \in Seq(Msg), NEW drop \in BOOLEAN, HoldsNow(q, drop),
           here = NoList => q = << >>
    PROVE  /\ Waiting' = q
           /\ lists' = IF here = NoList THEN lists ELSE [lists EXCEPT ![here] = q]
           /\ here' \in {here, NoList}
<1>1. NoList \notin ListId /\ here \in ListId \cup {NoList} /\ lists \in [ListId -> Seq(Msg)]
  BY DEF NoList, ListId, QueueInv, TypeOK
<1>2. CASE here = NoList
  BY <1>1, <1>2 DEF HoldsNow, Waiting
<1>3. CASE here # NoList
  <2>1. lists' = [lists EXCEPT ![here] = q] /\ lists'[here] = q
    BY <1>1, <1>3 DEF HoldsNow
  <2>2. here' = IF q = << >> /\ drop THEN NoList ELSE here
    BY DEF HoldsNow
  <2> QED
    BY <1>1, <1>3, <2>1, <2>2 DEF Waiting
<1> QED
  BY <1>2, <1>3

LEMMA LoopTurnIs ==
    ASSUME QueueInv, NEW told, NEW drop \in BOOLEAN, LoopTurn(Waiting, told, drop)
    PROVE  \E refused, claim \in SUBSET Msg : Turn(refused, claim, told)
<1> DEFINE q     == Waiting
           gone  == GoneFirst(q)
           rest  == SubSeq(q, gone + 1, Len(q))
           claim == IF rest # << >> /\ Verdict(Head(rest)) = "deliver" THEN {Head(rest)} ELSE {}
           left  == IF claim = {} THEN rest ELSE Tail(rest)
           ended == Firsts(q, gone)
<1>1. /\ q \in Seq(Msg) /\ IsInjective(q) /\ DOMAIN q = 1 .. Len(q) /\ Len(q) \in Nat
      /\ here = NoList => q = << >>
  BY WaitingIs
<1>2. gone \in 0 .. Len(q)
  BY <1>1, GoneFirstIs
<1>3. \A i \in DOMAIN q : q[i] \in Msg
  BY <1>1, ElementOfSeq
<1>4. /\ HoldsNow(left, claim = {} /\ (drop \/ gone > 0))
      /\ delivering' = (delivering \ DOMAIN told) \cup claim
      /\ armed' = armed \ (claim \cup ended)
      /\ fate' = [m \in Msg |-> IF m \in DOMAIN told THEN told[m]
                                ELSE IF \E i \in 1 .. gone : q[i] = m THEN "refused" ELSE fate[m]]
      /\ file' = Save(file, left)
  BY DEF LoopTurn, Persist, Firsts
<1> HIDE DEF q, gone
<1>5. /\ rest \in Seq(Msg) /\ InOrder(rest, q) /\ ToSet(rest) = ToSet(q) \ ended
  BY <1>1, <1>2, RestList
<1>6. /\ claim # {} => rest # << >> /\ claim = {Head(rest)} /\ left = Tail(rest)
      /\ claim = {} => left = rest
      /\ \A m \in claim : Verdict(m) = "deliver"
      /\ \A m, n \in claim : m = n
  <2> HIDE DEF rest
  <2> QED
    OBVIOUS
<1>7. rest # << >> => /\ gone + 1 \in DOMAIN q /\ gone + 1 \in 0 .. Len(q)
                      /\ Head(rest) = q[gone + 1]
                      /\ Tail(rest) = SubSeq(q, (gone + 1) + 1, Len(q))
  BY <1>1, <1>2, RestHead
<1> HIDE DEF rest, claim, left
<1>8. ended \subseteq ToSet(q)
  BY <1>1, <1>2 DEF ToSet, Firsts
<1>9. /\ left \in Seq(Msg) /\ InOrder(left, q) /\ ToSet(left) = ToSet(q) \ (ended \cup claim)
      /\ claim \subseteq ToSet(q) \ ended
      /\ \A m \in claim : \E j \in DOMAIN q : /\ q[j] = m
            /\ \A i \in DOMAIN left : \E k \in DOMAIN q : j < k /\ left[i] = q[k]
  <2>1. CASE claim = {}
    BY <1>5, <1>6, <2>1
  <2>2. CASE claim # {}
    <3> DEFINE c == gone + 1
    <3>1. /\ c \in DOMAIN q /\ c \in 0 .. Len(q) /\ claim = {q[c]}
          /\ left = SubSeq(q, c + 1, Len(q))
      BY <1>6, <1>7, <2>2
    <3>2. \A i \in 1 .. gone : i \in 1 .. c /\ i # c
      BY <1>1, <1>2
    <3>3. \A i \in 1 .. c : i \in 1 .. gone \/ i = c
      BY <1>1, <1>2
    <3>4. c \in 1 .. c
      BY <1>1, <1>2
    <3>5. Firsts(q, c) = ended \cup claim
      <4> HIDE DEF c
      <4> QED
        BY <3>1, <3>2, <3>3, <3>4 DEF Firsts
    <3> HIDE DEF c, ended
    <3>6. /\ left \in Seq(Msg) /\ DOMAIN left = 1 .. Len(q) - c
          /\ \A i \in 1 .. Len(q) - c : left[i] = q[c + i]
          /\ InOrder(left, q) /\ ToSet(left) = ToSet(q) \ Firsts(q, c)
      BY <1>1, <3>1, RestList
    <3>7. q[c] \in ToSet(q) \ ended
      <4>1. \A i \in 1 .. gone : i \in DOMAIN q /\ i # c
        BY <1>1, <1>2, <3>2
      <4>2. \A i \in 1 .. gone : q[i] # q[c]
        BY <1>1, <3>1, <4>1 DEF IsInjective
      <4> QED
        BY <3>1, <4>2 DEF ToSet, ended, Firsts
    <3>8. c \in Int /\ \A i \in DOMAIN left : c + i \in DOMAIN q /\ c < c + i
      BY <1>1, <3>1, <3>6
    <3>9. \A i \in DOMAIN left : \E k \in DOMAIN q : c < k /\ left[i] = q[k]
      BY <3>6, <3>8
    <3> QED
      BY <3>1, <3>5, <3>6, <3>7, <3>9
  <2> QED
    BY <2>1, <2>2
<1>10. \A m : (\E i \in 1 .. gone : q[i] = m) <=> m \in ended
  BY DEF Firsts
<1> HIDE DEF ended
<1>11. here = NoList => left = << >>
  <2>1. q = << >> => ToSet(q) = {}
    BY DEF ToSet
  <2>2. q = << >> => ToSet(left) = {}
    BY <1>9, <2>1
  <2>3. ToSet(left) = {} => left = << >>
    <3>1. left # << >> => 1 \in DOMAIN left
      BY <1>9, LenProperties, EmptySeq
    <3> QED
      BY <3>1 DEF ToSet
  <2> QED
    BY <1>1, <2>2, <2>3
<1>12. /\ Waiting' = left
       /\ lists' = IF here = NoList THEN lists ELSE [lists EXCEPT ![here] = left]
       /\ here' \in {here, NoList}
  <2>1. (claim = {} /\ (drop \/ gone > 0)) \in BOOLEAN
    OBVIOUS
  <2> QED
    BY <1>4, <1>9, <1>11, <2>1, HoldsNowIs
<1>13. fate' = [m \in Msg |-> IF m \in DOMAIN told THEN told[m]
                             ELSE IF m \in ended THEN "refused" ELSE fate[m]]
  BY <1>4, <1>10
<1>14. Turn(ended, claim, told)
  BY <1>4, <1>6, <1>8, <1>9, <1>12, <1>13 DEF Turn, q
<1>15. ended \in SUBSET Msg /\ claim \in SUBSET Msg
  BY <1>1, <1>3, <1>8, <1>9 DEF ToSet
<1> QED
  BY <1>14, <1>15

-------------------------------------------------------------------------------
(* The file.                                                                   *)

\* No message goes back to a fate from before the queue took it.
FatesGoOn == \A m \in Msg : fate[m] \notin Untaken => fate'[m] \notin Untaken

\* The list is saved.
LEMMA SavedRight ==
    ASSUME QueueInv, FatesGoOn, file' = Save(file, Waiting'),
           Waiting' \in Seq(Msg), IsInjective(Waiting'),
           \A m \in ToSet(Waiting') : fate'[m] \notin Untaken
    PROVE  FileRight' /\ file' \in FactFile(Msg)
<1> PICK w \in Seq(Msg) : w = Waiting'
  OBVIOUS
<1>0. w \in Seq(Msg) /\ IsInjective(w) /\ \A m \in ToSet(w) : fate'[m] \notin Untaken
  OBVIOUS
<1>1. file \in FactFile(Msg)
  BY DEF QueueInv, TypeOK
<1>2. /\ file'.pending = {w} /\ file'.disk = file.disk /\ file'.writing = file.writing
      /\ file' \in FactFile(Msg)
  BY <1>1, SaveIs
<1>3. \A s \in file.writing \cup {file.disk} : SnapshotRight(s)' /\ s \in Seq(Msg)
  <2>1. \A s \in file.writing \cup {file.disk} : SnapshotRight(s) /\ s \in Seq(Msg)
    BY <1>1 DEF QueueInv, FileRight, FactFile
  <2>2. \A s \in Seq(Msg) : ToSet(s) \subseteq Msg
    BY LenProperties DEF ToSet
  <2> QED
    BY <2>1, <2>2 DEF SnapshotRight, FatesGoOn
<1>4. SnapshotRight(w)'
  BY <1>0 DEF SnapshotRight
<1>5. \A s, t \in file'.writing : s = t
  BY <1>2 DEF QueueInv, FileRight
<1> QED
  BY <1>2, <1>3, <1>4, <1>5 DEF FileRight, Settled

\* The file is left alone, and so is the list, unless the file need not follow it.
LEMMA FileSameRight ==
    ASSUME QueueInv, FatesGoOn, file' = file,
           up' /\ lapsed' = << >> => up /\ lapsed = << >> /\ Waiting' = Waiting
    PROVE  FileRight' /\ file' \in FactFile(Msg)
<1>1. file \in FactFile(Msg)
  BY DEF QueueInv, TypeOK
<1>2. \A s \in file.pending \cup file.writing \cup {file.disk} : SnapshotRight(s)'
  <2>1. \A s \in file.pending \cup file.writing \cup {file.disk} :
            SnapshotRight(s) /\ s \in Seq(Msg)
    BY <1>1 DEF QueueInv, FileRight, FactFile
  <2>2. \A s \in Seq(Msg) : ToSet(s) \subseteq Msg
    BY LenProperties DEF ToSet
  <2> QED
    BY <2>1, <2>2 DEF SnapshotRight, FatesGoOn
<1> QED
  BY <1>1, <1>2 DEF FileRight, QueueInv, Settled

-------------------------------------------------------------------------------
(* What a turn of the flush keeps.  `told` are the deliveries it ends.         *)

LEMMA TurnKeeps ==
    ASSUME QueueInv, up, NEW D \in SUBSET delivering, NEW told \in [D -> Ends],
           NEW refused \in SUBSET Msg, NEW claim \in SUBSET Msg, Turn(refused, claim, told),
           UNCHANGED <<up, enqueuing, reporting, lapsed, restored, bound, session, arrived,
                       exits>>,
           nudge' \in BOOLEAN, typed' \in [Msg -> Nat]
    PROVE  QueueInv'
<1>1. /\ refused \cap claim = {} /\ refused \cup claim \subseteq ToSet(Waiting)
      /\ Waiting' \in Seq(Msg) /\ InOrder(Waiting', Waiting)
      /\ ToSet(Waiting') = ToSet(Waiting) \ (refused \cup claim)
      /\ lists' = IF here = NoList THEN lists ELSE [lists EXCEPT ![here] = Waiting']
      /\ here' \in {here, NoList}
      /\ delivering' = (delivering \ D) \cup claim
      /\ armed' = armed \ (claim \cup refused)
      /\ fate' = [m \in Msg |-> IF m \in D THEN told[m]
                                ELSE IF m \in refused THEN "refused" ELSE fate[m]]
      /\ file' = Save(file, Waiting')
  BY DEF Turn
<1>2. TypeOK
  BY DEF QueueInv
<1>3. /\ Waiting \in Seq(Msg) /\ IsInjective(Waiting)
      /\ here \in ListId => Waiting = lists[here]
      /\ here = NoList => Waiting = << >>
      /\ NoList \notin ListId
  BY WaitingIs DEF NoList, ListId
<1>4. IsInjective(Waiting')
  BY <1>1, <1>3, InOrderIsSub
<1>5. \A m \in ToSet(Waiting) : /\ m \in Msg /\ fate[m] \in Promised
                                /\ m \notin delivering \cup reporting \cup ToSet(lapsed)
                                /\ m \in restored => m \notin Board
  BY WaitingRight
<1>6. \A m \in Msg : m \notin D \cup refused => fate'[m] = fate[m]
  BY <1>1
<1>7. /\ \A m \in D \cup refused : m \in Msg /\ fate[m] \in Promised /\ fate'[m] \in Ends
      /\ fate' \in [Msg -> Fate]
  <2>1. \A m \in D : m \in Msg /\ fate[m] \in Promised
    BY <1>2 DEF QueueInv, TakenRight, TypeOK
  <2>2. \A m \in refused : fate[m] \in Promised
    BY <1>1, <1>5
  <2> QED
    BY <1>1, <1>2, <2>1, <2>2 DEF TypeOK, Fate, Ends
<1>8. FatesGoOn /\ \A m \in Msg : fate'[m] = "asking" <=> fate[m] = "asking"
  BY <1>6, <1>7 DEF FatesGoOn, Untaken, Ends, Promised
<1>9. FileRight' /\ file' \in FactFile(Msg)
  <2>1. \A m \in ToSet(Waiting') : fate'[m] \notin Untaken
    BY <1>1, <1>5, <1>8 DEF FatesGoOn, Promised, Untaken
  <2> QED
    BY <1>1, <1>4, <1>8, <2>1, SavedRight
<1>10. /\ \A l \in ListId : lists'[l] \in Seq(Msg) /\ IsInjective(lists'[l])
       /\ \A l \in ListId : \A m \in ToSet(lists'[l]) :
              /\ m \in Msg /\ m \in ToSet(lists[l]) /\ m \notin refused \cup claim
              /\ l = here => here' = here
  <2>1. \A l \in ListId : lists[l] \in Seq(Msg) /\ IsInjective(lists[l])
    BY <1>2 DEF TypeOK, QueueInv, ListsRight
  <2>2. \A l \in ListId : \A m \in ToSet(lists[l]) : m \in Msg
    BY <2>1, LenProperties DEF ToSet
  <2>3. ASSUME NEW l \in ListId, l # here, NEW m \in ToSet(lists[l])
        PROVE  m \notin ToSet(Waiting)
    <3>1. CASE here = NoList
      BY <1>3, <3>1 DEF ToSet
    <3>2. CASE here \in ListId
      BY <1>3, <2>3, <3>2 DEF QueueInv, ListsRight
    <3> QED
      BY <1>2, <3>1, <3>2 DEF TypeOK
  <2>4. here \in ListId => lists'[here] = Waiting'
    BY <1>1, <1>2, <1>3 DEF TypeOK
  <2>5. \A l \in ListId : l # here => lists'[l] = lists[l]
    BY <1>1, <1>2 DEF TypeOK
  <2>6. here' = NoList => ToSet(Waiting') = {}
    BY DEF Waiting, ToSet
  <2>7. ASSUME NEW l \in ListId, NEW m \in ToSet(lists'[l])
        PROVE  /\ m \in Msg /\ m \in ToSet(lists[l]) /\ m \notin refused \cup claim
               /\ l = here => here' = here
    <3>1. CASE l = here
      BY <1>1, <1>3, <2>2, <2>4, <2>6, <2>7, <3>1
    <3>2. CASE l # here
      BY <1>1, <2>2, <2>3, <2>5, <2>7, <3>2
    <3> QED
      BY <3>1, <3>2
  <2>8. \A l \in ListId : lists'[l] \in Seq(Msg) /\ IsInjective(lists'[l])
    BY <1>1, <1>3, <1>4, <2>1, <2>4, <2>5
  <2> QED
    BY <2>7, <2>8
<1>11. TypeOK'
  <2>1. lists' \in [ListId -> Seq(Msg)]
    BY <1>1, <1>2 DEF TypeOK
  <2> QED
    BY <1>1, <1>2, <1>7, <1>9, <2>1 DEF TypeOK
<1>12. ListsRight'
  <2>1. ASSUME NEW l \in ListId, NEW m \in ToSet(lists'[l]) PROVE ListedRight(l, m)'
    <3>1. /\ m \in Msg /\ m \in ToSet(lists[l]) /\ m \notin refused \cup claim
          /\ l = here => here' = here
      BY <1>10
    <3>2. ListedRight(l, m)
      BY <3>1 DEF QueueInv, ListsRight
    <3>3. fate'[m] = fate[m]
      BY <1>6, <3>1, <3>2 DEF ListedRight
    <3> QED
      BY <1>1, <1>2, <3>1, <3>2, <3>3 DEF ListedRight
  <2>2. \A k, l \in ListId : \A m \in ToSet(lists'[k]) : m \in ToSet(lists'[l]) => k = l
    BY <1>10 DEF QueueInv, ListsRight
  <2> QED
    BY <1>10, <2>1, <2>2 DEF ListsRight
<1>13. TakenRight'
  <2>1. \A m \in delivering \cup reporting \cup ToSet(lapsed) : m \in Msg
    BY <1>2, LenProperties DEF TypeOK, ToSet
  <2>2. TakenRight
    BY DEF QueueInv
  <2>3. \A m \in delivering \ D : m \in Msg /\ fate'[m] = fate[m]
    BY <1>1, <1>5, <1>6, <2>1
  <2>4. \A m \in claim : fate'[m] = fate[m]
    BY <1>1, <1>5, <1>6
  <2>5. \A m \in reporting \cup ToSet(lapsed) : fate'[m] = fate[m]
    BY <1>1, <1>5, <1>6, <2>1, <2>2 DEF TakenRight
  <2> QED
    BY <1>1, <1>5, <2>2, <2>3, <2>4, <2>5 DEF TakenRight
<1>14. AskingRight'
  <2>1. Asking' = Asking
    BY DEF Asking
  <2>2. \A m \in restored : m \in Msg
    BY <1>2 DEF TypeOK
  <2> QED
    BY <1>8, <2>1, <2>2 DEF AskingRight, QueueInv, FatesGoOn
<1>15. DownRight'
  BY DEF DownRight
<1> QED
  BY <1>9, <1>11, <1>12, <1>13, <1>14, <1>15 DEF QueueInv

-------------------------------------------------------------------------------
(* enqueue.                                                                    *)

\* There are more list objects than enqueues, so that one is free.
LEMMA FreshIs ==
    ASSUME QueueInv, here = NoList
    PROVE  Fresh \in ListId /\ \A m \in Asking : enqueuing[m] # Fresh
<1> DEFINE free(l) == l # here /\ \A m \in Asking : enqueuing[m] # l
<1>1. NoList \notin ListId
  BY DEF NoList, ListId
<1>2. ASSUME \A l \in ListId : \E m \in Asking : enqueuing[m] = l PROVE FALSE
  <2> DEFINE g == [l \in ListId |-> CHOOSE m \in Asking : enqueuing[m] = l]
  <2>1. \A l \in ListId : g[l] \in Asking /\ enqueuing[g[l]] = l
    BY <1>2
  <2>2. g \in [ListId -> Asking]
    <3>1. \A l \in ListId : (CHOOSE m \in Asking : enqueuing[m] = l) \in Asking
      BY <1>2
    <3> QED
      BY <3>1
  <2> HIDE DEF g
  <2>3. \A k, l \in ListId : g[k] = g[l] => k = l
    BY <2>1
  <2>4. g \in Injection(ListId, Asking)
    BY <2>2, <2>3 DEF Injection, IsInjective
  <2>5. IsFiniteSet(Asking) /\ Cardinality(Asking) <= MaxEnqueuing
    BY DEF QueueInv, AskingRight
  <2>6. Cardinality(ListId) <= Cardinality(Asking)
    BY <2>4, <2>5, FS_Injection
  <2>7. Cardinality(ListId) = MaxEnqueuing + 1 /\ Cardinality(Asking) \in Nat
    BY <2>5, QueueAssumption, FS_Interval, FS_CardinalityType DEF ListId
  <2> QED
    BY <2>5, <2>6, <2>7, QueueAssumption
<1>3. \E l \in ListId : free(l)
  BY <1>1, <1>2
<1>4. Fresh \in ListId /\ free(Fresh)
  BY <1>3 DEF Fresh
<1> QED
  BY <1>4

LEMMA EnqueueAsksKeeps ==
    ASSUME QueueInv, NEW m \in Msg, EnqueueAsks(m)
    PROVE  QueueInv'
<1>1. /\ up /\ fate[m] = "new" /\ Cardinality(Asking) < MaxEnqueuing
      /\ UNCHANGED <<up, here, armed, delivering, reporting, lapsed, restored, bound, session,
                     nudge, file, typed, arrived, exits>>
  BY DEF EnqueueAsks
<1>2. TypeOK /\ NoList \notin ListId
  BY DEF QueueInv, NoList, ListId
<1>3. PICK f \in {"full", "asking"}, l \in ListId \cup {NoList} :
          /\ fate' = [fate EXCEPT ![m] = f]
          /\ f = "asking" <=> l # NoList
          /\ enqueuing' = [enqueuing EXCEPT ![m] = l]
          /\ lists' = lists \/ (here = NoList /\ l \in ListId /\ lists' = [lists EXCEPT ![l] = << >>])
  <2>1. CASE Len(Waiting) >= Capacity
    <3>1. enqueuing' = enqueuing /\ enqueuing[m] = NoList
      BY <1>1, <1>2, <2>1 DEF EnqueueAsks, QueueInv, AskingRight
    <3>2. enqueuing' = [enqueuing EXCEPT ![m] = NoList]
      BY <1>2, <3>1 DEF TypeOK
    <3> QED
      BY <2>1, <3>2 DEF EnqueueAsks
  <2>2. CASE ~(Len(Waiting) >= Capacity)
    <3>1. CASE here = NoList
      <4>1. Fresh \in ListId
        BY <3>1, FreshIs
      <4> QED
        BY <1>2, <2>2, <3>1, <4>1 DEF EnqueueAsks
    <3>2. CASE here \in ListId
      BY <1>2, <2>2, <3>2 DEF EnqueueAsks
    <3> QED
      BY <1>2, <3>1, <3>2 DEF TypeOK
  <2> QED
    BY <2>1, <2>2
<1>4. \A n \in Msg : n # m => fate'[n] = fate[n] /\ enqueuing'[n] = enqueuing[n]
  BY <1>2, <1>3 DEF TypeOK
<1>5. fate'[m] = f /\ enqueuing'[m] = l
  BY <1>2, <1>3 DEF TypeOK
<1>6. fate[m] \notin Promised /\ fate[m] \in Untaken /\ fate'[m] \in Untaken
  BY <1>1, <1>3, <1>5 DEF Promised, Untaken
<1>7. FatesGoOn
  BY <1>4, <1>6 DEF FatesGoOn
<1>8. /\ lists' \in [ListId -> Seq(Msg)]
      /\ \A k \in ListId : IsInjective(lists'[k])
      /\ \A k \in ListId : \A n \in ToSet(lists'[k]) : n \in Msg /\ n \in ToSet(lists[k])
  <2>1. \A k \in ListId : IsInjective(lists[k]) /\ \A n \in ToSet(lists[k]) : n \in Msg
    BY <1>2, LenProperties DEF TypeOK, QueueInv, ListsRight, ToSet
  <2>2. IsInjective(<< >>) /\ ToSet(<< >>) = {} /\ << >> \in Seq(Msg)
    BY DEF IsInjective, ToSet
  <2>3. CASE lists' = lists
    BY <1>2, <2>1, <2>3 DEF TypeOK
  <2>4. CASE l \in ListId /\ lists' = [lists EXCEPT ![l] = << >>]
    <3>1. \A k \in ListId : lists'[k] = IF k = l THEN << >> ELSE lists[k]
      BY <1>2, <2>4 DEF TypeOK
    <3> QED
      BY <1>2, <2>1, <2>2, <2>4, <3>1 DEF TypeOK
  <2> QED
    BY <1>3, <2>3, <2>4
<1>9. Waiting' = Waiting
  BY <1>1, <1>2, <1>3 DEF Waiting
<1>10. FileRight' /\ file' \in FactFile(Msg)
  BY <1>1, <1>7, <1>9, FileSameRight
<1>11. TypeOK'
  <2>1. fate' \in [Msg -> Fate] /\ enqueuing' \in [Msg -> ListId \cup {NoList}]
    BY <1>2, <1>3 DEF TypeOK, Fate
  <2> QED
    BY <1>1, <1>2, <1>8, <1>10, <2>1 DEF TypeOK
<1>12. ListsRight'
  <2>1. ASSUME NEW k \in ListId, NEW n \in ToSet(lists'[k]) PROVE ListedRight(k, n)'
    <3>1. n \in Msg /\ ListedRight(k, n)
      BY <1>8 DEF QueueInv, ListsRight
    <3>2. fate'[n] = fate[n]
      BY <1>4, <1>6, <3>1 DEF ListedRight
    <3> QED
      BY <1>1, <3>1, <3>2 DEF ListedRight
  <2>2. \A j, k \in ListId : \A n \in ToSet(lists'[j]) : n \in ToSet(lists'[k]) => j = k
    BY <1>8 DEF QueueInv, ListsRight
  <2> QED
    BY <1>8, <2>1, <2>2 DEF ListsRight
<1>13. TakenRight'
  <2>1. \A n \in delivering \cup reporting \cup ToSet(lapsed) : n \in Msg
    BY <1>2, LenProperties DEF TypeOK, ToSet
  <2>2. \A n \in delivering \cup reporting \cup ToSet(lapsed) : fate'[n] = fate[n]
    BY <1>4, <1>6, <2>1 DEF QueueInv, TakenRight
  <2> QED
    BY <1>1, <2>2 DEF QueueInv, TakenRight
<1>14. AskingRight'
  <2>1. Asking' \subseteq Asking \cup {m}
    BY <1>4 DEF Asking
  <2>2. IsFiniteSet(Asking') /\ Cardinality(Asking') <= MaxEnqueuing
    <3>1. IsFiniteSet(Asking) /\ Cardinality(Asking) \in Nat
      BY FS_CardinalityType DEF QueueInv, AskingRight
    <3>2. /\ IsFiniteSet(Asking \cup {m})
          /\ Cardinality(Asking \cup {m}) = Cardinality(Asking)
             \/ Cardinality(Asking \cup {m}) = Cardinality(Asking) + 1
      BY <3>1, FS_AddElement
    <3>3. IsFiniteSet(Asking') /\ Cardinality(Asking') <= Cardinality(Asking \cup {m})
      BY <2>1, <3>2, FS_Subset
    <3>4. Cardinality(Asking') \in Nat
      BY <3>3, FS_CardinalityType
    <3> QED
      BY <1>1, <3>1, <3>2, <3>3, <3>4, QueueAssumption
  <2>3. \A n \in Msg : enqueuing'[n] # NoList <=> fate'[n] = "asking"
    BY <1>3, <1>4, <1>5 DEF QueueInv, AskingRight
  <2>4. \A n \in restored : n \in Msg /\ n # m
    BY <1>2, <1>6 DEF TypeOK, QueueInv, AskingRight
  <2> QED
    BY <1>1, <1>4, <2>2, <2>3, <2>4 DEF QueueInv, AskingRight
<1>15. DownRight'
  BY <1>1 DEF DownRight
<1> QED
  BY <1>10, <1>11, <1>12, <1>13, <1>14, <1>15 DEF QueueInv

\* Fewer enqueues under way, none of a message that came back.
LEMMA AskingFewer ==
    ASSUME QueueInv, FatesGoOn, Asking' \subseteq Asking, restored' = restored,
           \A m \in Msg : enqueuing'[m] # NoList <=> fate'[m] = "asking"
    PROVE  AskingRight'
<1>1. IsFiniteSet(Asking) /\ Cardinality(Asking) <= MaxEnqueuing
  BY DEF QueueInv, AskingRight
<1>2. IsFiniteSet(Asking') /\ Cardinality(Asking') <= Cardinality(Asking)
  BY <1>1, FS_Subset
<1>3. Cardinality(Asking) \in Nat /\ Cardinality(Asking') \in Nat
  BY <1>1, <1>2, FS_CardinalityType
<1>4. \A m \in restored : m \in Msg
  BY DEF QueueInv, TypeOK
<1> QED
  BY <1>1, <1>2, <1>3, <1>4, QueueAssumption DEF FatesGoOn, QueueInv, AskingRight

LEMMA EnqueueAnswersKeeps ==
    ASSUME QueueInv, NEW m \in Msg, EnqueueAnswers(m)
    PROVE  QueueInv'
<1> PICK l : l = enqueuing[m]
  OBVIOUS
<1> PICK q : q = Append(lists[l], m)
  OBVIOUS
<1>1. /\ up /\ l # NoList
      /\ lists' = [lists EXCEPT ![l] = Append(lists[l], m)]
      /\ here' = l
      /\ enqueuing' = [enqueuing EXCEPT ![m] = NoList]
      /\ armed' = armed \cup {m}
      /\ bound' = [bound EXCEPT ![m] = session]
      /\ file' = Save(file, q)
      /\ fate' = [n \in Msg |-> IF n = m                              THEN "queued"
                                ELSE IF l # here /\ n \in ToSet(Waiting) THEN "dropped"
                                ELSE fate[n]]
      /\ arrived' = Append(arrived, m)
      /\ nudge' \in {nudge, nudge \/ m \in Board}
      /\ UNCHANGED <<up, delivering, reporting, lapsed, restored, session, typed, exits>>
  BY DEF EnqueueAnswers, Persist
<1>2. TypeOK /\ NoList \notin ListId /\ l \in ListId /\ lists[l] \in Seq(Msg)
  BY <1>1 DEF QueueInv, TypeOK, NoList, ListId
<1>3. fate[m] = "asking" /\ m \notin restored
  <2>1. fate[m] = "asking"
    BY <1>1 DEF QueueInv, AskingRight
  <2> QED
    BY <2>1 DEF QueueInv, AskingRight, Untaken
<1>4. \A k \in ListId : /\ lists[k] \in Seq(Msg) /\ IsInjective(lists[k]) /\ m \notin ToSet(lists[k])
                        /\ \A n \in ToSet(lists[k]) : n \in Msg /\ ListedRight(k, n)
  <2>1. \A k \in ListId : \A n \in ToSet(lists[k]) : ListedRight(k, n)
    BY DEF QueueInv, ListsRight
  <2>2. \A k \in ListId : m \notin ToSet(lists[k])
    BY <1>3, <2>1 DEF ListedRight, Promised
  <2>3. \A k \in ListId : lists[k] \in Seq(Msg) /\ IsInjective(lists[k])
    BY <1>2 DEF TypeOK, QueueInv, ListsRight
  <2> QED
    BY <2>1, <2>2, <2>3, LenProperties DEF ToSet
<1>5. /\ q \in Seq(Msg) /\ ToSet(q) = ToSet(lists[l]) \cup {m} /\ IsInjective(q)
      /\ \A k \in ListId : lists'[k] = IF k = l THEN q ELSE lists[k]
  BY <1>1, <1>2, <1>4, AppendList DEF TypeOK
<1>6. Waiting' = q
  BY <1>1, <1>2, <1>5 DEF Waiting
<1>7. \A n \in Msg : /\ n = m => fate'[n] = "queued"
                     /\ fate'[n] = "asking" <=> n # m /\ fate[n] = "asking"
                     /\ fate[n] \in Promised => fate'[n] \in Promised
                     /\ fate[n] = "dropped" => fate'[n] = "dropped"
                     /\ l # here /\ n \in ToSet(Waiting) => fate'[n] = "dropped"
                     /\ fate'[n] \in {fate[n], "queued", "dropped"}
  <2>1. \A n \in ToSet(Waiting) : n \in Msg /\ fate[n] \in Promised /\ n # m
    BY <1>3, WaitingRight DEF Promised
  <2> QED
    BY <1>1, <1>3, <2>1 DEF Promised
<1>8. FatesGoOn
  BY <1>7 DEF FatesGoOn, Untaken, Promised
<1>9. FileRight' /\ file' \in FactFile(Msg)
  <2>1. \A n \in ToSet(q) : fate'[n] \notin Untaken
    BY <1>2, <1>4, <1>5, <1>7 DEF ListedRight, Untaken, Promised
  <2> QED
    BY <1>1, <1>5, <1>6, <1>8, <2>1, SavedRight
<1>10. TypeOK'
  <2>1. lists' \in [ListId -> Seq(Msg)] /\ enqueuing' \in [Msg -> ListId \cup {NoList}]
    BY <1>1, <1>2, <1>5 DEF TypeOK
  <2>2. bound' \in [Msg -> Session \cup {NoSession}] /\ fate' \in [Msg -> Fate]
    BY <1>1, <1>2 DEF TypeOK, Fate, Promised
  <2>3. arrived' \in Seq(Msg)
    BY <1>1, <1>2, AppendList DEF TypeOK
  <2>4. nudge' \in BOOLEAN
    BY <1>1, <1>2 DEF TypeOK
  <2> QED
    BY <1>1, <1>2, <1>9, <2>1, <2>2, <2>3, <2>4 DEF TypeOK
<1>11. ListsRight'
  <2>1. ASSUME NEW k \in ListId, NEW n \in ToSet(lists'[k]) PROVE ListedRight(k, n)'
    <3>1. CASE n = m
      <4>1. k = l
        BY <1>4, <1>5, <2>1, <3>1
      <4>2. m \notin delivering \cup reporting \cup ToSet(lapsed)
        BY <1>3 DEF QueueInv, TakenRight, Promised
      <4> QED
        BY <1>1, <1>3, <1>7, <3>1, <4>1, <4>2 DEF ListedRight, Promised
    <3>2. CASE n # m
      <4>1. n \in ToSet(lists[k]) /\ n \in Msg /\ ListedRight(k, n)
        BY <1>4, <1>5, <2>1, <3>2
      <4>2. k # l => fate'[n] = "dropped"
        <5>1. CASE k = here
          BY <1>2, <1>7, <4>1, <5>1 DEF Waiting
        <5>2. CASE k # here
          BY <1>7, <4>1, <5>2 DEF ListedRight
        <5> QED
          BY <5>1, <5>2
      <4>3. n \in armed \/ fate'[n] = "dropped"
        BY <1>7, <4>1 DEF ListedRight
      <4> QED
        BY <1>1, <1>7, <4>1, <4>2, <4>3 DEF ListedRight
    <3> QED
      BY <3>1, <3>2
  <2>2. ASSUME NEW j \in ListId, NEW k \in ListId, NEW n \in ToSet(lists'[j]),
               n \in ToSet(lists'[k])
        PROVE  j = k
    <3>1. CASE n = m
      BY <1>4, <1>5, <2>2, <3>1
    <3>2. CASE n # m
      <4>1. n \in ToSet(lists[j]) /\ n \in ToSet(lists[k])
        BY <1>5, <2>2, <3>2
      <4> QED
        BY <4>1 DEF QueueInv, ListsRight
    <3> QED
      BY <3>1, <3>2
  <2>3. \A k \in ListId : IsInjective(lists'[k])
    BY <1>4, <1>5
  <2> QED
    BY <2>1, <2>2, <2>3 DEF ListsRight
<1>12. TakenRight'
  <2>1. \A n \in delivering \cup reporting \cup ToSet(lapsed) : n \in Msg
    BY <1>2, LenProperties DEF TypeOK, ToSet
  <2> QED
    BY <1>1, <1>7, <2>1 DEF QueueInv, TakenRight
<1>13. AskingRight'
  <2>1. \A n \in Msg : enqueuing'[n] = IF n = m THEN NoList ELSE enqueuing[n]
    BY <1>1, <1>2 DEF TypeOK
  <2>2. Asking' \subseteq Asking
    BY <2>1 DEF Asking
  <2>3. \A n \in Msg : enqueuing'[n] # NoList <=> fate'[n] = "asking"
    BY <1>7, <2>1 DEF QueueInv, AskingRight
  <2> QED
    BY <1>1, <1>8, <2>2, <2>3, AskingFewer
<1>14. DownRight'
  BY <1>1 DEF DownRight
<1> QED
  BY <1>9, <1>10, <1>11, <1>12, <1>13, <1>14 DEF QueueInv

-------------------------------------------------------------------------------
(* A delivery that was not ready, and the TTL.                                 *)

LEMMA NotReadyKeeps ==
    ASSUME QueueInv, NEW m \in Msg, NotReady(m)
    PROVE  QueueInv'
<1> PICK l : l = IF here = NoList THEN Fresh ELSE here
  OBVIOUS
<1> PICK q : q = <<m>> \o Waiting
  OBVIOUS
<1>1. /\ up /\ m \in delivering
      /\ delivering' = delivering \ {m}
      /\ lists' = [lists EXCEPT ![l] = q]
      /\ armed' = armed \cup {m}
      /\ here' = l
      /\ file' = Save(file, lists'[l])
      /\ nudge' \in {nudge, nudge \/ m \in Board}
      /\ UNCHANGED <<up, enqueuing, reporting, lapsed, restored, bound, session, fate, typed,
                     arrived, exits>>
  BY DEF NotReady, Requeue, Persist
<1>2. TypeOK /\ NoList \notin ListId /\ l \in ListId /\ (here # NoList => l = here)
  BY FreshIs DEF QueueInv, TypeOK, NoList, ListId
<1>3. /\ Waiting \in Seq(Msg) /\ IsInjective(Waiting)
      /\ here \in ListId => Waiting = lists[here]
      /\ here = NoList => Waiting = << >>
  BY WaitingIs
<1>4. \A k \in ListId : /\ lists[k] \in Seq(Msg) /\ IsInjective(lists[k]) /\ m \notin ToSet(lists[k])
                        /\ \A n \in ToSet(lists[k]) : n \in Msg /\ ListedRight(k, n)
  <2>1. \A k \in ListId : \A n \in ToSet(lists[k]) : ListedRight(k, n)
    BY DEF QueueInv, ListsRight
  <2>2. \A k \in ListId : m \notin ToSet(lists[k])
    BY <1>1, <2>1 DEF ListedRight
  <2>3. \A k \in ListId : lists[k] \in Seq(Msg) /\ IsInjective(lists[k])
    BY <1>2 DEF TypeOK, QueueInv, ListsRight
  <2> QED
    BY <2>1, <2>2, <2>3, LenProperties DEF ToSet
<1>5. \A n \in ToSet(Waiting) : here \in ListId /\ n \in ToSet(lists[here]) /\ n # m /\ n \in Msg
  BY <1>1, WaitingIs, WaitingRight
<1>6. q \in Seq(Msg) /\ ToSet(q) = ToSet(Waiting) \cup {m} /\ IsInjective(q)
  BY <1>3, <1>5, FrontList
<1>7. \A k \in ListId : lists'[k] = IF k = l THEN q ELSE lists[k]
  BY <1>1, <1>2 DEF TypeOK
<1>8. Waiting' = q
  BY <1>1, <1>2, <1>7 DEF Waiting
<1>9. FatesGoOn
  BY <1>1 DEF FatesGoOn
<1>10. fate[m] \in Promised /\ m \notin reporting \cup ToSet(lapsed) /\ (m \in restored => m \notin Board)
  BY <1>1 DEF QueueInv, TakenRight
<1>11. FileRight' /\ file' \in FactFile(Msg)
  <2>1. \A n \in ToSet(q) : fate'[n] \notin Untaken
    BY <1>1, <1>6, <1>10, WaitingRight DEF Untaken, Promised
  <2>2. file' = Save(file, Waiting')
    BY <1>1, <1>2, <1>7, <1>8
  <2> QED
    BY <1>6, <1>8, <1>9, <2>1, <2>2, SavedRight
<1>12. TypeOK'
  <2>1. lists' \in [ListId -> Seq(Msg)] /\ nudge' \in BOOLEAN
    BY <1>1, <1>2, <1>6 DEF TypeOK
  <2> QED
    BY <1>1, <1>2, <1>11, <2>1 DEF TypeOK
<1>13. ListsRight'
  <2>1. ASSUME NEW k \in ListId, NEW n \in ToSet(lists'[k]) PROVE ListedRight(k, n)'
    <3>1. CASE n = m
      <4>1. k = l
        BY <1>4, <1>7, <2>1, <3>1
      <4> QED
        BY <1>1, <1>10, <3>1, <4>1 DEF ListedRight
    <3>2. CASE n # m
      <4>1. n \in ToSet(lists[k]) /\ ListedRight(k, n)
        BY <1>2, <1>4, <1>5, <1>6, <1>7, <2>1, <3>2
      <4>2. k # l => fate[n] = "dropped"
        BY <1>2, <4>1 DEF ListedRight
      <4> QED
        BY <1>1, <4>1, <4>2 DEF ListedRight
    <3> QED
      BY <3>1, <3>2
  <2>2. ASSUME NEW j \in ListId, NEW k \in ListId, NEW n \in ToSet(lists'[j]),
               n \in ToSet(lists'[k])
        PROVE  j = k
    <3>1. CASE n = m
      BY <1>4, <1>7, <2>2, <3>1
    <3>2. CASE n # m
      <4>1. n \in ToSet(lists[j]) /\ n \in ToSet(lists[k])
        BY <1>2, <1>5, <1>6, <1>7, <2>2, <3>2
      <4> QED
        BY <4>1 DEF QueueInv, ListsRight
    <3> QED
      BY <3>1, <3>2
  <2>3. \A k \in ListId : IsInjective(lists'[k])
    BY <1>4, <1>6, <1>7
  <2> QED
    BY <2>1, <2>2, <2>3 DEF ListsRight
<1>14. TakenRight'
  BY <1>1 DEF QueueInv, TakenRight
<1>15. AskingRight'
  <2>1. Asking' = Asking
    BY <1>1 DEF Asking
  <2> QED
    BY <1>1, <2>1 DEF QueueInv, AskingRight
<1>16. DownRight'
  BY <1>1 DEF DownRight
<1> QED
  BY <1>11, <1>12, <1>13, <1>14, <1>15, <1>16 DEF QueueInv

LEMMA TtlKeeps ==
    ASSUME QueueInv, NEW m \in Msg, Expire(m)
    PROVE  QueueInv'
<1> DEFINE q == IF m \in ToSet(Waiting) THEN Unlist(Waiting, m) ELSE Waiting
<1>1. (\E i \in DOMAIN Waiting : Waiting[i] = m) <=> m \in ToSet(Waiting)
  BY DEF ToSet
<1>2. /\ up /\ m \in armed
      /\ armed' = armed \ {m}
      /\ reporting' = IF m \in ToSet(Waiting) THEN reporting \cup {m} ELSE reporting
      /\ m \in ToSet(Waiting) => HoldsNow(q, TRUE) /\ file' = Save(file, q)
      /\ m \notin ToSet(Waiting) => q = Waiting
      /\ m \notin ToSet(Waiting) => UNCHANGED <<lists, here, file>>
      /\ UNCHANGED <<up, enqueuing, delivering, lapsed, restored, bound, session, nudge, fate,
                     typed, arrived, exits>>
  BY <1>1 DEF Expire, ExpiresIfWaiting, Persist
<1>3. TypeOK /\ NoList \notin ListId
  BY DEF QueueInv, TypeOK, NoList, ListId
<1>4. /\ Waiting \in Seq(Msg) /\ IsInjective(Waiting)
      /\ here \in ListId => Waiting = lists[here]
      /\ here = NoList => Waiting = << >>
  BY WaitingIs
<1>5. /\ q \in Seq(Msg) /\ IsInjective(q) /\ ToSet(q) = ToSet(Waiting) \ {m}
  BY <1>4, UnlistIs
<1> HIDE DEF q
<1>6. here = NoList => m \notin ToSet(Waiting)
  BY <1>4 DEF ToSet
<1>7. /\ Waiting' = q /\ here' \in {here, NoList}
      /\ lists' = IF here = NoList THEN lists ELSE [lists EXCEPT ![here] = q]
  <2>1. CASE m \in ToSet(Waiting)
    BY <1>2, <1>5, <1>6, <2>1, HoldsNowIs
  <2>2. CASE m \notin ToSet(Waiting)
    <3>1. Waiting' = Waiting
      BY <1>2, <2>2 DEF Waiting
    <3>2. here # NoList => lists = [lists EXCEPT ![here] = Waiting]
      BY <1>3, <1>4 DEF TypeOK
    <3> QED
      BY <1>2, <2>2, <3>1, <3>2
  <2> QED
    BY <2>1, <2>2
<1>8. \A k \in ListId : lists'[k] = IF k = here THEN q ELSE lists[k]
  BY <1>3, <1>7 DEF TypeOK
<1>9. FatesGoOn
  BY <1>2 DEF FatesGoOn
<1>10. FileRight' /\ file' \in FactFile(Msg)
  <2>1. \A n \in ToSet(q) : fate'[n] \notin Untaken
    BY <1>2, <1>5, WaitingRight DEF Untaken, Promised
  <2>2. CASE m \in ToSet(Waiting)
    BY <1>2, <1>5, <1>7, <1>9, <2>1, <2>2, SavedRight
  <2>3. CASE m \notin ToSet(Waiting)
    BY <1>2, <1>7, <1>9, <2>3, FileSameRight
  <2> QED
    BY <2>2, <2>3
<1>11. TypeOK'
  <2>1. lists' \in [ListId -> Seq(Msg)]
    BY <1>3, <1>5, <1>7 DEF TypeOK
  <2> QED
    BY <1>2, <1>3, <1>7, <1>10, <2>1 DEF TypeOK
<1>12. \A k \in ListId : \A n \in ToSet(lists'[k]) : n \in ToSet(lists[k]) /\ (k = here => n # m)
  BY <1>4, <1>5, <1>8
<1>13. ListsRight'
  <2>1. ASSUME NEW k \in ListId, NEW n \in ToSet(lists'[k]) PROVE ListedRight(k, n)'
    <3>1. n \in ToSet(lists[k]) /\ (k = here => n # m) /\ ListedRight(k, n)
      BY <1>12 DEF QueueInv, ListsRight
    <3>2. k = here => here' = here
      <4>1. here' = NoList => ToSet(q) = {}
        BY <1>7 DEF Waiting, ToSet
      <4> QED
        BY <1>7, <1>8, <2>1, <4>1
    <3>3. n # m \/ m \notin ToSet(Waiting)
      BY <1>3, <3>1, WaitingIs DEF QueueInv, ListsRight
    <3> QED
      BY <1>2, <3>1, <3>2, <3>3 DEF ListedRight
  <2>2. \A j, k \in ListId : \A n \in ToSet(lists'[j]) : n \in ToSet(lists'[k]) => j = k
    BY <1>12 DEF QueueInv, ListsRight
  <2>3. \A k \in ListId : IsInjective(lists'[k])
    BY <1>5, <1>8 DEF QueueInv, ListsRight
  <2> QED
    BY <2>1, <2>2, <2>3 DEF ListsRight
<1>14. TakenRight'
  <2>1. m \in ToSet(Waiting) => fate[m] \in Promised /\ m \notin delivering \cup ToSet(lapsed)
    BY WaitingRight
  <2> QED
    BY <1>2, <2>1 DEF QueueInv, TakenRight
<1>15. AskingRight'
  <2>1. Asking' = Asking
    BY <1>2 DEF Asking
  <2> QED
    BY <1>2, <2>1 DEF QueueInv, AskingRight
<1>16. DownRight'
  BY <1>2 DEF DownRight
<1> QED
  BY <1>10, <1>11, <1>13, <1>14, <1>15, <1>16 DEF QueueInv

-------------------------------------------------------------------------------
(* Steps that leave the lists and the deliveries alone: reports, the file, the session. *)

\* Of those waiting for a report, the ones in E are told that they expired.
Reports(E) ==
    /\ E \subseteq reporting \cup ToSet(lapsed)
    /\ fate' = [m \in Msg |-> IF m \in E THEN "expired" ELSE fate[m]]
    /\ reporting' \subseteq reporting \ E
    /\ lapsed' \in Seq(Msg) /\ IsInjective(lapsed')
    /\ ToSet(lapsed') \subseteq ToSet(lapsed) \ E
    /\ reporting \cup ToSet(lapsed) \subseteq E \cup reporting' \cup ToSet(lapsed')
    /\ ~up => lapsed' = << >>
    /\ UNCHANGED <<up, lists, here, enqueuing, armed, delivering, restored, bound, arrived,
                   exits, typed>>

LEMMA ReportsFates ==
    ASSUME QueueInv, NEW E, Reports(E)
    PROVE  /\ FatesGoOn /\ Waiting' = Waiting /\ fate' \in [Msg -> Fate]
           /\ \A m \in E : m \in Msg /\ fate[m] \in Promised
           /\ \A m \in Msg : m \notin E => fate'[m] = fate[m]
           /\ \A m \in Msg : fate'[m] = "asking" <=> fate[m] = "asking"
<1>1. TypeOK
  BY DEF QueueInv
<1>2. \A m \in E : m \in Msg /\ fate[m] \in Promised
  <2>1. \A m \in reporting \cup ToSet(lapsed) : m \in Msg
    BY <1>1, LenProperties DEF TypeOK, ToSet
  <2> QED
    BY <2>1 DEF Reports, QueueInv, TakenRight
<1>3. \A m \in Msg : fate'[m] = IF m \in E THEN "expired" ELSE fate[m]
  BY DEF Reports
<1>4. fate' \in [Msg -> Fate]
  BY <1>1 DEF Reports, TypeOK, Fate, Ends
<1>5. Waiting' = Waiting
  BY DEF Reports, Waiting
<1> QED
  BY <1>2, <1>3, <1>4, <1>5 DEF FatesGoOn, Untaken, Promised

LEMMA ReportsKeep ==
    ASSUME QueueInv, NEW E, Reports(E), FileRight', file' \in FactFile(Msg),
           session' \in Session \cup {NoSession}, nudge' \in BOOLEAN
    PROVE  QueueInv'
<1>1. TypeOK
  BY DEF QueueInv
<1>2. /\ FatesGoOn /\ Waiting' = Waiting /\ fate' \in [Msg -> Fate]
      /\ \A m \in E : m \in Msg /\ fate[m] \in Promised
      /\ \A m \in Msg : m \notin E => fate'[m] = fate[m]
      /\ \A m \in Msg : fate'[m] = "asking" <=> fate[m] = "asking"
  BY ReportsFates
<1>3. \A m \in delivering \cup reporting \cup ToSet(lapsed) : m \in Msg
  BY <1>1, LenProperties DEF TypeOK, ToSet
<1>4. TypeOK'
  BY <1>1, <1>2 DEF TypeOK, Reports
<1>5. ListsRight'
  <2>1. ASSUME NEW k \in ListId, NEW n \in ToSet(lists[k]) PROVE ListedRight(k, n)'
    <3>1. ListedRight(k, n)
      BY DEF QueueInv, ListsRight
    <3>2. n \notin E /\ n \in Msg
      BY <1>1, <3>1, LenProperties DEF ListedRight, Reports, TypeOK, ToSet
    <3> QED
      BY <1>2, <3>1, <3>2 DEF ListedRight, Reports
  <2> QED
    BY <2>1 DEF QueueInv, ListsRight, Reports
<1>6. TakenRight'
  <2>1. \A m \in delivering : m \notin E
    BY DEF QueueInv, TakenRight, Reports
  <2> QED
    BY <1>2, <1>3, <2>1 DEF QueueInv, TakenRight, Reports
<1>7. AskingRight'
  <2>1. Asking' = Asking
    BY DEF Asking, Reports
  <2>2. \A m \in Msg : enqueuing'[m] # NoList <=> fate'[m] = "asking"
    BY <1>2 DEF QueueInv, AskingRight, Reports
  <2> QED
    BY <1>2, <2>1, <2>2, AskingFewer DEF Reports
<1>8. DownRight'
  BY DEF QueueInv, DownRight, Reports
<1> QED
  BY <1>4, <1>5, <1>6, <1>7, <1>8 DEF QueueInv

\* Nothing but the session, the nudge or the file.
LEMMA AloneReports ==
    ASSUME QueueInv, UNCHANGED <<up, lists, here, enqueuing, armed, delivering, reporting, lapsed,
                                 restored, bound, fate, typed, arrived, exits>>
    PROVE  Reports({})
<1>1. fate' = [m \in Msg |-> IF m \in {} THEN "expired" ELSE fate[m]]
  BY DEF QueueInv, TypeOK
<1> QED
  BY <1>1 DEF Reports, QueueInv, TypeOK, TakenRight, DownRight

LEMMA AloneKeeps ==
    ASSUME QueueInv, UNCHANGED <<up, lists, here, enqueuing, armed, delivering, reporting, lapsed,
                                 restored, bound, fate, typed, arrived, exits, file>>,
           session' \in Session \cup {NoSession}, nudge' \in BOOLEAN
    PROVE  QueueInv'
<1>1. Reports({})
  BY AloneReports
<1>2. FatesGoOn /\ Waiting' = Waiting
  BY <1>1, ReportsFates
<1>3. FileRight' /\ file' \in FactFile(Msg)
  BY <1>2, FileSameRight
<1> QED
  BY <1>1, <1>3, ReportsKeep

LEMMA ExpiryToldKeeps ==
    ASSUME QueueInv, NEW m \in Msg, ExpiryTold(m)
    PROVE  QueueInv' /\ Reports({m})
<1>1. /\ up /\ m \in reporting /\ reporting' = reporting \ {m}
      /\ fate' = [fate EXCEPT ![m] = "expired"]
      /\ UNCHANGED <<up, lists, here, enqueuing, armed, delivering, lapsed, restored, bound,
                     session, nudge, file, typed, arrived, exits>>
  BY DEF ExpiryTold
<1>2. TypeOK /\ m \notin ToSet(lapsed) /\ IsInjective(lapsed)
  BY <1>1 DEF QueueInv, TakenRight
<1>3. fate' = [n \in Msg |-> IF n \in {m} THEN "expired" ELSE fate[n]]
  BY <1>1, <1>2 DEF TypeOK
<1>4. Reports({m})
  BY <1>1, <1>2, <1>3 DEF Reports, TypeOK
<1>5. FatesGoOn /\ Waiting' = Waiting
  BY <1>4, ReportsFates
<1>6. FileRight' /\ file' \in FactFile(Msg)
  BY <1>1, <1>5, FileSameRight
<1> QED
  BY <1>1, <1>2, <1>4, <1>6, ReportsKeep DEF TypeOK

LEMMA LapsedToldKeeps ==
    ASSUME QueueInv, LapsedTold
    PROVE  QueueInv' /\ Reports({Head(lapsed)})
<1>1. /\ up /\ lapsed # << >>
      /\ fate' = [fate EXCEPT ![Head(lapsed)] = "expired"]
      /\ lapsed' = Tail(lapsed)
      /\ lapsed' = << >> => file' = Save(file, Waiting)
      /\ lapsed' # << >> => file' = file
      /\ UNCHANGED <<up, lists, here, enqueuing, armed, delivering, reporting, restored, bound,
                     session, nudge, typed, arrived, exits>>
  BY DEF LapsedTold, Persist
<1>2. TypeOK /\ lapsed \in Seq(Msg) /\ IsInjective(lapsed)
  BY DEF QueueInv, TakenRight, TypeOK
<1>3. /\ Head(lapsed) \in ToSet(lapsed) /\ lapsed' \in Seq(Msg) /\ IsInjective(lapsed')
      /\ ToSet(lapsed') = ToSet(lapsed) \ {Head(lapsed)}
  BY <1>1, <1>2, TailList
<1>4. Head(lapsed) \notin reporting
  BY <1>3 DEF QueueInv, TakenRight
<1>5. fate' = [n \in Msg |-> IF n \in {Head(lapsed)} THEN "expired" ELSE fate[n]]
  BY <1>1, <1>2 DEF TypeOK
<1>6. Reports({Head(lapsed)})
  BY <1>1, <1>3, <1>4, <1>5 DEF Reports
<1>7. FatesGoOn /\ Waiting' = Waiting
  BY <1>6, ReportsFates
<1>8. FileRight' /\ file' \in FactFile(Msg)
  <2>1. CASE lapsed' = << >>
    <3>1. \A m \in ToSet(Waiting) : m \in Msg /\ fate'[m] \notin Untaken
      BY <1>7, WaitingRight DEF FatesGoOn, Promised, Untaken
    <3>2. Waiting \in Seq(Msg) /\ IsInjective(Waiting)
      BY WaitingIs
    <3> QED
      BY <1>1, <1>7, <2>1, <3>1, <3>2, SavedRight
  <2>2. CASE lapsed' # << >>
    BY <1>1, <1>7, <2>2, FileSameRight
  <2> QED
    BY <2>1, <2>2
<1> QED
  BY <1>1, <1>2, <1>6, <1>8, ReportsKeep DEF TypeOK

\* A file whose snapshots are among the old ones.
LEMMA FileStepRight ==
    ASSUME QueueInv, FatesGoOn, NEW f, file' = f,
           f.pending \cup f.writing \cup {f.disk} \subseteq
               file.pending \cup file.writing \cup {file.disk}
    PROVE  \A s \in f.pending \cup f.writing \cup {f.disk} : SnapshotRight(s)'
<1>1. \A s \in file.pending \cup file.writing \cup {file.disk} :
          SnapshotRight(s) /\ s \in Seq(Msg)
  BY DEF QueueInv, TypeOK, FileRight, FactFile
<1>2. \A s \in Seq(Msg) : ToSet(s) \subseteq Msg
  BY LenProperties DEF ToSet
<1> QED
  BY <1>1, <1>2 DEF SnapshotRight, FatesGoOn

LEMMA SaveTimerKeeps ==
    ASSUME QueueInv, SaveTimerFires
    PROVE  QueueInv'
<1>1. /\ file' = TimerFired(file)
      /\ UNCHANGED <<up, queueVars, restored, bound, session, fate, typed, arrived, exits>>
  BY DEF SaveTimerFires
<1>2. TypeOK /\ file \in FactFile(Msg) /\ FileRight
  BY DEF QueueInv, TypeOK
<1>3. Reports({})
  BY <1>1, AloneReports DEF queueVars
<1>4. FatesGoOn /\ Waiting' = Waiting
  BY <1>3, ReportsFates
<1> PICK f : f = TimerFired(file)
  OBVIOUS
<1>5. /\ f \in FactFile(Msg) /\ f.disk = file.disk /\ f.failed = file.failed
      /\ \/ f.pending = file.pending /\ f.writing = file.writing
         \/ f.pending = {} /\ f.writing = file.pending /\ file.writing = {}
  BY <1>2, TimerFiredIs
<1>6. \A s \in f.pending \cup f.writing \cup {f.disk} : SnapshotRight(s)'
  BY <1>1, <1>4, <1>5, FileStepRight
<1>7. FileRight'
  <2>1. lapsed' = lapsed /\ up' = up
    BY <1>1 DEF queueVars
  <2> QED
    BY <1>1, <1>2, <1>4, <1>5, <1>6, <2>1 DEF FileRight, Settled
<1> QED
  BY <1>1, <1>2, <1>3, <1>5, <1>7, ReportsKeep DEF TypeOK, queueVars

LEMMA WriteEndsKeeps ==
    ASSUME QueueInv, NEW landed \in BOOLEAN, WriteEnds(landed)
    PROVE  QueueInv'
<1>1. /\ file.writing # {} /\ file' = WriteEnded(file, landed)
      /\ UNCHANGED <<up, queueVars, restored, bound, session, fate, typed, arrived, exits>>
  BY DEF WriteEnds
<1>2. TypeOK /\ file \in FactFile(Msg) /\ FileRight
  BY DEF QueueInv, TypeOK
<1>3. Reports({})
  BY <1>1, AloneReports DEF queueVars
<1>4. FatesGoOn /\ Waiting' = Waiting
  BY <1>3, ReportsFates
<1> PICK f : f = WriteEnded(file, landed)
  OBVIOUS
<1>5. /\ f \in FactFile(Msg) /\ f.failed = ~landed
      /\ landed => f.disk \in file.writing
      /\ ~landed => f.disk = file.disk
      /\ \/ f.pending = file.pending /\ f.writing = {}
         \/ f.pending = {} /\ f.writing = file.pending
  BY <1>1, <1>2, WriteEndedIs
<1>6. \A s \in f.pending \cup f.writing \cup {f.disk} : SnapshotRight(s)'
  BY <1>1, <1>4, <1>5, FileStepRight
<1>7. FileRight'
  <2>1. lapsed' = lapsed /\ up' = up
    BY <1>1 DEF queueVars
  <2>2. /\ \A r, t \in f.pending : r = t
        /\ \A r, t \in f.writing : r = t
    BY <1>2, <1>5 DEF FileRight
  <2>3. ASSUME up, lapsed = << >>
        PROVE  /\ f.pending # {} => Waiting \in f.pending
               /\ f.pending = {} /\ f.writing # {} => Waiting \in f.writing
               /\ f.pending = {} /\ f.writing = {} /\ ~f.failed => f.disk = Waiting
    <3>1. /\ file.pending # {} => Waiting \in file.pending
          /\ file.pending = {} => Waiting \in file.writing
          /\ \A r, t \in file.writing : r = t
      BY <1>1, <1>2, <2>3 DEF FileRight
    <3> QED
      BY <1>5, <3>1
  <2> QED
    BY <1>1, <1>4, <1>6, <2>1, <2>2, <2>3 DEF FileRight, Settled
<1> QED
  BY <1>1, <1>2, <1>3, <1>5, <1>7, ReportsKeep DEF TypeOK, queueVars

-------------------------------------------------------------------------------
(* The process ends and starts.                                                *)

\* A process starts with no list entry, and ends with none.
LEMMA NothingListed ==
    /\ [l \in ListId |-> << >>] \in [ListId -> Seq(Msg)]
    /\ IsInjective(<< >>) /\ ToSet(<< >>) = {}
    /\ \A l \in ListId : [k \in ListId |-> << >>][l] = << >>
  BY DEF IsInjective, ToSet

LEMMA GoneKeeps ==
    ASSUME QueueInv, NEW disk \in Seq(Msg), SnapshotRight(disk), Gone(disk)
    PROVE  QueueInv'
<1> DEFINE none == [m \in Msg |-> NoList]
<1>1. /\ up' = FALSE /\ exits' = exits + 1 /\ exits < MaxExits
      /\ lists' = [l \in ListId |-> << >>] /\ here' = NoList
      /\ enqueuing' = none
      /\ armed' = {} /\ delivering' = {} /\ reporting' = {} /\ lapsed' = << >>
      /\ nudge' = FALSE /\ file' = NewFile(disk)
      /\ fate' = [m \in Msg |-> IF fate[m] = "asking" THEN "unanswered"
                                ELSE IF fate[m] \in Promised /\ m \notin ToSet(disk) THEN "lost"
                                ELSE fate[m]]
      /\ UNCHANGED <<restored, bound, session, arrived>>
  BY DEF Gone
<1>2. PICK cut \in SUBSET delivering :
          typed' = [m \in Msg |-> IF m \in cut THEN typed[m] + 1 ELSE typed[m]]
  BY DEF Gone
<1>3. TypeOK
  BY DEF QueueInv
<1>4. \A m \in Msg : fate'[m] = IF fate[m] = "asking" THEN "unanswered"
                      ELSE IF fate[m] \in Promised /\ m \notin ToSet(disk) THEN "lost"
                      ELSE fate[m]
  BY <1>1
<1>5. FatesGoOn /\ \A m \in Msg : fate'[m] # "asking"
  BY <1>4 DEF FatesGoOn, Untaken, Promised
<1>6. FileRight' /\ file' \in FactFile(Msg)
  <2>1. file' \in FactFile(Msg) /\ file'.pending = {} /\ file'.writing = {} /\ file'.disk = disk
    BY <1>1 DEF FactFile, NewFile
  <2>2. \A m \in ToSet(disk) : m \in Msg
    BY LenProperties DEF ToSet
  <2>3. SnapshotRight(disk)'
    BY <1>5, <2>2 DEF SnapshotRight, FatesGoOn
  <2> QED
    BY <1>1, <2>1, <2>3 DEF FileRight
<1>7. TypeOK'
  <2>1. fate' \in [Msg -> Fate]
    BY <1>1, <1>3 DEF TypeOK, Fate
  <2>2. typed' \in [Msg -> Nat]
    BY <1>2, <1>3 DEF TypeOK
  <2>3. exits' \in 0 .. MaxExits
    BY <1>1, <1>3, QueueAssumption DEF TypeOK
  <2>4. /\ lists' \in [ListId -> Seq(Msg)] /\ here' \in ListId \cup {NoList}
        /\ enqueuing' \in [Msg -> ListId \cup {NoList}]
        /\ lapsed' \in Seq(Msg) /\ up' \in BOOLEAN /\ nudge' \in BOOLEAN
    BY <1>1, NothingListed, EmptySeq
  <2>5. armed' \subseteq Msg /\ delivering' \subseteq Msg /\ reporting' \subseteq Msg
    BY <1>1
  <2> QED
    BY <1>1, <1>3, <1>6, <2>1, <2>2, <2>3, <2>4, <2>5 DEF TypeOK
<1>8. ListsRight'
  BY <1>1, NothingListed DEF ListsRight
<1>9. TakenRight'
  BY <1>1, NothingListed DEF TakenRight
<1>10. AskingRight'
  <2>1. Asking' = {}
    BY <1>1 DEF Asking
  <2>2. \A m \in Msg : enqueuing'[m] = NoList
    BY <1>1
  <2> QED
    BY <1>1, <1>5, <2>1, <2>2, AskingFewer
<1>11. DownRight'
  BY <1>1 DEF DownRight
<1> QED
  BY <1>6, <1>7, <1>8, <1>9, <1>10, <1>11 DEF QueueInv

LEMMA CrashKeeps ==
    ASSUME QueueInv, Crash
    PROVE  QueueInv'
<1>1. SnapshotRight(file.disk) /\ file.disk \in Seq(Msg)
  BY DEF QueueInv, TypeOK, FileRight, FactFile
<1> QED
  BY <1>1, GoneKeeps DEF Crash

LEMMA QuitKeeps ==
    ASSUME QueueInv, Quit
    PROVE  QueueInv'
<1>1. file \in FactFile(Msg)
  BY DEF QueueInv, TypeOK
<1>2. \A s \in file.pending \cup file.writing \cup {file.disk} : SnapshotRight(s) /\ s \in Seq(Msg)
  BY <1>1 DEF QueueInv, FileRight, FactFile
<1>3. PICK s : /\ Gone(s)
               /\ s \in FlushedSync(file).writing \cup {FlushedSync(file).disk}
  BY DEF Quit
<1>4. s \in file.pending \cup file.writing \cup {file.disk}
  BY <1>1, <1>3, FlushedIs
<1> QED
  BY <1>2, <1>3, <1>4, GoneKeeps

\* What restore makes of the file: the list it takes up, and the entries to be reported.
Restores(back, rest) ==
    /\ IsInjective(back) /\ IsInjective(rest) /\ InOrder(back, file.disk)
    /\ ToSet(back) \subseteq ToSet(file.disk) \ Board
    /\ ToSet(rest) = ToSet(file.disk) \ ToSet(back)
    /\ here' = IF back = << >> THEN NoList ELSE 1
    /\ lists' = [lists EXCEPT ![1] = back]
    /\ armed' = ToSet(back)
    /\ lapsed' = rest
    /\ rest = << >> => file' = Save(file, back)
    /\ rest # << >> => file' = file

LEMMA BootIs ==
    ASSUME QueueInv, Boot
    PROVE  \E back, rest \in Seq(Msg) : Restores(back, rest)
<1> PICK disk : disk = file.disk
  OBVIOUS
<1>1. disk \in Seq(Msg) /\ IsInjective(disk)
  BY DEF QueueInv, TypeOK, FactFile, FileRight, SnapshotRight
<1>2. PICK out \in SUBSET ToSet(disk) :
        LET able   == Only(disk, Msg \ (out \cup Board))
            back   == SubSeq(able, 1, IF Len(able) < Capacity THEN Len(able) ELSE Capacity)
            rest   == Only(disk, Msg \ ToSet(back))
        IN  /\ here' = IF back = << >> THEN NoList ELSE 1
            /\ lists' = [lists EXCEPT ![1] = back]
            /\ armed' = ToSet(back)
            /\ lapsed' = rest
            /\ IF rest = << >> THEN Persist(back) ELSE UNCHANGED file
  BY DEF Boot
<1> DEFINE able == Only(disk, Msg \ (out \cup Board))
           n    == IF Len(able) < Capacity THEN Len(able) ELSE Capacity
           back == SubSeq(able, 1, n)
           rest == Only(disk, Msg \ ToSet(back))
<1>3. /\ able \in Seq(Msg) /\ ToSet(able) = ToSet(disk) \cap (Msg \ (out \cup Board))
      /\ IsInjective(able) /\ InOrder(able, disk)
  BY <1>1, OnlyList
<1>4. n \in 0 .. Len(able)
  <2>1. Len(able) \in Nat
    BY <1>3, LenProperties
  <2> HIDE DEF able
  <2> QED
    BY <2>1, QueueAssumption
<1> HIDE DEF able, n
<1>5. back \in Seq(Msg) /\ InOrder(back, able)
  BY <1>3, <1>4, TakeList
<1> HIDE DEF back
<1>6. IsInjective(back) /\ ToSet(back) \subseteq ToSet(able)
  BY <1>3, <1>5, InOrderIsSub
<1>7. InOrder(back, disk)
  BY <1>1, <1>3, <1>5, InOrderIn
<1>8. rest \in Seq(Msg) /\ IsInjective(rest) /\ ToSet(rest) = ToSet(disk) \cap (Msg \ ToSet(back))
  BY <1>1, OnlyList
<1>9. ToSet(disk) \subseteq Msg
  BY <1>1, LenProperties DEF ToSet
<1>10. /\ here' = IF back = << >> THEN NoList ELSE 1
       /\ lists' = [lists EXCEPT ![1] = back]
       /\ armed' = ToSet(back)
       /\ lapsed' = rest
       /\ IF rest = << >> THEN Persist(back) ELSE UNCHANGED file
  BY <1>2 DEF able, n, back
<1> HIDE DEF rest
<1>11. ToSet(back) \subseteq ToSet(disk) \ Board /\ ToSet(rest) = ToSet(disk) \ ToSet(back)
  BY <1>3, <1>6, <1>8, <1>9
<1>12. /\ rest = << >> => file' = Save(file, back)
       /\ rest # << >> => file' = file
  BY <1>10 DEF Persist
<1>13. Restores(back, rest)
  BY <1>6, <1>7, <1>8, <1>10, <1>11, <1>12 DEF Restores
<1> QED
  BY <1>5, <1>8, <1>13

LEMMA BootKeeps ==
    ASSUME QueueInv, Boot
    PROVE  QueueInv'
<1>1. /\ up' = TRUE
      /\ restored' = restored \cup ToSet(file.disk)
      /\ fate' = [m \in Msg |-> IF m \in ToSet(file.disk) THEN "queued" ELSE fate[m]]
      /\ arrived' = file.disk
      /\ UNCHANGED <<enqueuing, delivering, reporting, bound, session, nudge, typed, exits>>
  BY DEF Boot
<1>2. /\ lists = [l \in ListId |-> << >>] /\ delivering = {} /\ reporting = {}
      /\ \A m \in Msg : enqueuing[m] = NoList
  BY DEF Boot, QueueInv, DownRight
<1> PICK disk : disk = file.disk
  OBVIOUS
<1>3. TypeOK /\ disk \in Seq(Msg) /\ IsInjective(disk) /\ file \in FactFile(Msg)
  BY DEF QueueInv, TypeOK, FactFile, FileRight, SnapshotRight
<1>4. PICK back \in Seq(Msg), rest \in Seq(Msg) :
          /\ IsInjective(back) /\ IsInjective(rest)
          /\ ToSet(back) \subseteq ToSet(disk) \ Board
          /\ ToSet(rest) = ToSet(disk) \ ToSet(back)
          /\ here' = IF back = << >> THEN NoList ELSE 1
          /\ lists' = [lists EXCEPT ![1] = back]
          /\ armed' = ToSet(back)
          /\ lapsed' = rest
          /\ rest = << >> => file' = Save(file, back)
          /\ rest # << >> => file' = file
  BY BootIs DEF Restores
<1>5. 1 \in ListId /\ NoList \notin ListId /\ 1 # NoList
  BY QueueAssumption DEF ListId, NoList
<1>6. \A l \in ListId : lists'[l] = IF l = 1 THEN back ELSE << >>
  BY <1>2, <1>4, <1>5
<1>7. Waiting' = back
  BY <1>4, <1>5, <1>6 DEF Waiting
<1>8. \A m \in ToSet(disk) : m \in Msg /\ fate'[m] = "queued"
  BY <1>1, <1>3, LenProperties DEF ToSet
<1>9. FatesGoOn /\ \A m \in Msg : fate'[m] = "asking" => fate[m] = "asking"
  BY <1>1 DEF FatesGoOn, Untaken
<1>10. FileRight' /\ file' \in FactFile(Msg)
  <2>1. \A m \in ToSet(back) : fate'[m] \notin Untaken
    BY <1>4, <1>8 DEF Untaken
  <2>2. CASE rest = << >>
    BY <1>4, <1>7, <1>9, <2>1, <2>2, SavedRight
  <2>3. CASE rest # << >>
    BY <1>4, <1>9, <2>3, FileSameRight
  <2> QED
    BY <2>2, <2>3
<1>11. TypeOK'
  <2>1. fate' \in [Msg -> Fate] /\ lists' \in [ListId -> Seq(Msg)]
    BY <1>1, <1>3, <1>4 DEF TypeOK, Fate, Promised
  <2>2. armed' \subseteq Msg /\ restored' \subseteq Msg
    BY <1>1, <1>3, <1>4, <1>8 DEF TypeOK
  <2>3. here' \in ListId \cup {NoList}
    BY <1>4, <1>5
  <2>4. arrived' \in Seq(Msg) /\ up' \in BOOLEAN /\ lapsed' \in Seq(Msg)
    BY <1>1, <1>3, <1>4
  <2> QED
    BY <1>1, <1>3, <1>10, <2>1, <2>2, <2>3, <2>4 DEF TypeOK
<1>12. ListsRight'
  <2>1. ASSUME NEW l \in ListId, NEW m \in ToSet(lists'[l]) PROVE l = 1 /\ ListedRight(l, m)'
    <3>1. l = 1 /\ m \in ToSet(back)
      BY <1>6, <2>1, NothingListed
    <3>2. back # << >>
      BY <3>1, NothingListed
    <3> QED
      BY <1>1, <1>2, <1>4, <1>8, <3>1, <3>2 DEF ListedRight, Promised
  <2>2. \A l \in ListId : IsInjective(lists'[l])
    BY <1>4, <1>6, NothingListed
  <2> QED
    BY <2>1, <2>2 DEF ListsRight
<1>13. TakenRight'
  BY <1>1, <1>2, <1>4, <1>8 DEF TakenRight, Promised
<1>14. AskingRight'
  <2>1. Asking' = {} /\ Asking = {}
    BY <1>1, <1>2 DEF Asking
  <2>2. \A m \in Msg : fate'[m] # "asking" /\ enqueuing'[m] = NoList
    BY <1>1, <1>2, <1>9 DEF QueueInv, AskingRight
  <2>3. \A m \in restored' : fate'[m] \notin Untaken
    BY <1>1, <1>3, <1>8, <1>9 DEF QueueInv, AskingRight, FatesGoOn, Untaken, TypeOK
  <2> QED
    BY <2>1, <2>2, <2>3 DEF QueueInv, AskingRight
<1>15. DownRight'
  BY <1>1 DEF DownRight
<1> QED
  BY <1>10, <1>11, <1>12, <1>13, <1>14, <1>15 DEF QueueInv

-------------------------------------------------------------------------------
(* The queue, in every reachable state.                                        *)

LEMMA InitRight == Init => QueueInv
<1> SUFFICES ASSUME Init PROVE QueueInv
  OBVIOUS
<1> USE DEF Init
<1>1. << >> \in Seq(Msg) /\ IsInjective(<< >>) /\ ToSet(<< >>) = {}
  BY NothingListed, EmptySeq
<1>2. NoList \notin ListId
  BY DEF NoList, ListId
<1>3. file \in FactFile(Msg) /\ file.disk = << >> /\ file.pending = {} /\ file.writing = {}
  BY <1>1 DEF NewFile, FactFile
<1>4. TypeOK
  <2>1. lists \in [ListId -> Seq(Msg)] /\ enqueuing \in [Msg -> ListId \cup {NoList}]
    BY <1>1
  <2>2. fate \in [Msg -> Fate] /\ typed \in [Msg -> Nat] /\ exits \in 0 .. MaxExits
    BY QueueAssumption DEF Fate
  <2>3. bound \in [Msg -> Session \cup {NoSession}]
    OBVIOUS
  <2> QED
    BY <1>1, <1>3, <2>1, <2>2, <2>3 DEF TypeOK
<1>5. ListsRight
  BY NothingListed DEF ListsRight
<1>6. TakenRight
  BY <1>1 DEF TakenRight
<1>7. AskingRight
  <2>1. Asking = {}
    BY DEF Asking
  <2>2. \A m \in Msg : enqueuing[m] = NoList /\ fate[m] # "asking"
    OBVIOUS
  <2> QED
    BY <2>1, <2>2, FS_EmptySet, QueueAssumption DEF AskingRight
<1>8. DownRight
  BY DEF DownRight
<1>9. FileRight
  <2>1. SnapshotRight(<< >>)
    BY <1>1 DEF SnapshotRight
  <2>2. Waiting = << >>
    BY DEF Waiting
  <2> QED
    BY <1>3, <2>1, <2>2 DEF FileRight
<1> QED
  BY <1>4, <1>5, <1>6, <1>7, <1>8, <1>9 DEF QueueInv

\* The deliveries a turn of the flush ends: none, or the one that has just ended.
LEMMA ToldIs ==
    /\ DOMAIN Untold = {} /\ Untold \in [{} -> Ends]
    /\ \A m : \A end \in {"landed", "refused"} :
           DOMAIN [n \in {m} |-> end] = {m} /\ [n \in {m} |-> end] \in [{m} -> Ends]
  BY DEF Untold, Ends

LEMMA TargetIdleTurns ==
    ASSUME QueueInv, TargetIdle \/ (NudgeFires /\ Waiting # << >>)
    PROVE  /\ up /\ Cardinality(delivering) < MaxFlushing
           /\ nudge' \in BOOLEAN /\ typed' = typed
           /\ UNCHANGED <<up, enqueuing, reporting, lapsed, restored, bound, session, arrived,
                          exits>>
           /\ \E refused, claim \in SUBSET Msg : Turn(refused, claim, Untold)
<1>1. LoopTurn(Waiting, Untold, FALSE)
  BY DEF TargetIdle, NudgeFires
<1>2. \E refused, claim \in SUBSET Msg : Turn(refused, claim, Untold)
  BY <1>1, LoopTurnIs
<1> QED
  BY <1>2 DEF TargetIdle, NudgeFires, QueueInv, TypeOK

LEMMA DeliveryEndsTurns ==
    ASSUME QueueInv, NEW m \in Msg, NEW end \in {"landed", "refused"}, DeliveryEnds(m, end),
           NEW told, told = [n \in {m} |-> end]
    PROVE  /\ up /\ m \in delivering /\ nudge' \in BOOLEAN
           /\ typed' \in [Msg -> Nat] /\ \A n \in Msg : n # m => typed'[n] = typed[n]
           /\ UNCHANGED <<up, enqueuing, reporting, lapsed, restored, bound, session, arrived,
                          exits>>
           /\ \E refused, claim \in SUBSET Msg : Turn(refused, claim, told)
<1>1. LoopTurn(Waiting, [n \in {m} |-> end], TRUE)
  BY DEF DeliveryEnds
<1>2. \E refused, claim \in SUBSET Msg : Turn(refused, claim, told)
  BY <1>1, LoopTurnIs
<1>3. typed' = IF end = "landed" THEN [typed EXCEPT ![m] = @ + 1] ELSE typed
  BY DEF DeliveryEnds
<1>4. typed \in [Msg -> Nat]
  BY DEF QueueInv, TypeOK
<1>5. typed' \in [Msg -> Nat] /\ \A n \in Msg : n # m => typed'[n] = typed[n]
  BY <1>3, <1>4
<1>6. nudge \in BOOLEAN
  BY DEF QueueInv, TypeOK
<1> QED
  BY <1>2, <1>5, <1>6 DEF DeliveryEnds

LEMMA NextKeeps == QueueInv /\ [Next]_vars => QueueInv'
<1> SUFFICES ASSUME QueueInv, [Next]_vars PROVE QueueInv'
  OBVIOUS
<1>1. TypeOK
  BY DEF QueueInv
<1>2. ASSUME NEW m \in Msg, EnqueueAsks(m) PROVE QueueInv'
  BY <1>2, EnqueueAsksKeeps
<1>3. ASSUME NEW m \in Msg, EnqueueAnswers(m) PROVE QueueInv'
  BY <1>3, EnqueueAnswersKeeps
<1>4. ASSUME NEW m \in Msg, NEW end \in {"landed", "refused"}, DeliveryEnds(m, end)
      PROVE  QueueInv'
  <2> PICK told : told = [n \in {m} |-> end]
    OBVIOUS
  <2>1. told \in [{m} -> Ends]
    BY ToldIs
  <2>2. /\ up /\ {m} \in SUBSET delivering /\ nudge' \in BOOLEAN /\ typed' \in [Msg -> Nat]
        /\ UNCHANGED <<up, enqueuing, reporting, lapsed, restored, bound, session, arrived,
                       exits>>
        /\ \E refused, claim \in SUBSET Msg : Turn(refused, claim, told)
    BY <1>4, DeliveryEndsTurns
  <2>3. PICK refused \in SUBSET Msg, claim \in SUBSET Msg : Turn(refused, claim, told)
    BY <2>2
  <2> QED
    BY <2>1, <2>2, <2>3, TurnKeeps
<1>5. ASSUME NEW m \in Msg, NotReady(m) PROVE QueueInv'
  BY <1>5, NotReadyKeeps
<1>6. ASSUME NEW m \in Msg, Expire(m) PROVE QueueInv'
  BY <1>6, TtlKeeps
<1>7. ASSUME NEW m \in Msg, ExpiryTold(m) PROVE QueueInv'
  BY <1>7, ExpiryToldKeeps
<1>8. ASSUME TargetIdle \/ (NudgeFires /\ Waiting # << >>) PROVE QueueInv'
  <2>1. Untold \in [{} -> Ends]
    BY ToldIs
  <2>2. PICK refused \in SUBSET Msg, claim \in SUBSET Msg : Turn(refused, claim, Untold)
    BY <1>8, TargetIdleTurns
  <2>3. /\ up /\ {} \in SUBSET delivering /\ nudge' \in BOOLEAN /\ typed' \in [Msg -> Nat]
        /\ UNCHANGED <<up, enqueuing, reporting, lapsed, restored, bound, session, arrived,
                       exits>>
    BY <1>1, <1>8, TargetIdleTurns DEF TypeOK
  <2> QED
    BY <2>1, <2>2, <2>3, TurnKeeps
<1>9. ASSUME NudgeFires, Waiting = << >> PROVE QueueInv'
  BY <1>1, <1>9, AloneKeeps DEF NudgeFires, TypeOK
<1>10. ASSUME LapsedTold PROVE QueueInv'
  BY <1>10, LapsedToldKeeps
<1>11. ASSUME SaveTimerFires PROVE QueueInv'
  BY <1>11, SaveTimerKeeps
<1>12. ASSUME NEW landed \in BOOLEAN, WriteEnds(landed) PROVE QueueInv'
  BY <1>12, WriteEndsKeeps
<1>13. ASSUME SessionChanges PROVE QueueInv'
  BY <1>1, <1>13, AloneKeeps DEF SessionChanges, queueVars, TypeOK
<1>14. ASSUME Crash PROVE QueueInv'
  BY <1>14, CrashKeeps
<1>15. ASSUME Quit PROVE QueueInv'
  BY <1>15, QuitKeeps
<1>16. ASSUME Boot PROVE QueueInv'
  BY <1>16, BootKeeps
<1>17. ASSUME UNCHANGED vars PROVE QueueInv'
  BY <1>1, <1>17, AloneKeeps DEF vars, queueVars, TypeOK
<1> QED
  BY <1>2, <1>3, <1>4, <1>5, <1>6, <1>7, <1>8, <1>9, <1>10, <1>11, <1>12, <1>13, <1>14, <1>15,
     <1>16, <1>17 DEF Next

LEMMA QueueAlways == Spec => []QueueInv
  BY InitRight, NextKeeps, PTL DEF Spec

\* Every variable has its type, through any interleaving of enqueues, flushes, expiries,
\* crashes and restarts.
THEOREM TypeCorrect == Spec => []TypeOK
<1>1. QueueInv => TypeOK
  BY DEF QueueInv
<1> QED
  BY <1>1, QueueAlways, PTL

LEMMA AtMostOne ==
    ASSUME NEW S, \A x, y \in S : x = y
    PROVE  Cardinality(S) <= 1
<1>1. CASE S = {}
  BY <1>1, FS_EmptySet
<1>2. CASE S # {}
  <2>1. PICK x \in S : S = {x}
    BY <1>2
  <2> QED
    BY <2>1, FS_Singleton
<1> QED
  BY <1>1, <1>2

\* A message is in at most one place, once: no interleaving of a flush, an expiry, a
\* requeue and an enqueue that overtakes them takes the same entry twice.
THEOREM NeverTakenTwice == Spec => []InOnePlace
<1>1. ASSUME QueueInv PROVE InOnePlace
  <2>1. IsInjective(Waiting)
    BY <1>1, WaitingIs
  <2>2. ASSUME NEW m \in Msg
        PROVE  Cardinality({place \in {"list", "delivery", "report", "lapsed", "trace"} :
                  m \in CASE place = "list"     -> ToSet(Waiting)
                         [] place = "delivery" -> delivering
                         [] place = "report"   -> reporting
                         [] place = "lapsed"   -> ToSet(lapsed)
                         [] place = "trace"    -> Asking}) <= 1
    <3> DEFINE P == {place \in {"list", "delivery", "report", "lapsed", "trace"} :
                  m \in CASE place = "list"     -> ToSet(Waiting)
                         [] place = "delivery" -> delivering
                         [] place = "report"   -> reporting
                         [] place = "lapsed"   -> ToSet(lapsed)
                         [] place = "trace"    -> Asking}
    <3>1. /\ P \subseteq {"list", "delivery", "report", "lapsed", "trace"}
          /\ "list" \in P => m \in ToSet(Waiting)
          /\ "delivery" \in P => m \in delivering
          /\ "report" \in P => m \in reporting
          /\ "lapsed" \in P => m \in ToSet(lapsed)
          /\ "trace" \in P => m \in Asking
      OBVIOUS
    <3> HIDE DEF P
    <3>2. m \in ToSet(Waiting) => /\ m \notin delivering \cup reporting \cup ToSet(lapsed)
                                  /\ fate[m] \in Promised
      BY <1>1, WaitingRight
    <3>3. /\ m \in delivering => m \notin reporting \cup ToSet(lapsed)
          /\ m \in reporting => m \notin ToSet(lapsed)
          /\ m \in delivering \cup reporting \cup ToSet(lapsed) => fate[m] \in Promised
      BY <1>1 DEF QueueInv, TakenRight
    <3>4. m \in Asking => fate[m] \notin Promised
      BY <1>1 DEF QueueInv, AskingRight, Asking, Promised
    <3>5. \A x, y \in P : x = y
      BY <3>1, <3>2, <3>3, <3>4
    <3> QED
      BY <3>5, AtMostOne DEF P
  <2> QED
    BY <2>1, <2>2 DEF InOnePlace
<1> QED
  BY <1>1, QueueAlways, PTL

\* Every waiting message has its TTL timer armed, however often it was claimed, put back or
\* restored; the exception is one that was dropped and came back with its list.
THEOREM WaitingTimed == Spec => []WaitingIsTimed
<1>1. ASSUME QueueInv PROVE WaitingIsTimed
  BY <1>1, WaitingRight DEF WaitingIsTimed
<1> QED
  BY <1>1, QueueAlways, PTL

\* A settled file is the list: what a crash would bring back is what the queue holds.
THEOREM FileIsList == Spec => []FileFollows
<1>1. QueueInv => FileFollows
  BY DEF QueueInv, FileRight, FileFollows
<1> QED
  BY <1>1, QueueAlways, PTL

-------------------------------------------------------------------------------
(* What a step may do to a message's fate and place.                           *)

TellsOnce == up => \A m \in Msg : fate[m] \in Ends => fate'[m] = fate[m]

ClaimsRight == \A m \in restored : m \in delivering' \ delivering =>
                   m \notin Board /\ bound[m] # NoSession /\ session = bound[m]

Keeps == up /\ up' =>
           \A m \in Msg : {fate[m], fate'[m]} \subseteq Promised /\ Held(m) /\ ~Held(m)' =>
               \E n \in Asking : enqueuing[n] # here /\ enqueuing'[n] = NoList

LEMMA TurnSteps ==
    ASSUME QueueInv, NEW D \in SUBSET delivering, NEW told \in [D -> Ends],
           NEW refused \in SUBSET Msg, NEW claim \in SUBSET Msg, Turn(refused, claim, told),
           UNCHANGED <<reporting, lapsed>>
    PROVE  TellsOnce /\ ClaimsRight /\ Keeps
<1>1. /\ refused \cup claim \subseteq ToSet(Waiting)
      /\ ToSet(Waiting') = ToSet(Waiting) \ (refused \cup claim)
      /\ delivering' = (delivering \ D) \cup claim
      /\ fate' = [m \in Msg |-> IF m \in D THEN told[m]
                                ELSE IF m \in refused THEN "refused" ELSE fate[m]]
      /\ \A m \in claim : Verdict(m) = "deliver"
  BY DEF Turn
<1>2. \A m \in D \cup refused : m \in Msg /\ fate[m] \in Promised /\ fate'[m] \in Ends
  <2>1. \A m \in D : m \in Msg /\ fate[m] \in Promised
    BY DEF QueueInv, TakenRight, TypeOK
  <2>2. \A m \in refused : fate[m] \in Promised
    BY <1>1, WaitingRight
  <2> QED
    BY <1>1, <2>1, <2>2 DEF Ends
<1>3. \A m \in Msg : m \notin D \cup refused => fate'[m] = fate[m]
  BY <1>1
<1>4. Ends \cap Promised = {}
  BY DEF Ends, Promised
<1>5. TellsOnce
  BY <1>2, <1>3, <1>4 DEF TellsOnce
<1>6. ClaimsRight
  <2>1. ASSUME NEW m \in restored, m \in claim
        PROVE  m \notin Board /\ bound[m] # NoSession /\ session = bound[m]
    <3>1. m \notin Board
      BY <1>1, <2>1, WaitingRight
    <3>2. Verdict(m) = "deliver"
      BY <1>1, <2>1
    <3> QED
      BY <3>1, <3>2 DEF Verdict
  <2> QED
    BY <1>1, <2>1 DEF ClaimsRight
<1>7. Keeps
  BY <1>1, <1>2, <1>4 DEF Keeps, Held
<1> QED
  BY <1>5, <1>6, <1>7

LEMMA ReportsSteps ==
    ASSUME QueueInv, NEW E, Reports(E)
    PROVE  TellsOnce /\ ClaimsRight /\ Keeps
<1>1. /\ Waiting' = Waiting
      /\ \A m \in E : m \in Msg /\ fate[m] \in Promised /\ fate'[m] = "expired"
      /\ \A m \in Msg : m \notin E => fate'[m] = fate[m]
  BY ReportsFates DEF Reports
<1> QED
  BY <1>1 DEF TellsOnce, ClaimsRight, Keeps, Held, Reports, Ends, Promised

LEMMA AnswersSteps ==
    ASSUME QueueInv, NEW m \in Msg, EnqueueAnswers(m)
    PROVE  TellsOnce /\ ClaimsRight /\ Keeps
<1>1. /\ enqueuing[m] # NoList /\ here' = enqueuing[m]
      /\ lists' = [lists EXCEPT ![enqueuing[m]] = Append(lists[enqueuing[m]], m)]
      /\ enqueuing' = [enqueuing EXCEPT ![m] = NoList]
      /\ fate' = [n \in Msg |-> IF n = m THEN "queued"
                                ELSE IF enqueuing[m] # here /\ n \in ToSet(Waiting) THEN "dropped"
                                ELSE fate[n]]
      /\ UNCHANGED <<delivering, reporting, lapsed>>
  BY DEF EnqueueAnswers
<1>2. TypeOK /\ fate[m] = "asking" /\ m \in Asking /\ enqueuing[m] \in ListId
  BY <1>1 DEF QueueInv, AskingRight, Asking, TypeOK
<1>3. TellsOnce
  <2>1. \A n \in ToSet(Waiting) : fate[n] \in Promised
    BY WaitingRight
  <2> QED
    BY <1>1, <1>2, <2>1 DEF TellsOnce, Ends, Promised
<1>4. ClaimsRight
  BY <1>1 DEF ClaimsRight
<1>5. CASE enqueuing[m] = here
  <2>1. Waiting' = Append(Waiting, m) /\ Waiting \in Seq(Msg)
    BY <1>1, <1>2, <1>5 DEF Waiting, TypeOK
  <2>2. ToSet(Waiting') = ToSet(Waiting) \cup {m}
    BY <2>1, AppendList
  <2> QED
    BY <1>1, <1>3, <1>4, <2>2 DEF Keeps, Held
<1>6. CASE enqueuing[m] # here
  <2>1. enqueuing'[m] = NoList
    BY <1>1, <1>2 DEF TypeOK
  <2> QED
    BY <1>2, <1>3, <1>4, <1>6, <2>1 DEF Keeps
<1> QED
  BY <1>5, <1>6

LEMMA AsksSteps ==
    ASSUME QueueInv, NEW m \in Msg, EnqueueAsks(m)
    PROVE  TellsOnce /\ ClaimsRight /\ Keeps /\ Waiting' = Waiting
<1>1. /\ fate[m] = "new" /\ UNCHANGED <<here, delivering, reporting, lapsed>>
      /\ \A n \in Msg : n # m => fate'[n] = fate[n]
  BY DEF EnqueueAsks, QueueInv, TypeOK
<1>2. Waiting' = Waiting
  <2>1. CASE here = NoList
    BY <1>1, <2>1 DEF Waiting
  <2>2. CASE here # NoList
    <3>1. lists' = lists
      BY <2>2 DEF EnqueueAsks
    <3> QED
      BY <1>1, <3>1 DEF Waiting
  <2> QED
    BY <2>1, <2>2
<1> QED
  BY <1>1, <1>2 DEF TellsOnce, ClaimsRight, Keeps, Held, Ends, Promised

LEMMA NotReadySteps ==
    ASSUME QueueInv, NEW m \in Msg, NotReady(m)
    PROVE  /\ TellsOnce /\ ClaimsRight /\ Keeps
           /\ Waiting' = <<m>> \o Waiting /\ ToSet(Waiting') = ToSet(Waiting) \cup {m}
<1> DEFINE l == IF here = NoList THEN Fresh ELSE here
<1>1. /\ m \in delivering /\ delivering' = delivering \ {m}
      /\ lists' = [lists EXCEPT ![l] = <<m>> \o Waiting] /\ here' = l
      /\ UNCHANGED <<reporting, lapsed, fate>>
  BY DEF NotReady, Requeue
<1>2. TypeOK /\ l \in ListId /\ NoList \notin ListId
  BY FreshIs DEF QueueInv, TypeOK, NoList, ListId
<1> HIDE DEF l
<1>3. Waiting' = <<m>> \o Waiting
  BY <1>1, <1>2 DEF Waiting, TypeOK
<1>4. ToSet(Waiting') = ToSet(Waiting) \cup {m}
  BY <1>3, WaitingIs, FrontList
<1> QED
  BY <1>1, <1>3, <1>4 DEF TellsOnce, ClaimsRight, Keeps, Held

LEMMA TtlSteps ==
    ASSUME QueueInv, NEW m \in Msg, Expire(m)
    PROVE  /\ TellsOnce /\ ClaimsRight /\ Keeps
           /\ InOrder(Waiting', Waiting) /\ Waiting' \in Seq(Msg)
           /\ ToSet(Waiting') = ToSet(Waiting) \ {m}
<1>1. (\E i \in DOMAIN Waiting : Waiting[i] = m) <=> m \in ToSet(Waiting)
  BY DEF ToSet
<1>2. /\ reporting' = IF m \in ToSet(Waiting) THEN reporting \cup {m} ELSE reporting
      /\ m \in ToSet(Waiting) => HoldsNow(Unlist(Waiting, m), TRUE)
      /\ m \notin ToSet(Waiting) => UNCHANGED <<lists, here>>
      /\ UNCHANGED <<delivering, lapsed, fate>>
  BY <1>1 DEF Expire, ExpiresIfWaiting
<1>3. Waiting \in Seq(Msg) /\ IsInjective(Waiting) /\ (here = NoList => Waiting = << >>)
  BY WaitingIs
<1>4. /\ InOrder(Waiting', Waiting) /\ Waiting' \in Seq(Msg)
      /\ ToSet(Waiting') = ToSet(Waiting) \ {m}
  <2>1. CASE m \in ToSet(Waiting)
    <3>1. /\ Unlist(Waiting, m) \in Seq(Msg) /\ InOrder(Unlist(Waiting, m), Waiting)
          /\ ToSet(Unlist(Waiting, m)) = ToSet(Waiting) \ {m}
      BY <1>3, <2>1, UnlistIs
    <3>2. here # NoList
      BY <1>3, <2>1 DEF ToSet
    <3>3. Waiting' = Unlist(Waiting, m)
      BY <1>2, <2>1, <3>1, <3>2, HoldsNowIs
    <3> QED
      BY <3>1, <3>3
  <2>2. CASE m \notin ToSet(Waiting)
    <3>1. Waiting' = Waiting
      BY <1>2, <2>2 DEF Waiting
    <3>2. InOrder(Waiting, Waiting)
      BY DEF InOrder
    <3> QED
      BY <1>3, <2>2, <3>1, <3>2
  <2> QED
    BY <2>1, <2>2
<1> QED
  BY <1>2, <1>4 DEF TellsOnce, ClaimsRight, Keeps, Held

LEMMA AloneSteps ==
    ASSUME UNCHANGED <<lists, here, delivering, reporting, lapsed, fate>>
    PROVE  TellsOnce /\ ClaimsRight /\ Keeps /\ Waiting' = Waiting
<1>1. Waiting' = Waiting
  BY DEF Waiting
<1> QED
  BY <1>1 DEF TellsOnce, ClaimsRight, Keeps, Held

LEMMA GoneSteps ==
    ASSUME QueueInv, NEW disk, Gone(disk)
    PROVE  TellsOnce /\ ClaimsRight /\ Keeps
<1>1. /\ up' = FALSE /\ delivering' = {}
      /\ \A m \in Msg : fate'[m] = IF fate[m] = "asking" THEN "unanswered"
                          ELSE IF fate[m] \in Promised /\ m \notin ToSet(disk) THEN "lost"
                          ELSE fate[m]
  BY DEF Gone
<1> QED
  BY <1>1 DEF TellsOnce, ClaimsRight, Keeps, Ends, Promised

LEMMA NextSteps == QueueInv /\ [Next]_vars => TellsOnce /\ ClaimsRight /\ Keeps
<1> DEFINE G == TellsOnce /\ ClaimsRight /\ Keeps
<1> SUFFICES ASSUME QueueInv, [Next]_vars PROVE G
  OBVIOUS
<1>1. ASSUME NEW m \in Msg, EnqueueAsks(m) PROVE G
  BY <1>1, AsksSteps
<1>2. ASSUME NEW m \in Msg, EnqueueAnswers(m) PROVE G
  BY <1>2, AnswersSteps
<1>3. ASSUME NEW m \in Msg, NEW end \in {"landed", "refused"}, DeliveryEnds(m, end) PROVE G
  <2> PICK told : told = [n \in {m} |-> end]
    OBVIOUS
  <2>1. told \in [{m} -> Ends]
    BY ToldIs
  <2>2. /\ {m} \in SUBSET delivering /\ UNCHANGED <<reporting, lapsed>>
        /\ \E refused, claim \in SUBSET Msg : Turn(refused, claim, told)
    BY <1>3, DeliveryEndsTurns
  <2>3. PICK refused \in SUBSET Msg, claim \in SUBSET Msg : Turn(refused, claim, told)
    BY <2>2
  <2> QED
    BY <2>1, <2>2, <2>3, TurnSteps
<1>4. ASSUME NEW m \in Msg, NotReady(m) PROVE G
  BY <1>4, NotReadySteps
<1>5. ASSUME NEW m \in Msg, Expire(m) PROVE G
  BY <1>5, TtlSteps
<1>6. ASSUME NEW m \in Msg, ExpiryTold(m) PROVE G
  BY <1>6, ExpiryToldKeeps, ReportsSteps
<1>7. ASSUME TargetIdle \/ (NudgeFires /\ Waiting # << >>) PROVE G
  <2>1. Untold \in [{} -> Ends]
    BY ToldIs
  <2>2. PICK refused \in SUBSET Msg, claim \in SUBSET Msg : Turn(refused, claim, Untold)
    BY <1>7, TargetIdleTurns
  <2>3. {} \in SUBSET delivering /\ UNCHANGED <<reporting, lapsed>>
    BY <1>7, TargetIdleTurns
  <2> QED
    BY <2>1, <2>2, <2>3, TurnSteps
<1>8. ASSUME NudgeFires, Waiting = << >> PROVE G
  BY <1>8, AloneSteps DEF NudgeFires
<1>9. ASSUME LapsedTold PROVE G
  BY <1>9, LapsedToldKeeps, ReportsSteps
<1>10. ASSUME SaveTimerFires PROVE G
  BY <1>10, AloneSteps DEF SaveTimerFires, queueVars
<1>11. ASSUME NEW landed \in BOOLEAN, WriteEnds(landed) PROVE G
  BY <1>11, AloneSteps DEF WriteEnds, queueVars
<1>12. ASSUME SessionChanges PROVE G
  BY <1>12, AloneSteps DEF SessionChanges, queueVars
<1>13. ASSUME Crash PROVE G
  BY <1>13, GoneSteps DEF Crash
<1>14. ASSUME Quit PROVE G
  <2>1. PICK disk : Gone(disk)
    BY <1>14 DEF Quit
  <2> QED
    BY <2>1, GoneSteps
<1>15. ASSUME Boot PROVE G
  BY <1>15 DEF Boot, TellsOnce, ClaimsRight, Keeps
<1>16. ASSUME UNCHANGED vars PROVE G
  BY <1>16, AloneSteps DEF vars, queueVars
<1> QED
  BY <1>1, <1>2, <1>3, <1>4, <1>5, <1>6, <1>7, <1>8, <1>9, <1>10, <1>11, <1>12, <1>13, <1>14,
     <1>15, <1>16 DEF Next

\* One end per message and run: a flush and an expiry never both tell the sender, and no
\* end is taken back.
THEOREM EndsOnce == Spec => ToldOnce
<1>1. QueueInv /\ [Next]_vars => [up => \A m \in Msg : fate[m] \in Ends => fate'[m] = fate[m]]_vars
  BY NextSteps DEF TellsOnce
<1> QED
  BY <1>1, QueueAlways, PTL DEF Spec, ToldOnce

\* What came back from disk is taken up only for the session it was queued for, and a board
\* comment never is.
THEOREM SessionKept == Spec => RestoredKeepsSession
<1>1. QueueInv /\ [Next]_vars =>
          [\A m \in restored : m \in delivering' \ delivering =>
               m \notin Board /\ bound[m] # NoSession /\ session = bound[m]]_vars
  BY NextSteps DEF ClaimsRight
<1> QED
  BY <1>1, QueueAlways, PTL DEF Spec, RestoredKeepsSession

\* Nothing but an enqueue that overtakes the end of the list it had read takes a queued
\* message off without a delivery or a report.
THEOREM OnlyOvertaken == Spec => OnlyOvertakingDrops
<1>1. QueueInv /\ [Next]_vars =>
          [up /\ up' =>
             \A m \in Msg : {fate[m], fate'[m]} \subseteq Promised /\ Held(m) /\ ~Held(m)' =>
                 \E n \in Asking : enqueuing[n] # here /\ enqueuing'[n] = NoList]_vars
  BY NextSteps DEF Keeps
<1> QED
  BY <1>1, QueueAlways, PTL DEF Spec, OnlyOvertakingDrops

-------------------------------------------------------------------------------
(* The order of delivery, with one flush at a time.                            *)

\* The list and the delivery hold what they held, in the order it had.
LEMMA OrderThins ==
    ASSUME QueueInv, OrderRight, FatesGoOn, arrived' = arrived,
           NEW t \in Seq(Msg), Waiting' = t, InOrder(t, Waiting),
           \A m \in ToSet(Waiting') \cup delivering' : fate[m] = "dropped" => fate'[m] = "dropped",
           \A m, n \in delivering' : m = n,
           \A m \in delivering' : \/ m \in delivering
                                  \/ \E j \in DOMAIN Waiting : /\ Waiting[j] = m
                                      /\ \A i \in DOMAIN t : \E k \in DOMAIN Waiting :
                                             j < k /\ t[i] = Waiting[k]
    PROVE  OrderRight'
<1>1. \A m, n : Before(m, n)' <=> Before(m, n)
  BY DEF Before
<1>2. \A m \in ToSet(arrived') : fate'[m] \notin Untaken
  <2>1. arrived \in Seq(Msg)
    BY DEF QueueInv, TypeOK
  <2>2. \A m \in ToSet(arrived) : m \in Msg
    BY <2>1, LenProperties DEF ToSet
  <2> QED
    BY <2>2 DEF OrderRight, FatesGoOn
<1>3. \A i \in DOMAIN t : t[i] \in ToSet(Waiting')
  BY DEF ToSet
<1>4. ASSUME NEW i \in DOMAIN t, NEW j \in DOMAIN t, i < j, Kept(t[i])', Kept(t[j])'
      PROVE  Before(t[i], t[j])
  <2>1. PICK k, l \in DOMAIN Waiting : k < l /\ t[i] = Waiting[k] /\ t[j] = Waiting[l]
    BY <1>4 DEF InOrder
  <2>2. Kept(t[i]) /\ Kept(t[j])
    BY <1>3, <1>4 DEF Kept
  <2> QED
    BY <2>1, <2>2 DEF OrderRight
<1>5. ASSUME NEW m \in delivering', NEW n \in ToSet(Waiting'), Kept(m)', Kept(n)'
      PROVE  Before(m, n)
  <2>1. PICK i \in DOMAIN t : t[i] = n
    BY DEF ToSet
  <2>2. Kept(m) /\ Kept(n)
    BY <1>5 DEF Kept
  <2>3. CASE m \in delivering
    <3>1. n \in ToSet(Waiting)
      <4>1. PICK k \in DOMAIN Waiting : t[i] = Waiting[k]
        BY DEF InOrder
      <4> QED
        BY <2>1, <4>1 DEF ToSet
    <3> QED
      BY <2>2, <2>3, <3>1 DEF OrderRight
  <2>4. CASE m \notin delivering
    <3>1. PICK j \in DOMAIN Waiting : /\ Waiting[j] = m
              /\ \A h \in DOMAIN t : \E k \in DOMAIN Waiting : j < k /\ t[h] = Waiting[k]
      BY <2>4
    <3>2. PICK k \in DOMAIN Waiting : j < k /\ t[i] = Waiting[k]
      BY <3>1
    <3> QED
      BY <2>1, <2>2, <3>1, <3>2 DEF OrderRight
  <2> QED
    BY <2>3, <2>4
<1>6. \A i, j \in DOMAIN Waiting' :
          i < j /\ Kept(Waiting[i])' /\ Kept(Waiting[j])' => Before(Waiting[i], Waiting[j])'
  BY <1>1, <1>4
<1>7. \A m \in delivering' : \A n \in ToSet(Waiting') : Kept(m)' /\ Kept(n)' => Before(m, n)'
  BY <1>1, <1>5
<1>8. IsInjective(arrived')
  BY DEF OrderRight
<1> QED
  BY <1>2, <1>6, <1>7, <1>8 DEF OrderRight

\* ... in particular when neither changes.
LEMMA OrderStays ==
    ASSUME QueueInv, OrderRight, FatesGoOn, Waiting' = Waiting,
           UNCHANGED <<delivering, arrived>>,
           \A m \in ToSet(Waiting) \cup delivering : fate[m] = "dropped" => fate'[m] = "dropped"
    PROVE  OrderRight'
<1>1. InOrder(Waiting, Waiting)
  BY DEF InOrder
<1>2. Waiting \in Seq(Msg)
  BY WaitingIs
<1>3. \A m, n \in delivering' : m = n
  BY DEF OrderRight
<1>4. \A m \in delivering' : m \in delivering
  OBVIOUS
<1>5. \A m \in ToSet(Waiting') \cup delivering' : fate[m] = "dropped" => fate'[m] = "dropped"
  OBVIOUS
<1> QED
  BY <1>1, <1>2, <1>3, <1>4, <1>5, OrderThins

LEMMA TurnOrders ==
    ASSUME QueueInv, OrderRight, NEW D \in SUBSET delivering, NEW told \in [D -> Ends],
           delivering \subseteq D,
           NEW refused \in SUBSET Msg, NEW claim \in SUBSET Msg, Turn(refused, claim, told),
           arrived' = arrived
    PROVE  OrderRight'
<1>1. /\ refused \cap claim = {} /\ refused \cup claim \subseteq ToSet(Waiting)
      /\ \A m, n \in claim : m = n
      /\ \A m \in claim : \E j \in DOMAIN Waiting :
             /\ Waiting[j] = m
             /\ \A i \in DOMAIN Waiting' : \E k \in DOMAIN Waiting :
                    j < k /\ Waiting'[i] = Waiting[k]
      /\ Waiting' \in Seq(Msg) /\ InOrder(Waiting', Waiting)
      /\ ToSet(Waiting') = ToSet(Waiting) \ (refused \cup claim)
      /\ delivering' = claim
      /\ fate' = [m \in Msg |-> IF m \in D THEN told[m]
                                ELSE IF m \in refused THEN "refused" ELSE fate[m]]
  BY DEF Turn
<1>2. \A m \in D \cup refused : m \in Msg /\ fate[m] \in Promised /\ fate'[m] \in Ends
  <2>1. \A m \in D : m \in Msg /\ fate[m] \in Promised
    BY DEF QueueInv, TakenRight, TypeOK
  <2>2. \A m \in refused : fate[m] \in Promised
    BY <1>1, WaitingRight
  <2> QED
    BY <1>1, <2>1, <2>2 DEF Ends
<1>3. \A m \in Msg : m \notin D \cup refused => fate'[m] = fate[m]
  BY <1>1
<1>4. FatesGoOn
  BY <1>2, <1>3 DEF FatesGoOn, Untaken, Ends
<1>5. \A m \in ToSet(Waiting') \cup delivering' : fate'[m] = fate[m]
  <2>1. \A m \in ToSet(Waiting) : m \in Msg /\ m \notin D
    BY WaitingRight
  <2> QED
    BY <1>1, <1>3, <2>1
<1> PICK t \in Seq(Msg) : t = Waiting'
  BY <1>1
<1>6. InOrder(t, Waiting) /\ Waiting' = t
  BY <1>1
<1>7. \A m \in delivering' : \E j \in DOMAIN Waiting :
             /\ Waiting[j] = m
             /\ \A i \in DOMAIN t : \E k \in DOMAIN Waiting : j < k /\ t[i] = Waiting[k]
  BY <1>1
<1>8. \A m, n \in delivering' : m = n
  BY <1>1
<1> QED
  BY <1>4, <1>5, <1>6, <1>7, <1>8, OrderThins

LEMMA AnswersOrders ==
    ASSUME QueueInv, OrderRight, NEW m \in Msg, EnqueueAnswers(m)
    PROVE  OrderRight'
<1> PICK l : l = enqueuing[m]
  OBVIOUS
<1> PICK q : q = Append(lists[l], m)
  OBVIOUS
<1>1. /\ l # NoList /\ here' = l
      /\ lists' = [lists EXCEPT ![l] = q]
      /\ fate' = [n \in Msg |-> IF n = m THEN "queued"
                                ELSE IF l # here /\ n \in ToSet(Waiting) THEN "dropped"
                                ELSE fate[n]]
      /\ arrived' = Append(arrived, m) /\ delivering' = delivering
  BY DEF EnqueueAnswers
<1>2. TypeOK /\ l \in ListId /\ lists[l] \in Seq(Msg) /\ fate[m] = "asking"
  BY <1>1 DEF QueueInv, AskingRight, TypeOK
<1>3. /\ arrived \in Seq(Msg) /\ DOMAIN arrived = 1 .. Len(arrived) /\ Len(arrived) \in Nat
      /\ DOMAIN arrived' = 1 .. Len(arrived) + 1 /\ arrived'[Len(arrived) + 1] = m
      /\ \A a \in DOMAIN arrived : arrived'[a] = arrived[a]
  BY <1>1, <1>2, LenProperties, AppendProperties DEF TypeOK
<1>4. /\ lists[l] \in Seq(Msg) /\ DOMAIN q = 1 .. Len(lists[l]) + 1 /\ Len(lists[l]) \in Nat
      /\ DOMAIN lists[l] = 1 .. Len(lists[l]) /\ q[Len(lists[l]) + 1] = m
      /\ \A i \in DOMAIN lists[l] : q[i] = lists[l][i] /\ q[i] \in ToSet(lists[l])
      /\ q \in Seq(Msg)
  BY <1>2, LenProperties, AppendProperties DEF ToSet
<1>5. Waiting' = q
  BY <1>1, <1>2 DEF Waiting, TypeOK
<1>6. m \notin ToSet(arrived) /\ m \notin ToSet(lists[l]) /\ m \notin delivering
  BY <1>2 DEF OrderRight, QueueInv, ListsRight, ListedRight, TakenRight, Untaken, Promised
<1>7. \A x : x # m => Before(x, m)'
  <2>1. ASSUME NEW x, x # m, NEW a \in DOMAIN arrived', NEW b \in DOMAIN arrived',
               arrived'[a] = x, arrived'[b] = m
        PROVE  a < b
    <3>1. a \in 1 .. Len(arrived)
      BY <1>3, <2>1
    <3>2. b \notin DOMAIN arrived
      BY <1>3, <1>6, <2>1 DEF ToSet
    <3> QED
      BY <1>3, <3>1, <3>2
  <2> QED
    BY <2>1 DEF Before
<1>8. \A x, y : x # m /\ y # m /\ Before(x, y) => Before(x, y)'
  <2>1. \A a \in DOMAIN arrived' : arrived'[a] # m => a \in DOMAIN arrived /\ arrived'[a] = arrived[a]
    BY <1>3
  <2> QED
    BY <2>1 DEF Before
<1>9. IsInjective(arrived')
  BY <1>1, <1>3, <1>6, AppendList DEF OrderRight
<1>10. \A n \in ToSet(arrived') : fate'[n] \notin Untaken
  <2>1. ToSet(arrived') = ToSet(arrived) \cup {m}
    BY <1>1, <1>3, AppendList
  <2>2. \A n \in ToSet(arrived) : n \in Msg /\ fate[n] \notin Untaken
    BY <1>3 DEF OrderRight, ToSet
  <2> QED
    BY <1>1, <2>1, <2>2 DEF Untaken
<1>11. \A n \in Msg : n # m /\ Kept(n)' => Kept(n)
  BY <1>1 DEF Kept
<1>12. \A i \in DOMAIN lists[l] : /\ q[i] \in Msg /\ q[i] # m
                                  /\ Kept(q[i])' => l = here /\ Kept(q[i])
  <2>1. ASSUME NEW i \in DOMAIN lists[l] PROVE q[i] \in Msg /\ q[i] # m
    BY <1>4, <1>6, <2>1, ElementOfSeq
  <2>2. ASSUME NEW i \in DOMAIN lists[l], l # here PROVE fate[q[i]] = "dropped"
    BY <1>2, <1>4, <2>2 DEF QueueInv, ListsRight, ListedRight
  <2> QED
    BY <1>11, <2>1, <2>2 DEF Kept
<1>13. ASSUME NEW i \in DOMAIN q, NEW j \in DOMAIN q, i < j, Kept(q[i])', Kept(q[j])'
       PROVE  Before(q[i], q[j])'
  <2>1. i \in DOMAIN lists[l] /\ q[i] = lists[l][i] /\ q[i] # m
    BY <1>4, <1>12, <1>13
  <2>2. l = here /\ Kept(q[i]) /\ Waiting = lists[l]
    BY <1>1, <1>12, <1>13, <2>1 DEF Waiting
  <2>3. CASE q[j] = m
    BY <1>7, <2>1, <2>3
  <2>4. CASE q[j] # m
    <3>1. j \in DOMAIN lists[l] /\ q[j] = lists[l][j]
      BY <1>4, <2>4
    <3>2. Kept(q[j])
      BY <1>12, <1>13, <3>1
    <3>3. Before(q[i], q[j])
      BY <1>13, <2>1, <2>2, <3>1, <3>2 DEF OrderRight
    <3> QED
      BY <1>8, <2>1, <2>4, <3>3
  <2> QED
    BY <2>3, <2>4
<1>14. ASSUME NEW x \in delivering, NEW n \in ToSet(q), Kept(x)', Kept(n)'
       PROVE  Before(x, n)'
  <2>1. x \in Msg /\ x # m /\ Kept(x)
    BY <1>2, <1>6, <1>11, <1>14 DEF TypeOK
  <2>2. CASE n = m
    BY <1>7, <2>1, <2>2
  <2>3. CASE n # m
    <3>1. PICK i \in DOMAIN lists[l] : n = q[i] /\ n = lists[l][i]
      <4>1. PICK i \in DOMAIN q : n = q[i]
        BY DEF ToSet
      <4> QED
        BY <1>4, <2>3, <4>1
    <3>2. l = here /\ Kept(n)
      BY <1>12, <1>14, <3>1
    <3>3. n \in ToSet(Waiting)
      BY <1>1, <3>1, <3>2 DEF Waiting, ToSet
    <3> QED
      BY <1>8, <2>1, <2>3, <3>2, <3>3 DEF OrderRight
  <2> QED
    BY <2>2, <2>3
<1>15. \A x, n \in delivering' : x = n
  BY <1>1 DEF OrderRight
<1>16. \A i, j \in DOMAIN Waiting' :
           i < j /\ Kept(Waiting[i])' /\ Kept(Waiting[j])' => Before(Waiting[i], Waiting[j])'
  BY <1>5, <1>13
<1>17. \A x \in delivering' : \A n \in ToSet(Waiting') : Kept(x)' /\ Kept(n)' => Before(x, n)'
  BY <1>1, <1>5, <1>14
<1> QED
  BY <1>9, <1>10, <1>15, <1>16, <1>17 DEF OrderRight

LEMMA NotReadyOrders ==
    ASSUME QueueInv, OrderRight, NEW m \in Msg, NotReady(m)
    PROVE  OrderRight'
<1>1. m \in delivering /\ delivering' = delivering \ {m} /\ UNCHANGED <<arrived, fate>>
  BY DEF NotReady
<1>2. Waiting' = <<m>> \o Waiting
  BY NotReadySteps
<1>3. Waiting \in Seq(Msg) /\ DOMAIN Waiting = 1 .. Len(Waiting) /\ Len(Waiting) \in Nat
  BY WaitingIs
<1> PICK t : t = Waiting'
  OBVIOUS
<1>4. /\ t[1] = m /\ DOMAIN t = 1 .. Len(Waiting) + 1
      /\ \A i \in 1 .. Len(Waiting) : t[i + 1] = Waiting[i]
  BY <1>2, <1>3, FrontList
<1>5. delivering' = {}
  BY <1>1 DEF OrderRight
<1>6. ASSUME NEW i \in DOMAIN t, NEW j \in DOMAIN t, i < j, Kept(t[i]), Kept(t[j])
      PROVE  Before(t[i], t[j])
  <2>1. j - 1 \in DOMAIN Waiting /\ t[j] = Waiting[j - 1]
    <3>1. j - 1 \in 1 .. Len(Waiting) /\ (j - 1) + 1 = j
      BY <1>3, <1>4, <1>6
    <3> QED
      BY <1>3, <1>4, <3>1
  <2>2. CASE i = 1
    BY <1>1, <1>4, <1>6, <2>1, <2>2 DEF OrderRight, ToSet
  <2>3. CASE i # 1
    <3>1. i - 1 \in 1 .. Len(Waiting) /\ (i - 1) + 1 = i /\ i - 1 < j - 1
      BY <1>3, <1>4, <1>6, <2>3
    <3>2. t[i] = Waiting[i - 1] /\ i - 1 \in DOMAIN Waiting
      BY <1>3, <1>4, <3>1
    <3> QED
      BY <1>6, <2>1, <3>1, <3>2 DEF OrderRight
  <2> QED
    BY <2>2, <2>3
<1>7. \A x, y : (Before(x, y)' <=> Before(x, y)) /\ (Kept(x)' <=> Kept(x))
  BY <1>1 DEF Before, Kept
<1>8. \A i, j \in DOMAIN Waiting' :
          i < j /\ Kept(Waiting[i])' /\ Kept(Waiting[j])' => Before(Waiting[i], Waiting[j])'
  BY <1>6, <1>7
<1> QED
  BY <1>1, <1>5, <1>8 DEF OrderRight

LEMMA GoneOrders ==
    ASSUME QueueInv, OrderRight, NEW disk, Gone(disk)
    PROVE  OrderRight'
<1>1. /\ here' = NoList /\ delivering' = {} /\ arrived' = arrived
      /\ \A m \in Msg : fate'[m] = IF fate[m] = "asking" THEN "unanswered"
                          ELSE IF fate[m] \in Promised /\ m \notin ToSet(disk) THEN "lost"
                          ELSE fate[m]
  BY DEF Gone
<1>2. Waiting' = << >> /\ DOMAIN << >> = {}
  BY <1>1 DEF Waiting
<1>3. \A m \in ToSet(arrived) : m \in Msg /\ fate[m] \notin Untaken
  <2>1. arrived \in Seq(Msg)
    BY DEF QueueInv, TypeOK
  <2> QED
    BY <2>1, LenProperties DEF OrderRight, ToSet
<1>4. \A m \in ToSet(arrived') : fate'[m] \notin Untaken
  BY <1>1, <1>3 DEF Untaken, Promised
<1> QED
  BY <1>1, <1>2, <1>4 DEF OrderRight

LEMMA BootOrders ==
    ASSUME QueueInv, Boot
    PROVE  OrderRight'
<1> PICK disk : disk = file.disk
  OBVIOUS
<1>1. disk \in Seq(Msg) /\ IsInjective(disk) /\ DOMAIN disk = 1 .. Len(disk)
  BY LenProperties DEF QueueInv, TypeOK, FactFile, FileRight, SnapshotRight
<1>2. PICK back \in Seq(Msg), rest \in Seq(Msg) : Restores(back, rest)
  BY BootIs
<1>3. /\ arrived' = disk /\ delivering' = {}
      /\ \A m \in Msg : fate'[m] = IF m \in ToSet(disk) THEN "queued" ELSE fate[m]
  BY DEF Boot, QueueInv, DownRight
<1>4. InOrder(back, disk)
  BY <1>2 DEF Restores
<1>5. Waiting' = back
  <2>1. 1 \in ListId /\ 1 # NoList
    BY QueueAssumption DEF ListId, NoList
  <2>2. lists' = [lists EXCEPT ![1] = back] /\ here' = IF back = << >> THEN NoList ELSE 1
    BY <1>2 DEF Restores
  <2>3. lists'[1] = back
    BY <2>1, <2>2 DEF QueueInv, TypeOK
  <2> QED
    BY <2>1, <2>2, <2>3 DEF Waiting
<1>6. ASSUME NEW i \in DOMAIN back, NEW j \in DOMAIN back, i < j
      PROVE  Before(back[i], back[j])'
  <2>1. PICK a, b \in DOMAIN disk : a < b /\ back[i] = disk[a] /\ back[j] = disk[b]
    BY <1>4, <1>6 DEF InOrder
  <2>2. \A c \in DOMAIN disk : (disk[c] = disk[a] => c = a) /\ (disk[c] = disk[b] => c = b)
    BY <1>1 DEF IsInjective
  <2> QED
    BY <1>3, <2>1, <2>2 DEF Before
<1>7. \A m \in ToSet(disk) : m \in Msg
  BY <1>1 DEF ToSet
<1>8. \A m \in ToSet(arrived') : fate'[m] \notin Untaken
  BY <1>3, <1>7 DEF Untaken
<1>9. \A i, j \in DOMAIN Waiting' :
          i < j /\ Kept(Waiting[i])' /\ Kept(Waiting[j])' => Before(Waiting[i], Waiting[j])'
  BY <1>5, <1>6
<1> QED
  BY <1>1, <1>3, <1>8, <1>9 DEF OrderRight

LEMMA ReportsOrder ==
    ASSUME QueueInv, OrderRight, NEW E, Reports(E)
    PROVE  OrderRight'
<1>1. /\ FatesGoOn /\ Waiting' = Waiting
      /\ \A m \in Msg : m \notin E => fate'[m] = fate[m]
  BY ReportsFates
<1>2. \A m \in ToSet(Waiting) \cup delivering : m \notin E /\ m \in Msg
  <2>1. E \subseteq reporting \cup ToSet(lapsed)
    BY DEF Reports
  <2> QED
    BY <2>1, WaitingRight DEF QueueInv, TakenRight, TypeOK
<1> QED
  BY <1>1, <1>2, OrderStays DEF Reports

\* With one flush at a time, a flush that starts has no delivery under way.
LEMMA NoneDelivering ==
    ASSUME OrderRight, Cardinality(delivering) < 1
    PROVE  delivering = {}
<1>1. SUFFICES ASSUME NEW m \in delivering PROVE FALSE
  OBVIOUS
<1>2. delivering = {m}
  BY DEF OrderRight
<1> QED
  BY <1>2, FS_Singleton

LEMMA NextOrders ==
    ASSUME MaxFlushing = 1
    PROVE  QueueInv /\ OrderRight /\ [Next]_vars => OrderRight'
<1> SUFFICES ASSUME QueueInv, OrderRight, [Next]_vars PROVE OrderRight'
  OBVIOUS
<1>1. ASSUME NEW m \in Msg, EnqueueAsks(m) PROVE OrderRight'
  <2>1. /\ fate[m] = "new" /\ UNCHANGED <<delivering, arrived>>
        /\ \A n \in Msg : n # m => fate'[n] = fate[n]
    BY <1>1 DEF EnqueueAsks, QueueInv, TypeOK
  <2>2. FatesGoOn
    BY <2>1 DEF FatesGoOn, Untaken
  <2>3. Waiting' = Waiting
    BY <1>1, AsksSteps
  <2>4. \A n \in ToSet(Waiting) \cup delivering : n \in Msg
    BY WaitingRight DEF QueueInv, TypeOK
  <2> QED
    BY <2>1, <2>2, <2>3, <2>4, OrderStays
<1>2. ASSUME NEW m \in Msg, EnqueueAnswers(m) PROVE OrderRight'
  BY <1>2, AnswersOrders
<1>3. ASSUME NEW m \in Msg, NEW end \in {"landed", "refused"}, DeliveryEnds(m, end)
      PROVE  OrderRight'
  <2> PICK told : told = [n \in {m} |-> end]
    OBVIOUS
  <2>1. told \in [{m} -> Ends]
    BY ToldIs
  <2>2. /\ {m} \in SUBSET delivering /\ arrived' = arrived
        /\ \E refused, claim \in SUBSET Msg : Turn(refused, claim, told)
    BY <1>3, DeliveryEndsTurns
  <2>3. PICK refused \in SUBSET Msg, claim \in SUBSET Msg : Turn(refused, claim, told)
    BY <2>2
  <2>4. delivering \subseteq {m}
    BY <2>2 DEF OrderRight
  <2> QED
    BY <2>1, <2>2, <2>3, <2>4, TurnOrders
<1>4. ASSUME NEW m \in Msg, NotReady(m) PROVE OrderRight'
  BY <1>4, NotReadyOrders
<1>5. ASSUME NEW m \in Msg, Expire(m) PROVE OrderRight'
  <2>1. UNCHANGED <<delivering, arrived, fate>>
    BY <1>5 DEF Expire
  <2>2. InOrder(Waiting', Waiting) /\ Waiting' \in Seq(Msg)
    BY <1>5, TtlSteps
  <2> PICK t \in Seq(Msg) : Waiting' = t /\ InOrder(t, Waiting)
    BY <2>2
  <2>3. FatesGoOn
    BY <2>1 DEF FatesGoOn
  <2>4. \A m1, n \in delivering' : m1 = n
    BY <2>1 DEF OrderRight
  <2> QED
    BY <2>1, <2>3, <2>4, OrderThins
<1>6. ASSUME NEW m \in Msg, ExpiryTold(m) PROVE OrderRight'
  BY <1>6, ExpiryToldKeeps, ReportsOrder
<1>7. ASSUME TargetIdle \/ (NudgeFires /\ Waiting # << >>) PROVE OrderRight'
  <2>1. Untold \in [{} -> Ends]
    BY ToldIs
  <2>2. PICK refused \in SUBSET Msg, claim \in SUBSET Msg : Turn(refused, claim, Untold)
    BY <1>7, TargetIdleTurns
  <2>3. arrived' = arrived /\ Cardinality(delivering) < 1
    BY <1>7, TargetIdleTurns
  <2>4. {} \in SUBSET delivering /\ delivering \subseteq {}
    BY <2>3, NoneDelivering
  <2> QED
    BY <2>1, <2>2, <2>3, <2>4, TurnOrders
<1>8. ASSUME UNCHANGED <<lists, here, delivering, arrived, fate>> PROVE OrderRight'
  <2>1. Waiting' = Waiting /\ FatesGoOn
    BY <1>8 DEF Waiting, FatesGoOn
  <2> QED
    BY <1>8, <2>1, OrderStays
<1>9. ASSUME NudgeFires, Waiting = << >> PROVE OrderRight'
  BY <1>8, <1>9 DEF NudgeFires
<1>10. ASSUME LapsedTold PROVE OrderRight'
  BY <1>10, LapsedToldKeeps, ReportsOrder
<1>11. ASSUME SaveTimerFires PROVE OrderRight'
  BY <1>8, <1>11 DEF SaveTimerFires, queueVars
<1>12. ASSUME NEW landed \in BOOLEAN, WriteEnds(landed) PROVE OrderRight'
  BY <1>8, <1>12 DEF WriteEnds, queueVars
<1>13. ASSUME SessionChanges PROVE OrderRight'
  BY <1>8, <1>13 DEF SessionChanges, queueVars
<1>14. ASSUME Crash PROVE OrderRight'
  BY <1>14, GoneOrders DEF Crash
<1>15. ASSUME Quit PROVE OrderRight'
  <2>1. PICK disk : Gone(disk)
    BY <1>15 DEF Quit
  <2> QED
    BY <2>1, GoneOrders
<1>16. ASSUME Boot PROVE OrderRight'
  BY <1>16, BootOrders
<1>17. ASSUME UNCHANGED vars PROVE OrderRight'
  BY <1>8, <1>17 DEF vars, queueVars
<1> QED
  BY <1>1, <1>2, <1>3, <1>4, <1>5, <1>6, <1>7, <1>9, <1>10, <1>11, <1>12, <1>13, <1>14, <1>15,
     <1>16, <1>17 DEF Next

\* What is typed is ahead of whatever is still queued.
OlderFirst ==
    up' => \A i, j \in DOMAIN arrived :
               /\ typed'[arrived[j]] > typed[arrived[j]]
               /\ i < j
               /\ "dropped" \notin {fate[arrived[i]], fate[arrived[j]]}
               => arrived[i] \notin ToSet(Waiting) \cup delivering

LEMMA NextTypes == QueueInv /\ OrderRight /\ [Next]_vars => OlderFirst
<1> SUFFICES ASSUME QueueInv, OrderRight, [Next]_vars PROVE OlderFirst
  OBVIOUS
<1>1. typed \in [Msg -> Nat] /\ arrived \in Seq(Msg)
  BY DEF QueueInv, TypeOK
<1>2. \A i \in DOMAIN arrived : arrived[i] \in Msg /\ i \in Nat
  BY <1>1, LenProperties
<1>3. ASSUME typed' = typed PROVE OlderFirst
  BY <1>1, <1>2, <1>3 DEF OlderFirst
<1>4. ASSUME NEW m \in Msg, NEW end \in {"landed", "refused"}, DeliveryEnds(m, end)
      PROVE  OlderFirst
  <2>1. m \in delivering /\ \A n \in Msg : n # m => typed'[n] = typed[n]
    BY <1>4, DeliveryEndsTurns
  <2>2. ASSUME NEW i \in DOMAIN arrived, NEW j \in DOMAIN arrived, i < j,
               typed'[arrived[j]] > typed[arrived[j]],
               Kept(arrived[i]), Kept(arrived[j]),
               arrived[i] \in ToSet(Waiting) \cup delivering
        PROVE  FALSE
    <3>1. arrived[j] = m
      BY <1>1, <1>2, <2>1, <2>2
    <3>2. CASE arrived[i] \in delivering
      <4>1. arrived[i] = arrived[j]
        BY <2>1, <3>1, <3>2 DEF OrderRight
      <4> QED
        BY <1>2, <2>2, <4>1 DEF OrderRight, IsInjective
    <3>3. CASE arrived[i] \in ToSet(Waiting)
      <4>1. Before(arrived[j], arrived[i])
        BY <2>1, <2>2, <3>1, <3>3 DEF OrderRight
      <4>2. j < i
        BY <4>1 DEF Before
      <4> QED
        BY <1>2, <2>2, <4>2
    <3> QED
      BY <2>2, <3>2, <3>3
  <2> QED
    BY <2>2 DEF OlderFirst, Kept
<1>5. ASSUME NEW disk, Gone(disk) PROVE OlderFirst
  BY <1>5 DEF Gone, OlderFirst
<1> QED
  BY <1>3, <1>4, <1>5 DEF Next, vars, EnqueueAsks, EnqueueAnswers, NotReady, Expire, ExpiryTold,
     TargetIdle, NudgeFires, LapsedTold, SaveTimerFires, WriteEnds, SessionChanges, Crash, Quit, Boot

\* "flush its queue, oldest first", "at the FRONT, preserving order": while flushes do not
\* overlap, a message is not typed while one that came before it is still queued, whatever
\* is enqueued, put back, expired, saved or restored in between.
THEOREM OldestTypedFirst ==
    ASSUME MaxFlushing = 1
    PROVE  Spec => OldestFirst
<1>1. Init => OrderRight
  <2>1. ASSUME Init PROVE OrderRight
    <3>1. Waiting = << >> /\ arrived = << >> /\ delivering = {} /\ DOMAIN << >> = {}
      BY <2>1 DEF Init, Waiting
    <3> QED
      BY <3>1 DEF OrderRight, IsInjective, ToSet
  <2> QED
    BY <2>1
<1>2. QueueInv /\ OrderRight /\ [Next]_vars => OrderRight'
  BY NextOrders
<1>3. QueueInv /\ OrderRight /\ [Next]_vars =>
          [up' => \A i, j \in DOMAIN arrived :
                      /\ typed'[arrived[j]] > typed[arrived[j]]
                      /\ i < j
                      /\ "dropped" \notin {fate[arrived[i]], fate[arrived[j]]}
                      => arrived[i] \notin ToSet(Waiting) \cup delivering]_vars
  BY NextTypes DEF OlderFirst
<1> QED
  BY <1>1, <1>2, <1>3, QueueAlways, PTL DEF Spec, OldestFirst
===============================================================================
