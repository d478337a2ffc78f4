----------------------------- MODULE DeliveryQueue -----------------------------
(* Deliver-on-idle: one target's queue of messages (core/agents/delivery-queue.ts)
   with its durable file (DurableFact), through crashes and restarts.

   `queues` is a Map from target to a list; targets share nothing but the file, so
   one target is modelled.  The list is an object: `enqueue` reads it before it
   awaits the trace and pushes to it afterwards, while a flush or an expiry may have
   removed it from the map, so lists have identities and `here` says which one the
   map holds.  A list nobody refers to any more is garbage.

   What a delivery does (agent-messaging.ts runDelivery) is one of three outcomes:
   typed into the pane, refused for good, or not ready (REQUEUE_ON).               *)
EXTENDS DurableFact, Filtering, Integers, FiniteSets, SequencesExt

CONSTANTS Msg,              \* messages addressed to the target, each sent once
          Board,            \* those a restart may only expire: board comments,
                            \* station notices, bodies too large to store
          Session,          \* the target's sessions
          NoSession,        \* no session known
          Capacity,         \* DELIVERY_QUEUE_CAPACITY
          MaxEnqueuing,     \* bound on enqueues awaiting their trace at once
          MaxFlushing,      \* bound on flushes awaiting their delivery at once
          MaxExits          \* bound on crashes and quits

ASSUME QueueAssumption == /\ Board \subseteq Msg
                          /\ NoSession \notin Session
                          /\ Capacity \in Nat \ {0}
                          /\ MaxEnqueuing \in Nat
                          /\ MaxFlushing \in Nat
                          /\ MaxExits \in Nat

ListId == 1 .. MaxEnqueuing + 1
NoList == 0

\* What the sender has been told: `asking` awaits enqueue's answer, `unanswered` never
\* got it, and the ends.  Two are history: `dropped` was queued on a list that another
\* has since replaced in the map, `lost` was queued and not on disk at an exit.
Ends     == {"landed", "refused", "expired"}
Promised == {"queued", "dropped"}
Fate     == {"new", "asking", "unanswered", "full", "lost"} \cup Promised \cup Ends

VARIABLES up,               \* the process runs
          lists,            \* list objects
          here,             \* the list the map holds
          enqueuing,        \* the list each enqueue under way has read
          armed,            \* messages whose TTL timer is armed
          delivering,       \* messages taken off for a delivery under way
          reporting,        \* messages expired, their expiry not yet reported
          lapsed,           \* entries restore found undeliverable and must report
          restored,         \* entries that came back from disk
          bound,            \* the session each message was queued for
          session,          \* the target's session now
          nudge,            \* retryAfter's timer is armed
          file,             \* the durable file
          fate,             \* what each sender has been told
          typed,            \* history: how often each message was typed into the pane
          arrived,          \* history: messages in the order enqueue took them
          exits

queueVars == <<lists, here, enqueuing, armed, delivering, reporting, lapsed, nudge>>
vars == <<up, queueVars, restored, bound, session, file, fate, typed, arrived, exits>>

TypeOK == /\ up \in BOOLEAN
          /\ lists \in [ListId -> Seq(Msg)]
          /\ here \in ListId \cup {NoList}
          /\ enqueuing \in [Msg -> ListId \cup {NoList}]
          /\ armed \subseteq Msg /\ delivering \subseteq Msg /\ reporting \subseteq Msg
          /\ lapsed \in Seq(Msg)
          /\ restored \subseteq Msg
          /\ bound \in [Msg -> Session \cup {NoSession}]
          /\ session \in Session \cup {NoSession}
          /\ nudge \in BOOLEAN
          /\ file \in FactFile(Msg)
          /\ fate \in [Msg -> Fate]
          /\ typed \in [Msg -> Nat]
          /\ arrived \in Seq(Msg)
          /\ exits \in 0 .. MaxExits

Init == /\ up = TRUE
        /\ lists = [l \in ListId |-> << >>]
        /\ here = NoList
        /\ enqueuing = [m \in Msg |-> NoList]
        /\ armed = {} /\ delivering = {} /\ reporting = {}
        /\ lapsed = << >>
        /\ restored = {}
        /\ bound = [m \in Msg |-> NoSession]
        /\ session \in Session \cup {NoSession}
        /\ nudge = FALSE
        /\ file = NewFile(<< >>)
        /\ fate = [m \in Msg |-> "new"]
        /\ typed = [m \in Msg |-> 0]
        /\ arrived = << >>
        /\ exits = 0

-------------------------------------------------------------------------------
(* The list the map holds, and a fresh list object.                            *)

Waiting == IF here = NoList THEN << >> ELSE lists[here]

Asking == {m \in Msg : enqueuing[m] # NoList}

Fresh == CHOOSE l \in ListId : l # here /\ \A m \in Asking : enqueuing[m] # l

Unlist(q, m) == RemoveAt(q, CHOOSE i \in DOMAIN q : q[i] = m)

\* snapshot, of the list that the map is about to hold.
Persist(q) == file' = Save(file, q)

\* Mutant: a target whose session is not known yet is taken to be the one recorded.
VerdictEager(m) ==
    IF m \notin restored                       THEN "deliver"
    ELSE IF bound[m] = NoSession               THEN "gone"
    ELSE IF session \notin {NoSession, bound[m]} THEN "gone"
    ELSE "deliver"

\* restoredBindingVerdict, for an entry that came back from disk.
Verdict(m) ==
    IF m \notin restored                       THEN "deliver"
    ELSE IF bound[m] = NoSession               THEN "gone"
    ELSE IF session = NoSession                THEN "wait"
    ELSE IF session # bound[m]                 THEN "gone"
    ELSE "deliver"

\* The map's list becomes q (an emptied list is deleted after an end, not after a
\* claim: `drop` says which).
HoldsNow(q, drop) ==
    /\ here' = IF q = << >> /\ drop THEN NoList ELSE here
    /\ lists' = IF here = NoList THEN lists ELSE [lists EXCEPT ![here] = q]

-------------------------------------------------------------------------------
(* enqueue, up to and after the awaited trace.                                 *)

EnqueueAsks(m) ==
    /\ up /\ fate[m] = "new"
    /\ Cardinality(Asking) < MaxEnqueuing
    /\ IF Len(Waiting) >= Capacity
       THEN /\ fate' = [fate EXCEPT ![m] = "full"]
            /\ UNCHANGED <<lists, enqueuing>>
       ELSE /\ fate' = [fate EXCEPT ![m] = "asking"]
            /\ IF here = NoList
               THEN /\ enqueuing' = [enqueuing EXCEPT ![m] = Fresh]
                    /\ lists' = [lists EXCEPT ![Fresh] = << >>]
               ELSE /\ enqueuing' = [enqueuing EXCEPT ![m] = here]
                    /\ UNCHANGED lists
    /\ UNCHANGED <<up, here, armed, delivering, reporting, lapsed, restored, bound, session,
                   nudge, file, typed, arrived, exits>>

\* The trace is written: push, map, timer, persist, answer.  A board comment held by
\* the pair window also asks for a nudge.
EnqueueAnswers(m) ==
    LET l == enqueuing[m]
    IN  /\ up /\ l # NoList
        /\ lists' = [lists EXCEPT ![l] = Append(@, m)]
        /\ here' = l
        /\ enqueuing' = [enqueuing EXCEPT ![m] = NoList]
        /\ armed' = armed \cup {m}
        /\ bound' = [bound EXCEPT ![m] = session]
        /\ Persist(Append(lists[l], m))
        /\ fate' = [n \in Msg |-> IF n = m                              THEN "queued"
                                  ELSE IF l # here /\ n \in ToSet(Waiting) THEN "dropped"
                                  ELSE fate[n]]
        /\ arrived' = Append(arrived, m)
        /\ nudge' \in {nudge, nudge \/ m \in Board}
        /\ UNCHANGED <<up, delivering, reporting, lapsed, restored, session, typed, exits>>

-------------------------------------------------------------------------------
(* onTargetIdle: one turn of its loop, from where it reads the map to the next
   await.  Entries whose session is gone end without one; the first entry that is
   not one of them is claimed, or waits for the target to name its session.     *)

GoneFirst(q) ==
    LET stays == {i \in DOMAIN q : Verdict(q[i]) # "gone"}
    IN  IF stays = {} THEN Len(q) ELSE CHOOSE i \in 0 .. Len(q) : /\ i + 1 \in stays
                                                                  /\ \A j \in stays : i < j

\* Mutant: a claimed entry stays on the list until its delivery ends.
LoopTurnKeeps(q, told, drop) ==
    LET gone  == GoneFirst(q)
        rest  == SubSeq(q, gone + 1, Len(q))
        claim == IF rest # << >> /\ Verdict(Head(rest)) = "deliver" THEN {Head(rest)} ELSE {}
    IN  /\ HoldsNow(rest, drop \/ gone > 0)
        /\ delivering' = (delivering \ DOMAIN told) \cup claim
        /\ armed' = armed \ (claim \cup {q[i] : i \in 1 .. gone})
        /\ fate' = [m \in Msg |-> IF m \in DOMAIN told                  THEN told[m]
                                  ELSE IF \E i \in 1 .. gone : q[i] = m THEN "refused"
                                  ELSE fate[m]]
        /\ Persist(rest)

LoopTurn(q, told, drop) ==
    LET gone  == GoneFirst(q)
        rest  == SubSeq(q, gone + 1, Len(q))
        claim == IF rest # << >> /\ Verdict(Head(rest)) = "deliver" THEN {Head(rest)} ELSE {}
        left  == IF claim = {} THEN rest ELSE Tail(rest)
    IN  /\ HoldsNow(left, claim = {} /\ (drop \/ gone > 0))
        /\ delivering' = (delivering \ DOMAIN told) \cup claim
        /\ armed' = armed \ (claim \cup {q[i] : i \in 1 .. gone})
        /\ fate' = [m \in Msg |-> IF m \in DOMAIN told                  THEN told[m]
                                  ELSE IF \E i \in 1 .. gone : q[i] = m THEN "refused"
                                  ELSE fate[m]]
        /\ Persist(left)

Untold == [m \in {} |-> "queued"]

\* The target's agent finished a turn.
TargetIdle ==
    /\ up /\ Waiting # << >>
    /\ Cardinality(delivering) < MaxFlushing
    /\ LoopTurn(Waiting, Untold, FALSE)
    /\ UNCHANGED <<up, enqueuing, reporting, lapsed, restored, bound, session, nudge, typed,
                   arrived, exits>>

NudgeFires ==
    /\ up /\ nudge
    /\ Cardinality(delivering) < MaxFlushing
    /\ nudge' = FALSE
    /\ IF Waiting # << >> THEN LoopTurn(Waiting, Untold, FALSE)
       ELSE UNCHANGED <<lists, here, delivering, armed, fate, file>>
    /\ UNCHANGED <<up, enqueuing, reporting, lapsed, restored, bound, session, typed, arrived,
                   exits>>

\* A delivery ends for good; the loop goes round.
DeliveryEnds(m, end) ==
    /\ up /\ m \in delivering
    /\ LoopTurn(Waiting, [n \in {m} |-> end], TRUE)
    /\ typed' = IF end = "landed" THEN [typed EXCEPT ![m] = @ + 1] ELSE typed
    /\ UNCHANGED <<up, enqueuing, reporting, lapsed, restored, bound, session, nudge, arrived,
                   exits>>

\* Mutants: the entry goes back without its timer, at the back, or onto a list of its own.
RequeueUnarmed(m, l, q) == lists' = [lists EXCEPT ![l] = <<m>> \o q] /\ UNCHANGED armed
RequeueBack(m, l, q)    == lists' = [lists EXCEPT ![l] = Append(q, m)] /\ armed' = armed \cup {m}
RequeueAlone(m, l, q)   == lists' = [lists EXCEPT ![l] = <<m>>] /\ armed' = armed \cup {m}

\* requeueFront's list and timer.
Requeue(m, l, q) == /\ lists' = [lists EXCEPT ![l] = <<m>> \o q]
                    /\ armed' = armed \cup {m}

\* ... or the target was not ready: the entry goes back, the flush stops.
NotReady(m) ==
    LET l == IF here = NoList THEN Fresh ELSE here
    IN  /\ up /\ m \in delivering
        /\ delivering' = delivering \ {m}
        /\ Requeue(m, l, Waiting)
        /\ here' = l
        /\ Persist(lists'[l])
        /\ nudge' \in {nudge, nudge \/ m \in Board}
        /\ UNCHANGED <<up, enqueuing, reporting, lapsed, restored, bound, session, fate, typed,
                       arrived, exits>>

-------------------------------------------------------------------------------
(* The TTL.                                                                    *)

\* expire's verdict: an entry no longer on the list was dealt with.
ExpiresIfWaiting(m) ==
    reporting' = IF \E i \in DOMAIN Waiting : Waiting[i] = m THEN reporting \cup {m} ELSE reporting

\* Mutant: the entry is reported first and stays on the list.
ExpireKeeps(m) ==
    /\ up /\ m \in armed
    /\ armed' = armed \ {m}
    /\ ExpiresIfWaiting(m)
    /\ UNCHANGED <<up, lists, here, enqueuing, delivering, lapsed, restored, bound, session,
                   nudge, file, fate, typed, arrived, exits>>

Expire(m) ==
    /\ up /\ m \in armed
    /\ armed' = armed \ {m}
    /\ ExpiresIfWaiting(m)
    /\ IF \E i \in DOMAIN Waiting : Waiting[i] = m
       THEN HoldsNow(Unlist(Waiting, m), TRUE) /\ Persist(Unlist(Waiting, m))
       ELSE UNCHANGED <<lists, here, file>>
    /\ UNCHANGED <<up, enqueuing, delivering, lapsed, restored, bound, session, nudge, fate,
                   typed, arrived, exits>>

ExpiryTold(m) ==
    /\ up /\ m \in reporting
    /\ reporting' = reporting \ {m}
    /\ fate' = [fate EXCEPT ![m] = "expired"]
    /\ UNCHANGED <<up, lists, here, enqueuing, armed, delivering, lapsed, restored, bound,
                   session, nudge, file, typed, arrived, exits>>

\* restore's loop over the entries it could not bring back, then its persist.
LapsedTold ==
    /\ up /\ lapsed # << >>
    /\ fate' = [fate EXCEPT ![Head(lapsed)] = "expired"]
    /\ lapsed' = Tail(lapsed)
    /\ IF Tail(lapsed) = << >> THEN Persist(Waiting) ELSE UNCHANGED file
    /\ UNCHANGED <<up, lists, here, enqueuing, armed, delivering, reporting, restored, bound,
                   session, nudge, typed, arrived, exits>>

-------------------------------------------------------------------------------
(* The file, the target's session, and the process.                            *)

SaveTimerFires ==
    /\ up /\ file.timer
    /\ file' = TimerFired(file)
    /\ UNCHANGED <<up, queueVars, restored, bound, session, fate, typed, arrived, exits>>

WriteEnds(landed) ==
    /\ up /\ file.writing # {}
    /\ file' = WriteEnded(file, landed)
    /\ UNCHANGED <<up, queueVars, restored, bound, session, fate, typed, arrived, exits>>

SessionChanges ==
    /\ session' \in (Session \cup {NoSession}) \ {session}
    /\ UNCHANGED <<up, queueVars, restored, bound, file, fate, typed, arrived, exits>>

\* The process is gone: only the disk is left.  A delivery cut off may have typed.
Gone(disk) ==
    /\ up /\ exits < MaxExits
    /\ up' = FALSE
    /\ exits' = exits + 1
    /\ lists' = [l \in ListId |-> << >>] /\ here' = NoList
    /\ enqueuing' = [m \in Msg |-> NoList]
    /\ armed' = {} /\ delivering' = {} /\ reporting' = {} /\ lapsed' = << >>
    /\ nudge' = FALSE
    /\ file' = NewFile(disk)
    /\ fate' = [m \in Msg |-> IF fate[m] = "asking" THEN "unanswered"
                              ELSE IF fate[m] \in Promised /\ m \notin ToSet(disk) THEN "lost"
                              ELSE fate[m]]
    /\ \E cut \in SUBSET delivering :
           typed' = [m \in Msg |-> IF m \in cut THEN typed[m] + 1 ELSE typed[m]]
    /\ UNCHANGED <<restored, bound, session, arrived>>

Crash == Gone(file.disk)

\* A clean quit flushes what is pending first; a write in flight may still land.
Quit == LET flushed == FlushedSync(file)
        IN  Gone(flushed.disk) \/ \E s \in flushed.writing : Gone(s)

\* Boot and restore, up to its first await: what is deliverable is re-queued while there
\* is room, the rest (`out` has run out its TTL) is reported one by one.
Boot ==
    /\ ~up
    /\ up' = TRUE
    /\ \E out \in SUBSET ToSet(file.disk) :
         LET able   == Only(file.disk, Msg \ (out \cup Board))
             back   == SubSeq(able, 1, IF Len(able) < Capacity THEN Len(able) ELSE Capacity)
             rest   == Only(file.disk, Msg \ ToSet(back))
         IN  /\ here' = IF back = << >> THEN NoList ELSE 1
             /\ lists' = [lists EXCEPT ![1] = back]
             /\ armed' = ToSet(back)
             /\ lapsed' = rest
             /\ IF rest = << >> THEN Persist(back) ELSE UNCHANGED file
    /\ restored' = restored \cup ToSet(file.disk)
    /\ fate' = [m \in Msg |-> IF m \in ToSet(file.disk) THEN "queued" ELSE fate[m]]
    /\ arrived' = file.disk
    /\ UNCHANGED <<enqueuing, delivering, reporting, bound, session, nudge, typed, exits>>

Next == \/ \E m \in Msg : \/ EnqueueAsks(m)
                          \/ EnqueueAnswers(m)
                          \/ \E end \in {"landed", "refused"} : DeliveryEnds(m, end)
                          \/ NotReady(m)
                          \/ Expire(m)
                          \/ ExpiryTold(m)
        \/ TargetIdle
        \/ NudgeFires
        \/ LapsedTold
        \/ SaveTimerFires
        \/ \E landed \in BOOLEAN : WriteEnds(landed)
        \/ SessionChanges
        \/ Crash
        \/ Quit
        \/ Boot

Spec == Init /\ [][Next]_vars

(* A delivery and a report end, an armed timer fires.  Strong fairness for the TTL:
   a claim cancels the timer and a requeue arms it for the time left, so the claims
   would have to fall between each arming and an expiry already due, for ever.     *)
QueueFairness ==
    \A m \in Msg : /\ WF_vars(EnqueueAnswers(m))
                   /\ WF_vars(NotReady(m) \/ DeliveryEnds(m, "landed"))
                   /\ SF_vars(Expire(m))
                   /\ WF_vars(ExpiryTold(m))

-------------------------------------------------------------------------------
(* Properties.                                                                 *)

\* A message is in at most one place: once on the list, or in one delivery, or in one
\* report.  A re-entrant idle event or a late timer never takes the same entry twice.
InOnePlace ==
    /\ IsInjective(Waiting)
    /\ \A m \in Msg : Cardinality({place \in {"list", "delivery", "report", "lapsed", "trace"} :
            m \in CASE place = "list"     -> ToSet(Waiting)
                   [] place = "delivery" -> delivering
                   [] place = "report"   -> reporting
                   [] place = "lapsed"   -> ToSet(lapsed)
                   [] place = "trace"    -> Asking}) <= 1

\* Every waiting message has its TTL timer armed, however often it was claimed, put back
\* or restored: without it a target that never goes idle would hold it for ever.  One that
\* was dropped and whose list came back may have lost its timer in the meantime.
WaitingIsTimed == \A m \in ToSet(Waiting) : m \in armed \/ fate[m] = "dropped"

\* Once every save has settled the file is the list: what a crash would bring back is
\* what the queue holds.
FileFollows == up /\ lapsed = << >> /\ Settled(file) /\ ~file.failed => file.disk = Waiting

\* One end per message and run: a flush and an expiry never both tell the sender.
ToldOnce == [][up => \A m \in Msg : fate[m] \in Ends => fate'[m] = fate[m]]_vars

\* "flush its queue, oldest first", "at the FRONT, preserving order": a message is not
\* typed into the pane while one that came before it is still queued, neither of the two
\* on a list that was dropped.
OldestFirst ==
    [][up' => \A i, j \in DOMAIN arrived :
          /\ typed'[arrived[j]] > typed[arrived[j]]
          /\ i < j
          /\ "dropped" \notin {fate[arrived[i]], fate[arrived[j]]}
          => arrived[i] \notin ToSet(Waiting) \cup delivering]_vars

\* What came back from disk is taken up only for the session it was queued for, and a
\* board comment never is, whatever flushes run while its expiry is being reported.
RestoredKeepsSession ==
    [][\A m \in restored : m \in delivering' \ delivering =>
          m \notin Board /\ bound[m] # NoSession /\ session = bound[m]]_vars

\* enqueue: "never enqueues past capacity".
WithinCapacity ==
    [][\A m \in Msg : fate[m] = "asking" /\ fate'[m] = "queued" =>
          Len(lists'[here']) <= Capacity]_vars

\* "Written off disk BEFORE the attempt (claim before effect) ... At most once."
AtMostOnce == \A m \in Msg : typed[m] <= 1

\* restore: "The lapsed entries' ends are reported BEFORE the file drops them".
LapsedStayOnDisk == ToSet(lapsed) \subseteq ToSet(file.disk)

\* Where the queue may hold a message between its acceptance and its end.
Held(m) == m \in ToSet(Waiting) \cup delivering \cup reporting \cup ToSet(lapsed)

\* delivery-queue.ts: "never a silent drop".  A message answered `queued` whose end
\* nobody was told is waiting, or in a delivery, or in a report.
NothingDropped == up => \A m \in Msg : fate[m] \in Promised => Held(m)

\* The one way a message is dropped: an enqueue that had read a list the map has let go
\* of since puts that list back.  Nothing else, in any interleaving of flushes, expiries,
\* requeues and restores, takes a message off without a delivery or a report.
OnlyOvertakingDrops ==
    [][up /\ up' =>
         \A m \in Msg : {fate[m], fate'[m]} \subseteq Promised /\ Held(m) /\ ~Held(m)' =>
             \E n \in Asking : enqueuing[n] # here /\ enqueuing'[n] = NoList]_vars

\* What the queue holds it lets go of, whatever the target does: a message is typed,
\* refused or expired, or its list is dropped.
HeldEnds == \A m \in Msg : Held(m) ~> ~Held(m) \/ fate[m] = "dropped"
===============================================================================
