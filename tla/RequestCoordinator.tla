---------------------------- MODULE RequestCoordinator ----------------------------
(* The pacing of GitHub requests (core/github/request-coordinator.ts): a few reads at a time,
   mutations one by one and a second apart, both held by a rate limit for a bounded time, and
   all of it cancelled by generation when the configuration changes.

   Identities share nothing, so there is one.  Every instant is kept as the time left until
   it; 0 stands for any moment past.  Budgets that stop only background polls are left out. *)
EXTENDS Integers, Sequences, FiniteSets

CONSTANTS Read, Mutation,   \* requests; one may be asked again once it is answered
          Slots,            \* the read slots of an identity
          MaxWait,          \* MAX_RATE_WAIT_MS
          Spacing,          \* between two mutations
          Farthest          \* bound: the farthest reset a rate limit names

Request == Read \cup Mutation

ASSUME RequestAssumption ==
    /\ Read \cap Mutation = {}
    /\ Slots \in Nat \ {0}
    /\ {MaxWait, Spacing, Farthest} \subseteq Nat \ {0}

VARIABLES phase,            \* where each request is
          stale,            \* the requests of an earlier generation
          readQueue,
          activeReads,
          mutationTail,     \* the mutations not yet answered, in the order asked
          retryIn,          \* the time left until retryAt
          wakeIn,           \* a sleeping request's time left to sleep
          patience,         \* and what is left of its deadline
          restIn            \* the time left until the next mutation may start

reqVars == <<phase, stale, readQueue, activeReads, mutationTail, retryIn, wakeIn,
             patience, restIn>>

(* idle      not asked
   queued    in readQueue, or behind another mutation
   held      sleeping in waitForRate
   cleared   past waitForRate, its continuation not yet run
   resting   a mutation sleeping out the spacing
   running   its operation is under way
   failing   rejected, its finally not yet run                                        *)
Phase == {"idle", "queued", "held", "cleared", "resting", "running", "failing"}

ReqTypeOK ==
    /\ phase \in [Request -> Phase]
    /\ stale \subseteq Request
    /\ readQueue \in Seq(Read) /\ mutationTail \in Seq(Mutation)
    /\ activeReads \in Nat
    /\ retryIn \in 0 .. Farthest /\ restIn \in 0 .. Spacing
    /\ wakeIn \in [Request -> 0 .. (Farthest + Spacing)]
    /\ patience \in [Request -> 0 .. MaxWait]

ReqInit == /\ phase = [r \in Request |-> "idle"]
           /\ stale = {}
           /\ readQueue = << >> /\ activeReads = 0 /\ mutationTail = << >>
           /\ retryIn = 0 /\ restIn = 0
           /\ wakeIn = [r \in Request |-> 0]
           /\ patience = [r \in Request |-> 0]

-------------------------------------------------------------------------------
\* Where waitForRate leaves a request that has `left` before its deadline.
Rated(rate, left) == IF rate = 0 THEN "cleared" ELSE IF rate > left THEN "failing" ELSE "held"

\* Mutant: the cap bounds each sleep, not the total.
HoldEach(ph, started, woken, rate) ==
    /\ phase' = [r \in Request |->
                   IF r \in started \cap stale THEN "failing"
                   ELSE IF r \in started \cup woken THEN Rated(rate, MaxWait) ELSE ph[r]]
    /\ wakeIn' = [r \in Request |-> IF r \in started \cup woken THEN rate ELSE wakeIn[r]]
    /\ patience' = patience

(* waitForRate, one turn of its loop: entered by the requests that start (unless they are of
   an earlier generation), gone on with by one that wakes.  The deadline is set on entry.   *)
Hold(ph, started, woken, rate) ==
    LET left == [r \in Request |-> IF r \in started THEN MaxWait ELSE patience[r]]
    IN /\ phase' = [r \in Request |->
                      IF r \in started \cap stale THEN "failing"
                      ELSE IF r \in started \cup woken THEN Rated(rate, left[r]) ELSE ph[r]]
       /\ wakeIn' = [r \in Request |-> IF r \in started \cup woken THEN rate ELSE wakeIn[r]]
       /\ patience' = left

\* drainReads: the free slots go to the head of the queue.
Drain(ph, queue, active, rate) ==
    LET n == IF Slots - active < Len(queue) THEN Slots - active ELSE Len(queue)
    IN /\ readQueue' = SubSeq(queue, n + 1, Len(queue))
       /\ activeReads' = active + n
       /\ Hold(ph, {queue[i] : i \in 1 .. n}, {}, rate)

\* runRead: queued, and started at once when a slot is free.
AskRead(r) ==
    /\ phase[r] = "idle"
    /\ Drain([phase EXCEPT ![r] = "queued"], Append(readQueue, r), activeReads, retryIn)
    /\ UNCHANGED <<stale, mutationTail, retryIn, restIn>>

\* runMutation: behind the mutations asked before it.
AskMutation(m) ==
    /\ phase[m] = "idle"
    /\ phase' = [phase EXCEPT ![m] = "queued"]
    /\ mutationTail' = Append(mutationTail, m)
    /\ UNCHANGED <<stale, readQueue, activeReads, retryIn, wakeIn, patience, restIn>>

\* The chain reaches a mutation.
MutationTurn(m) ==
    /\ phase[m] = "queued"
    /\ Head(mutationTail) = m
    /\ Hold(phase, {m}, {}, retryIn)
    /\ UNCHANGED <<stale, readQueue, activeReads, mutationTail, retryIn, restIn>>

\* A sleep in waitForRate is over: look again.
Woken(r) ==
    /\ phase[r] = "held"
    /\ wakeIn[r] = 0
    /\ Hold(phase, {}, {r}, retryIn)
    /\ UNCHANGED <<stale, readQueue, activeReads, mutationTail, retryIn, restIn>>

\* The operation starts, unless its generation has passed.
Starts(r) ==
    /\ phase' = [phase EXCEPT ![r] = IF r \in stale THEN "failing" ELSE "running"]
    /\ restIn' = IF r \in Mutation \ stale THEN Spacing ELSE restIn
    /\ UNCHANGED wakeIn

\* After waitForRate: a read starts; a mutation sleeps out the spacing, or starts.
GoesOn(r) ==
    /\ phase[r] = "cleared"
    /\ \/ /\ r \in Mutation /\ restIn > 0
          /\ phase' = [phase EXCEPT ![r] = "resting"]
          /\ wakeIn' = [wakeIn EXCEPT ![r] = restIn]
          /\ UNCHANGED restIn
       \/ /\ r \in Read \/ restIn = 0
          /\ Starts(r)
    /\ UNCHANGED <<stale, readQueue, activeReads, mutationTail, retryIn, patience>>

\* The spacing is slept out; the rate limit is not looked at again.
Rested(m) ==
    /\ phase[m] = "resting"
    /\ wakeIn[m] = 0
    /\ Starts(m)
    /\ UNCHANGED <<stale, readQueue, activeReads, mutationTail, retryIn, patience>>

Later(until) == IF until > retryIn THEN until ELSE retryIn

\* Mutant: the slot is freed where an operation settles, and not where it never started.
ReadEndsSettled(r, until) ==
    LET freed == IF phase[r] = "running" THEN 1 ELSE 0
    IN /\ phase[r] \in {"running", "failing"}
       /\ retryIn' = Later(until)
       /\ Drain([phase EXCEPT ![r] = "idle"], readQueue, activeReads - freed, retryIn')
       /\ stale' = stale \ {r}
       /\ UNCHANGED <<mutationTail, restIn>>

\* A read is over, answered or rejected: its slot is free, and drained.  An operation may
\* have met a rate limit (until > 0): the latest reset counts.
ReadEnds(r, until) ==
    /\ \/ phase[r] = "running"
       \/ phase[r] = "failing" /\ until = 0
    /\ retryIn' = Later(until)
    /\ Drain([phase EXCEPT ![r] = "idle"], readQueue, activeReads - 1, retryIn')
    /\ stale' = stale \ {r}
    /\ UNCHANGED <<mutationTail, restIn>>

\* A mutation is over: the chain goes on.
MutationEnds(m, until) ==
    /\ \/ phase[m] = "running"
       \/ phase[m] = "failing" /\ until = 0
    /\ retryIn' = Later(until)
    /\ phase' = [phase EXCEPT ![m] = "idle"]
    /\ mutationTail' = Tail(mutationTail)
    /\ stale' = stale \ {m}
    /\ UNCHANGED <<readQueue, activeReads, wakeIn, patience, restIn>>

\* noteRateLimit, or a sample that says the budget is spent.
NoteLimit(until) ==
    /\ retryIn' = Later(until)
    /\ UNCHANGED <<phase, stale, readQueue, activeReads, mutationTail, wakeIn, patience, restIn>>

\* cancelIdentity: what waits for a slot is rejected at once, the rest when it looks.
CancelIdentity ==
    /\ phase' = [r \in Request |->
                   IF \E i \in DOMAIN readQueue : readQueue[i] = r THEN "idle" ELSE phase[r]]
    /\ readQueue' = << >>
    /\ stale' = {r \in Request : phase'[r] # "idle"}
    /\ UNCHANGED <<activeReads, mutationTail, retryIn, wakeIn, patience, restIn>>

Sooner(t) == IF t > 0 THEN t - 1 ELSE 0

ReqTick == /\ retryIn' = Sooner(retryIn)
           /\ restIn' = Sooner(restIn)
           /\ wakeIn' = [r \in Request |-> Sooner(wakeIn[r])]
           /\ patience' = [r \in Request |-> Sooner(patience[r])]
           /\ UNCHANGED <<phase, stale, readQueue, activeReads, mutationTail>>

ReqGoesOn(r) == \/ r \in Mutation /\ (MutationTurn(r) \/ Rested(r))
                \/ Woken(r) \/ GoesOn(r)
ReqEnds(r) == \E until \in 0 .. Farthest : \/ r \in Read /\ ReadEnds(r, until)
                                           \/ r \in Mutation /\ MutationEnds(r, until)

ReqNext == \/ \E r \in Read : AskRead(r)
           \/ \E m \in Mutation : AskMutation(m)
           \/ \E r \in Request : ReqGoesOn(r) \/ ReqEnds(r)
           \/ \E until \in 1 .. Farthest : NoteLimit(until)
           \/ CancelIdentity
           \/ ReqTick

ReqSpec == ReqInit /\ [][ReqNext]_reqVars

\* Time passes, sleepers wake, continuations run, and a request to GitHub ends (the client
\* gives every one a time limit).
ReqFairness == /\ WF_reqVars(ReqTick)
               /\ \A r \in Request : WF_reqVars(ReqGoesOn(r)) /\ WF_reqVars(ReqEnds(r))

-------------------------------------------------------------------------------
Active == {r \in Read : phase[r] \notin {"idle", "queued"}}

\* A slot is held by every read that has started and by nothing else, however reads end:
\* answered, refused by the rate limit or overtaken by a new generation; no read queues
\* while a slot is free, and mutations take turns.
SlotsCounted ==
    /\ activeReads = Cardinality(Active)
    /\ activeReads <= Slots
    /\ readQueue # << >> => activeReads = Slots
    /\ \A m \in Mutation : phase[m] \notin {"idle", "queued"} => Head(mutationTail) = m

\* "The cap bounds the TOTAL wait, not each sleep: a deadline that keeps moving while we sleep
\* must not chain waits without end": every request is answered, whatever rate limits other
\* requests meet, and however often the identity is cancelled.
EveryoneAnswered == \A r \in Request : phase[r] # "idle" ~> phase[r] = "idle"
===============================================================================
