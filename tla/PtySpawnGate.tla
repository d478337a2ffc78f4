------------------------------ MODULE PtySpawnGate ------------------------------
(* The pacing of remote terminals (core/remote-ssh/pty-spawn-gate.ts) and its two
   callers (pty-manager.ts spawnNew and spawnRelayRemote).

   Each ssh connection has its own budget and shares nothing with the others, so one
   control path is modelled.  A permit is held from `take` until the pty's first output,
   or its settle deadline, or a spawn that failed: whichever comes first gives it back.
   A Spawn is one terminal; it may be opened again once its last opening is over.     *)
EXTENDS Integers, Sequences, FiniteSets

CONSTANTS Spawn,            \* terminals of the connection
          Limit             \* REMOTE_PTY_SPAWN_CONCURRENCY

ASSUME GateAssumption == Limit \in Nat \ {0} /\ IsFiniteSet(Spawn)

VARIABLES permits,          \* active.get(controlPath)
          gateQueue,        \* waiting.get(controlPath): who waits for a permit
          hidden,           \* those that asked as background
          stage             \* where each terminal's opening is

gateVars == <<permits, gateQueue, hidden, stage>>

(* closed   nobody is opening it
   queued   waiting in take
   granted  the permit is its own, acquire has not gone on
   opening  the deadline is armed, the pty spawned or being spawned
   silent   the deadline took the permit back, the pty has not spoken            *)
GateStage == {"closed", "queued", "granted", "opening", "silent"}

GateTypeOK == /\ permits \in 0 .. Limit
              /\ gateQueue \in Seq(Spawn)
              /\ hidden \in SUBSET Spawn
              /\ stage \in [Spawn -> GateStage]

GateInit == /\ permits = 0
            /\ gateQueue = << >>
            /\ hidden = {}
            /\ stage = [s \in Spawn |-> "closed"]

-------------------------------------------------------------------------------
\* Mutant: the count is looked up before an await and stored after it, so it is not
\* checked against the limit when it is taken.
TakeUnchecked(s) ==
    /\ permits' = permits + 1
    /\ stage' = [stage EXCEPT ![s] = "granted"]
    /\ UNCHANGED gateQueue

\* take: a free permit, or a place in the queue.
Take(s) ==
    \/ /\ permits < Limit
       /\ permits' = permits + 1
       /\ stage' = [stage EXCEPT ![s] = "granted"]
       /\ UNCHANGED gateQueue
    \/ /\ permits >= Limit
       /\ gateQueue' = Append(gateQueue, s)
       /\ stage' = [stage EXCEPT ![s] = "queued"]
       /\ UNCHANGED permits

\* acquire, called for a terminal that is on screen or (background) is not.
Acquire(s, background) ==
    /\ stage[s] = "closed"
    /\ hidden' = IF background THEN hidden \cup {s} ELSE hidden \ {s}
    /\ Take(s)

\* acquire goes on after its await: the deadline is armed, the caller spawns.
GoOn(s) ==
    /\ stage[s] = "granted"
    /\ stage' = [stage EXCEPT ![s] = "opening"]
    /\ UNCHANGED <<permits, gateQueue, hidden>>

OnScreen == {i \in DOMAIN gateQueue : gateQueue[i] \notin hidden}

\* Mutant: plain FIFO.
NextWaiterFifo == 1

\* On-screen first, FIFO within each class.
NextWaiter == IF OnScreen = {} THEN 1
              ELSE CHOOSE i \in OnScreen : \A j \in OnScreen : i <= j

Without(i) == [j \in 1 .. Len(gateQueue) - 1 |-> gateQueue[IF j < i THEN j ELSE j + 1]]

\* give, by the opening of s that ends up in stage `end`: the permit goes straight to a
\* waiter, or back.
Give(s, end) ==
    \/ /\ gateQueue # << >>
       /\ stage' = [stage EXCEPT ![s] = end, ![gateQueue[NextWaiter]] = "granted"]
       /\ gateQueue' = Without(NextWaiter)
       /\ UNCHANGED permits
    \/ /\ gateQueue = << >>
       /\ permits' = IF permits - 1 <= 0 THEN 0 ELSE permits - 1
       /\ stage' = [stage EXCEPT ![s] = end]
       /\ UNCHANGED gateQueue

\* The settle deadline: the first of the release's callers here.
Deadline(s) ==
    /\ stage[s] = "opening"
    /\ Give(s, "silent")
    /\ UNCHANGED hidden

\* Mutant: release is not idempotent.
ReleasedAgain(s) ==
    /\ stage[s] \in {"opening", "silent"}
    /\ Give(s, "closed")
    /\ UNCHANGED hidden

\* First output, a spawn that threw or a session already gone: release, which does
\* nothing when the deadline was faster.
Released(s) ==
    /\ \/ stage[s] = "opening" /\ Give(s, "closed")
       \/ /\ stage[s] = "silent"
          /\ stage' = [stage EXCEPT ![s] = "closed"]
          /\ UNCHANGED <<permits, gateQueue>>
    /\ UNCHANGED hidden

GateNext == \E s \in Spawn : \/ \E background \in BOOLEAN : Acquire(s, background)
                             \/ GoOn(s)
                             \/ Deadline(s)
                             \/ Released(s)

GateSpec == GateInit /\ [][GateNext]_gateVars

\* The event loop runs continuations and timers; no pty needs to speak.
GateFairness == \A s \in Spawn : WF_gateVars(GoOn(s)) /\ WF_gateVars(Deadline(s))

-------------------------------------------------------------------------------
Holders == {s \in Spawn : stage[s] \in {"granted", "opening"}}

\* "Remote pty spawns allowed in flight per ControlMaster": as many permits are out as
\* openings hold one, never more than the limit, whoever releases, how often and in
\* which order; and none is kept back while somebody waits.
PermitsHeld == /\ permits = Cardinality(Holders)
               /\ permits <= Limit
               /\ gateQueue # << >> => permits = Limit

\* Whoever waits is in the queue once, and nobody else is: no waiter is forgotten.
QueueIsTheWaiting ==
    /\ \A s \in Spawn : stage[s] = "queued" <=> \E i \in DOMAIN gateQueue : gateQueue[i] = s
    /\ \A i, j \in DOMAIN gateQueue : gateQueue[i] = gateQueue[j] => i = j

\* "a spawn the renderer reports as on screen goes ahead of every queued background one,
\* FIFO within each class".
VisibleFirst ==
    [][\A i, j \in DOMAIN gateQueue :
         /\ stage'[gateQueue[j]] = "granted"
         /\ \/ gateQueue[i] \notin hidden /\ gateQueue[j] \in hidden
            \/ i < j /\ (gateQueue[i] \in hidden <=> gateQueue[j] \in hidden)
         => stage'[gateQueue[i]] = "granted"]_gateVars

\* "a pty that never produces a byte must not be able to wedge the queue behind it": a
\* terminal on screen gets its turn, though no pty ever speaks.
VisibleStarts == \A s \in Spawn : stage[s] = "queued" /\ s \notin hidden ~> stage[s] # "queued"

\* Whoever is on screen is served before anybody who is not, and is served.
VisibleServed == VisibleFirst /\ VisibleStarts
===============================================================================
