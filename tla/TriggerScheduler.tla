---------------------------- MODULE TriggerScheduler ----------------------------
(* When an armed trigger is due, and what one pass over the triggers does
   (core/trigger-scheduler.ts), with the arm gate and the canvas it reads
   (trigger-arm-store.ts, the wiring in trigger-service.ts).

   A sweep lists every trigger in one synchronous step and then delivers those that are
   due one after the other, awaiting each delivery; the interval starts the next sweep
   whether or not the last one is through.  Time is counted in sweep intervals.          *)
EXTENDS Integers, Sequences, FiniteSets, Filtering

CONSTANTS Rows,             \* the triggers in listing order
          Schedule,         \* the specs: [kind |-> interval | once | cron, n |-> minutes]
          NoSpec,           \* not on the canvas, not known, not armed
          TriggerTime,      \* bound: the clock stops here, sweeps go on
          Sweeps            \* bound: how many sweeps can be under way at once

Trigger == {Rows[i] : i \in DOMAIN Rows}
Never == -1

\* A node is listed once: its key is made of its project and its id.
ASSUME TriggerAssumption ==
    /\ Rows \in Seq(Trigger)
    /\ \A i, j \in DOMAIN Rows : Rows[i] = Rows[j] => i = j
    /\ Sweeps \in Nat
    /\ \A s \in Schedule : s.kind \in {"interval", "once", "cron"} /\ s.n \in Nat \ {0}
    /\ NoSpec \notin Schedule
    /\ TriggerTime \in Nat

VARIABLES sweeping,          \* the interval runs
          clock,
          canvas,           \* listTriggers: each trigger's spec, external to the scheduler
          arms,             \* the content each trigger is armed for
          states,           \* canon and nextAt of each trigger
          inFlight,
          sweeps,           \* the sweeps under way: their time and what is left of `due`
          swept,            \* the clock at the last sweep
          slots,            \* history: the slots fired
          twice             \* history: the slots fired again

triggerVars == <<sweeping, clock, canvas, arms, states, inFlight, sweeps, swept, slots, twice>>

Unknown == [canon |-> NoSpec, nextAt |-> Never]
NoSweep == [t |-> Never, due |-> << >>]

KeyState == [canon : Schedule \cup {NoSpec}, nextAt : Nat \cup {Never}]
Entry == [key : Trigger, spec : Schedule, slot : Nat]
Slot == [key : Trigger, spec : Schedule, at : Nat]

TriggerInit ==
    /\ sweeping = FALSE
    /\ clock = 0
    /\ canvas \in [Trigger -> Schedule]
    /\ arms = canvas
    /\ states = [k \in Trigger |-> Unknown]
    /\ inFlight = {}
    /\ sweeps = [i \in 1 .. Sweeps |-> NoSweep]
    /\ swept = Never
    /\ slots = {}
    /\ twice = {}

TriggerTypeOK ==
    /\ sweeping \in BOOLEAN
    /\ clock \in 0 .. TriggerTime
    /\ canvas \in [Trigger -> Schedule \cup {NoSpec}]
    /\ arms \in [Trigger -> Schedule \cup {NoSpec}]
    /\ states \in [Trigger -> KeyState]
    /\ inFlight \subseteq Trigger
    /\ sweeps \in [1 .. Sweeps -> [t : Nat \cup {Never}, due : Seq(Entry)]]
    /\ swept \in Nat \cup {Never}
    /\ slots \subseteq Slot /\ twice \subseteq slots

-------------------------------------------------------------------------------
\* Mutant: a minute that has just fired is the cron's next one.
NextFireInclusive(s, from) == IF s.kind = "interval" THEN from + s.n
                              ELSE IF s.kind = "cron" THEN s.n * ((from + s.n - 1) \div s.n)
                              ELSE IF s.n > from THEN s.n ELSE Never

\* computeNextFire: strictly after `from`, null when there is none.
NextFire(s, from) == IF s.kind = "interval" THEN from + s.n
                     ELSE IF s.kind = "cron" THEN s.n * (from \div s.n + 1)
                     ELSE IF s.n > from THEN s.n ELSE Never

\* Advance first, before the arm gate is asked: a `once` is spent.
Advanced(s, t) == IF s.kind = "once" THEN Never ELSE NextFire(s, t)

\* Would the sweep deliver this entry now?  It is still known, and armed for this content.
Delivers(e, st) == st[e.key].canon # NoSpec /\ arms[e.key] = e.spec

(* The loop over `due`, as far as it runs without waiting: past every entry that is gone
   or not armed, up to the first one it delivers.  `t` is the sweep's own time, however
   late this is.                                                                       *)
Walk(i, due, t, st, flying) ==
    LET firing == {j \in DOMAIN due : Delivers(due[j], st)}
        stop == IF firing = {} THEN Len(due)
                ELSE CHOOSE j \in firing : \A k \in firing : j <= k
        passed == {j \in 1 .. stop : st[due[j].key].canon # NoSpec}
        slot == [key |-> due[stop].key, spec |-> due[stop].spec, at |-> due[stop].slot]
    IN /\ states' = [k \in Trigger |->
                        IF \E j \in passed : due[j].key = k
                        THEN [st[k] EXCEPT !.nextAt =
                                Advanced(due[CHOOSE j \in passed : due[j].key = k].spec, t)]
                        ELSE st[k]]
       /\ \/ /\ firing # {}
             /\ inFlight' = flying \cup {due[stop].key}
             /\ sweeps' = [sweeps EXCEPT ![i] =
                             [t |-> t, due |-> SubSeq(due, stop, Len(due))]]
             /\ slots' = slots \cup {slot}
             /\ twice' = IF slot \in slots THEN twice \cup {slot} ELSE twice
          \/ /\ firing = {}
             /\ inFlight' = flying
             /\ sweeps' = [sweeps EXCEPT ![i] = NoSweep]
             /\ UNCHANGED <<slots, twice>>

\* What the listing makes of a trigger: forgotten, anchored anew from now, or kept.
Listed(k) == IF canvas[k] = NoSpec THEN Unknown
             ELSE IF states[k].canon # canvas[k]
             THEN [canon |-> canvas[k], nextAt |-> NextFire(canvas[k], clock)]
             ELSE states[k]

\* Due, on a sweep that did not anchor it, and nothing of it in flight.
IsDue(k) == /\ canvas[k] # NoSpec
            /\ states[k].canon = canvas[k]
            /\ states[k].nextAt # Never
            /\ states[k].nextAt <= clock
            /\ k \notin inFlight

DueEntries ==
    LET due == Only(Rows, {k \in Trigger : IsDue(k)})
    IN  [j \in 1 .. Len(due) |->
           [key |-> due[j], spec |-> canvas[due[j]], slot |-> states[due[j]].nextAt]]

\* sweepOnce, the pass after boot or the interval's: list, then deliver up to the first await.
Sweep(i) ==
    /\ sweeping
    /\ sweeps[i] = NoSweep
    /\ swept < clock \/ clock = TriggerTime
    /\ swept' = clock
    /\ Walk(i, DueEntries, clock, [k \in Trigger |-> Listed(k)], inFlight)
    /\ UNCHANGED <<sweeping, clock, canvas, arms>>

\* deps.fire settles, however: the key is out of flight and the sweep goes on.
FireEnds(i) ==
    /\ sweeps[i] # NoSweep
    /\ Walk(i, Tail(sweeps[i].due), sweeps[i].t, states,
            inFlight \ {sweeps[i].due[1].key})
    /\ UNCHANGED <<sweeping, clock, canvas, arms, swept>>

\* A trigger is edited, deleted or brought back; arming goes with what is on screen.
EditTrigger(k, s) == /\ canvas' = [canvas EXCEPT ![k] = s]
                     /\ UNCHANGED <<sweeping, clock, arms, states, inFlight, sweeps, swept, slots, twice>>
ArmTrigger(k) == /\ canvas[k] # NoSpec
                 /\ arms' = [arms EXCEPT ![k] = canvas[k]]
                 /\ UNCHANGED <<sweeping, clock, canvas, states, inFlight, sweeps, swept, slots, twice>>
DisarmTrigger(k) == /\ arms' = [arms EXCEPT ![k] = NoSpec]
                    /\ UNCHANGED <<sweeping, clock, canvas, states, inFlight, sweeps, swept, slots, twice>>

\* The service starts its interval once the arm store is loaded, and stops it; sweeps under
\* way go on.
TurnTriggers(on) == /\ sweeping' = on
                    /\ UNCHANGED <<clock, canvas, arms, states, inFlight, sweeps, swept, slots, twice>>

ClockTick == /\ sweeping
             /\ clock < TriggerTime
             /\ clock' = clock + 1
             /\ UNCHANGED <<sweeping, canvas, arms, states, inFlight, sweeps, swept, slots, twice>>

TriggerNext == \/ \E i \in 1 .. Sweeps : Sweep(i) \/ FireEnds(i)
               \/ \E k \in Trigger : \/ \E s \in Schedule \cup {NoSpec} : EditTrigger(k, s)
                                     \/ ArmTrigger(k)
                                     \/ DisarmTrigger(k)
               \/ \E on \in BOOLEAN : TurnTriggers(on)
               \/ ClockTick

TriggerSpec == TriggerInit /\ [][TriggerNext]_triggerVars

\* The interval keeps running and a delivery settles (sent, refused, queued or thrown).
TriggerFairness == /\ WF_triggerVars(ClockTick)
                   /\ WF_triggerVars(\E i \in 1 .. Sweeps : Sweep(i))
                   /\ \A i \in 1 .. Sweeps : WF_triggerVars(FireEnds(i))

-------------------------------------------------------------------------------
\* "Exactly-once per due slot: nextAt is advanced BEFORE the (async) fire is awaited, and an
\* in-flight key is skipped by later sweeps, so a slow delivery cannot double-fire."
OncePerSlot == twice = {}

\* A trigger that is due does not stay due: however slow or failed the deliveries before
\* it, some sweep of a running scheduler takes it (and fires it, or finds it disarmed, edited or deleted).
DueIsTaken == \A k \in Trigger :
    states[k].nextAt # Never /\ states[k].nextAt <= clock
      ~> ~sweeping \/ ~(states[k].nextAt # Never /\ states[k].nextAt <= clock)
===============================================================================
