------------------------------ MODULE CanvasSync ------------------------------
(* Canvas sync end to end: every client's canvas, publisher (canvas-publish.ts)
   and ordering state (canvas-order.ts), wired as Canvas.tsx wires them, and the
   core's reflector (canvas-sync.ts) between them.

   The bus is FIFO both ways and loses nothing here (CanvasOrderLink has losses
   and reconnects): up[c] holds c's casts on their way to the reflector.  The
   reflector stamps each with the next seq and sends it to every client, the
   sender included, so the log of what it stamped is every client's inbox: c has
   handled its first pos[c] entries.                                          *)
EXTENDS CanvasOrder, SequencesExt

CONSTANTS Client,           \* attached clients; a client is its publisher tag
          Val,              \* serialized values of a node, an edge, a board item
          TooLarge,         \* the values isCanvasMutation refuses
          Absent,           \* what a canvas without the key shows
          Loaded,           \* the canvas every client loaded
          Draggers,         \* the clients whose user drags nodes about
          Edits,            \* bound on what users do: keys and the values they get
          MaxCasts          \* bound on the mutations cast

ASSUME SyncAssumption == /\ TooLarge \subseteq Val
                         /\ Absent \notin Val
                         /\ Loaded \in [Key -> Val \cup {Absent}]
                         /\ Draggers \subseteq Client
                         /\ Edits \subseteq Key \X (Val \cup {Absent})
                         /\ MaxCasts \in Nat

VARIABLES canvas,           \* [Client -> scene]
          base,             \* the publisher's baseline
          owed,             \* keys whose cast was refused and not made good
          throttle,         \* the publisher's timer: idle, armed, or armed with a frame
          dragging,         \* draggingRef
          order,            \* [Client -> Order]
          up,               \* casts on their way to the reflector
          log,              \* stamped mutations; seq = Len(log)
          pos               \* how much of the log each client has handled

vars == <<canvas, base, owed, throttle, dragging, order, up, log, pos>>

Scene    == [Key -> Val \cup {Absent}]
Mutation == [key : Key, val : Val \cup {Absent}, remove : BOOLEAN, src : Client,
             seen : Nat, seq : Nat]

TypeOK == /\ canvas \in [Client -> Scene]
          /\ base \in [Client -> Scene]
          /\ owed \in [Client -> SUBSET Key]
          /\ throttle \in [Client -> {"idle", "armed", "frame"}]
          /\ dragging \in [Client -> BOOLEAN]
          /\ order \in [Client -> Order]
          /\ up \in [Client -> Seq(Mutation)]
          /\ log \in Seq(Mutation)
          /\ pos \in [Client -> 0 .. Len(log)]

Init == /\ canvas = [c \in Client |-> Loaded]
        /\ base = [c \in Client |-> Loaded]
        /\ owed = [c \in Client |-> {}]
        /\ throttle = [c \in Client |-> "idle"]
        /\ dragging = [c \in Client |-> FALSE]
        /\ order = [c \in Client |-> NewOrder]
        /\ up = [c \in Client |-> << >>]
        /\ log = << >>
        /\ pos = [c \in Client |-> 0]

-------------------------------------------------------------------------------
(* The publisher and Canvas's send callback, for one client, as a record
   [base, owed, throttle, order, up].                                         *)

Publisher(c) == [base |-> base[c], owed |-> owed[c], throttle |-> throttle[c],
                 order |-> order[c], up |-> up[c]]

\* castFor refuses a re-creation whose own remove is unacked, and what the
\* reflector would refuse.
Castable(o, k, v) == v = Absent \/ (~HasPendingRemove(o, k) /\ v \notin TooLarge)

\* castFor: stamp, record, send.
CastFor(c, scene, p, k) ==
    LET m == [key |-> k, val |-> scene[k], remove |-> scene[k] = Absent,
              src |-> c, seen |-> StampSeen(p.order), seq |-> 0]
    IN  [p EXCEPT !.order = OnLocal(@, m), !.up = Append(@, m)]

CastAll(c, scene, p, batch) ==
    LET upTo[i \in 0 .. Len(batch)] ==
            IF i = 0 THEN p ELSE CastFor(c, scene, upTo[i - 1], batch[i])
    IN  upTo[Len(batch)]

(* emit: diff the scene against the baseline and cast, upserts before removes.
   What is refused keeps its baseline entry and is owed until it casts or leaves
   the scene.                                                                 *)
Emit(c, scene, p) ==
    LET diff    == {k \in Key : scene[k] # p.base[k]}
        sent    == {k \in diff : Castable(p.order, k, scene[k])}
        refused == diff \ sent
        gone    == {k \in sent : scene[k] = Absent}
        batch   == SetToSeq(sent \ gone) \o SetToSeq(gone)
    IN  [CastAll(c, scene, p, batch) EXCEPT
           !.base = [k \in Key |-> IF k \in refused THEN @[k] ELSE scene[k]],
           !.owed = {k \in (@ \ sent) \cup refused : scene[k] # Absent \/ k \in refused}]

\* publish: a drag frame is sent on the leading edge of the window or kept for its
\* trailing edge; anything else is sent now.
Publish(c, scene, throttled, p) ==
    IF throttled /\ p.throttle # "idle" THEN [p EXCEPT !.throttle = "frame"]
    ELSE [Emit(c, scene, p) EXCEPT !.throttle = IF throttled THEN "armed" ELSE "idle"]

\* Mutant: an adopt swallows what is owed.
AdoptSwallows(scene, p) ==
    [p EXCEPT !.base = scene, !.throttle = IF @ = "frame" THEN "armed" ELSE @]

\* adopt: the scene becomes the baseline, except that what is owed and still on it
\* keeps its old entry; a frame waiting for the trailing edge is dropped.
Adopt(scene, p) ==
    LET keep == {k \in p.owed : scene[k] # Absent}
    IN  [p EXCEPT !.base = [k \in Key |-> IF k \in keep THEN @[k] ELSE scene[k]],
                  !.throttle = IF @ = "frame" THEN "armed" ELSE @]

\* Mutant: nothing publishes what the gate held.
NeverRelease(c, scene, before, p) == p

\* releaseHeld: an echo that opened a gate publishes what is owed, drag or no drag.
ReleaseHeld(c, scene, before, p) ==
    LET opened == \E k \in Key : p.order.pendingRemoves[k] < before.pendingRemoves[k]
    IN  IF opened /\ p.owed # {} THEN Publish(c, scene, FALSE, p) ELSE p

Becomes(c, scene, publisher) ==
    \E p \in {publisher} :
        /\ canvas'   = [canvas EXCEPT ![c] = scene]
        /\ base'     = [base EXCEPT ![c] = p.base]
        /\ owed'     = [owed EXCEPT ![c] = p.owed]
        /\ throttle' = [throttle EXCEPT ![c] = p.throttle]
        /\ order'    = [order EXCEPT ![c] = p.order]
        /\ up'       = [up EXCEPT ![c] = p.up]

-------------------------------------------------------------------------------
\* What may still be cast, so that the bound on MaxCasts counts every edit once.
Casts == Len(log) + FoldFunction(LAMBDA q, n : Len(q) + n, 0, up)

(* The user edits, and the effect on [nodes] publishes the new canvas.        *)
Edit(c, k, v) ==
    /\ Casts < MaxCasts
    /\ canvas[c][k] # v
    /\ LET scene == [canvas[c] EXCEPT ![k] = v]
       IN  Becomes(c, scene, Publish(c, scene, dragging[c], Publisher(c)))
    /\ UNCHANGED <<dragging, log, pos>>

DragStart(c) ==
    /\ c \in Draggers /\ ~dragging[c]
    /\ Casts < MaxCasts
    /\ dragging' = [dragging EXCEPT ![c] = TRUE]
    /\ UNCHANGED <<canvas, base, owed, throttle, order, up, log, pos>>

\* The drag-stop handler flushes; the settled canvas is then published unthrottled.
DragStop(c) ==
    /\ dragging[c]
    /\ dragging' = [dragging EXCEPT ![c] = FALSE]
    /\ Becomes(c, canvas[c], Publish(c, canvas[c], FALSE, Publisher(c)))
    /\ UNCHANGED <<log, pos>>

\* The throttle's timer: the trailing frame, if one is waiting.
TimerFires(c) ==
    /\ throttle[c] # "idle"
    /\ LET p == Publisher(c)
           q == IF p.throttle = "frame" THEN Emit(c, canvas[c], p) ELSE p
       IN  Becomes(c, canvas[c], [q EXCEPT !.throttle = "idle"])
    /\ UNCHANGED <<dragging, log, pos>>

TtlLapses(c, k) ==
    /\ order[c].pending[k] > 0 /\ k \notin order[c].stale
    /\ order' = [order EXCEPT ![c] = Lapse(@, k)]
    /\ UNCHANGED <<canvas, base, owed, throttle, dragging, up, log, pos>>

\* initCanvasSync's handler: stamp the next cast and fan it out.
Reflect(c) ==
    /\ up[c] # << >>
    /\ LET s == Len(log) + 1
           m == [Head(up[c]) EXCEPT !.seq = s, !.seen = IF @ >= s THEN s - 1 ELSE @]
       IN  log' = Append(log, m)
    /\ up' = [up EXCEPT ![c] = Tail(@)]
    /\ UNCHANGED <<canvas, base, owed, throttle, dragging, order, pos>>

(* onMutation: judge the next entry, apply it and adopt the canvas it leaves.  A
   gate this echo opened publishes what it held (releaseHeld); a canvas that
   changed is published by the effect on [nodes], with everything but what is
   owed already in the baseline.                                              *)
Hear(c) ==
    /\ pos[c] < Len(log)
    /\ LET m       == log[pos[c] + 1]
           applies == Applies(order[c], m, c)
           scene   == IF applies THEN [canvas[c] EXCEPT ![m.key] = m.val] ELSE canvas[c]
           changed == scene # canvas[c]
           heard   == [Publisher(c) EXCEPT !.order = Accepted(@, m, c)]
           adopted == IF changed THEN Adopt(scene, heard) ELSE heard
           freed   == ReleaseHeld(c, scene, order[c], adopted)
       IN  Becomes(c, scene, IF changed THEN Publish(c, scene, dragging[c], freed) ELSE freed)
    /\ pos' = [pos EXCEPT ![c] = @ + 1]
    /\ UNCHANGED <<dragging, log>>

Next == \E c \in Client :
            \/ \E e \in Edits : Edit(c, e[1], e[2])
            \/ \E k \in Key : TtlLapses(c, k)
            \/ DragStart(c)
            \/ DragStop(c)
            \/ TimerFires(c)
            \/ Reflect(c)
            \/ Hear(c)

Spec == Init /\ [][Next]_vars

(* The event loops run, an armed timer fires, a drag ends.  WF_vars(Hear(c)) is
   written out, because TLC evaluates ENABLED of so long a handler very slowly:
   Hear(c) is enabled while c has entries left, and it alone moves pos[c].  An
   armed timer or a drag stays enabled until a step ends it, so their fairness is
   that they are over again and again.                                        *)
FairSpec ==
    /\ Spec
    /\ \A c \in Client :
          /\ WF_up(Reflect(c))
          /\ []<>(pos[c] = Len(log)) \/ []<><<pos'[c] # pos[c]>>_pos
          /\ []<>(throttle[c] = "idle")
          /\ []<>~dragging[c]

-------------------------------------------------------------------------------
(* Properties.                                                                *)

\* Keys on which c has an edit that the log has not answered: drawn and not cast, cast and
\* not acked, or refused and owed since.
Outstanding(c) == {k \in Key : canvas[c][k] # base[c][k] \/ order[c].pending[k] > 0} \cup owed[c]

Replica == INSTANCE CanvasReplica WITH shown <- canvas,
                                       mine  <- [c \in Client |-> Outstanding(c)]

\* Canvas sync implements the replicated canvas: with edits crossing on the bus,
\* TTLs lapsing and gates held, a client shows on every key it has no edit
\* outstanding on exactly what the log it has heard says.
ImplementsReplica == Replica!Spec

Refused(c) == {k \in Key : canvas[c][k] \in TooLarge}

\* Nothing is on its way, nothing but a refused value is held back and no drag is in progress.
Quiet == \A c \in Client : /\ up[c] = << >> /\ pos[c] = Len(log)
                           /\ throttle[c] # "frame" /\ owed[c] = Refused(c) /\ ~dragging[c]

\* canvas-order.ts: "every client ends on the mutation with the highest seq for that
\* node.  Convergence, on any interleaving."  Whenever everything has landed, all
\* clients show one canvas, the log's verdict, but for values the reflector refuses.
Convergence ==
    Quiet => \A c \in Client : \A k \in Key \ Refused(c) :
                 canvas[c][k] = Replica!Verdict(Len(log))[k].val

\* c's casts of k that are still on the bus: not reflected, or reflected and not yet
\* handled by c itself.
OnTheBus(c, k) ==
    Cardinality({i \in DOMAIN up[c] : up[c][i].key = k})
    + Cardinality({i \in pos[c] + 1 .. Len(log) : log[i].src = c /\ log[i].key = k})

\* Rule 2's ground: a key is pending for exactly as many casts as are on the bus, so
\* an unacked cast is later in the order than everything its client has heard, and
\* an acked key never holds a peer off.
PendingMatchesBus ==
    \A c \in Client, k \in Key : order[c].pending[k] = OnTheBus(c, k)

\* Rule 4: what a delivery puts back on a canvas that had dropped the key was cast by
\* someone who had seen the remove (a stale drag frame never resurrects a node).
NoResurrection ==
    [][\A c \in Client, k \in Key :
          /\ pos'[c] # pos[c]
          /\ canvas[c][k] = Absent
          /\ canvas'[c][k] # Absent
          => log[pos'[c]].seen >= Replica!Verdict(pos[c])[k].removed]_vars

\* The refusal rebase: a value the reflector would refuse is never taken for one the
\* peers have.  It stays owed, out of the baseline, whatever a peer sends and adopt
\* takes over, so it is cast the moment it fits.
RefusedStaysDue ==
    \A c \in Client, k \in Key :
        canvas[c][k] \in TooLarge => k \in owed[c] /\ base[c][k] # canvas[c][k]

\* Canvas.tsx: "the applied mutation diffs to nothing and cannot be re-published".
\* Hearing a peer's mutation never casts its key back as an edit of our own.
NothingReceivedIsRecast ==
    [][\A c \in Client :
          pos'[c] # pos[c] /\ log[pos'[c]].src # c =>
              \A i \in Len(up[c]) + 1 .. Len(up'[c]) : up'[c][i].key # log[pos'[c]].key]_vars

\* Whatever is edited, everything lands: casts and echoes arrive, a drag's frames go out, and a
\* re-creation held by the gate is cast, or leaves the canvas, once the bus drains.  The echo
\* that opens the gate is the only thing that would ever publish it.
Settles == []<>Quiet
===============================================================================
