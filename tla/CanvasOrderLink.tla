--------------------------- MODULE CanvasOrderLink ---------------------------
(* One client's ordering state (CanvasOrder) against one connection to the core:
   the casts it makes, their echoes in flight, what its peers send, echoes lost
   on a connection that stays up, the TTL, and a reconnect to the same core or
   to a restarted one.

   The core's side is only what this client can hear of it: `heard` is the
   highest seq delivered on this connection, and every delivery carries a higher
   one (FIFO from a monotone counter; seqs of other keys may be skipped).
   `echoes` is FIFO too: an echo comes back in cast order or not at all.

   `covered` is a history variable: how many of the echoes still due belong to
   casts that LOCAL_CASTS_MAX made the order forget.                          *)
EXTENDS CanvasOrder

CONSTANTS Me, Peer,       \* publisher tags
          MaxSeq,         \* bound on the seqs one core hands out
          MaxInFlight,    \* bound on our casts whose echo is due
          MaxUnacked      \* bound on a key's unacked casts, lost echoes included

ASSUME LinkAssumption == /\ Me # Peer
                         /\ MaxSeq \in Nat
                         /\ MaxInFlight \in Nat
                         /\ MaxUnacked \in Nat

VARIABLES order,          \* this client's ordering state
          echoes,         \* our casts whose echo is still due, oldest first
          covered,        \* how many of them, from the front, are forgotten
          heard,          \* highest seq delivered on this connection
          moved           \* a new connection whose clientId is not known yet

vars == <<order, echoes, covered, heard, moved>>

\* `known` is history: the order still holds what it recorded of the cast (a reset
\* drops every record).
Echo == [key : Key, remove : BOOLEAN, seen : Nat, known : BOOLEAN]

TypeOK == /\ order \in Order
          /\ echoes \in Seq(Echo)
          /\ covered \in 0 .. Len(echoes)
          /\ heard \in Nat
          /\ moved \in BOOLEAN

Init == /\ order = NewOrder
        /\ echoes = << >>
        /\ covered = 0
        /\ heard = 0
        /\ moved = FALSE

-------------------------------------------------------------------------------
(* Canvas.tsx castFor: stamp, refuse a re-creation whose remove is unacked,
   record, send.                                                              *)
CastOne(k, remove) ==
    /\ Len(echoes) < MaxInFlight /\ order.pending[k] < MaxUnacked
    /\ remove \/ ~HasPendingRemove(order, k)
    /\ order' = OnLocal(order, [key |-> k, remove |-> remove])
    /\ echoes' = Append(echoes, [key |-> k, remove |-> remove, seen |-> StampSeen(order),
                              known |-> TRUE])
    /\ covered' = IF /\ Len(order.casts) = LocalCastsMax
                     /\ Len(echoes) - covered = LocalCastsMax
                  THEN covered + 1 ELSE covered
    /\ UNCHANGED <<heard, moved>>

LocalEdit(k)   == ~moved /\ CastOne(k, FALSE)
LocalRemove(k) == ~moved /\ CastOne(k, TRUE)

\* A delivery: the reflector's seq, the sender's seen clamped below it.
Delivery(k, remove, src, seen, s) ==
    [key |-> k, remove |-> remove, src |-> src, seq |-> s,
     seen |-> IF seen >= s THEN s - 1 ELSE seen]

EchoArrives(s) ==
    /\ echoes # << >>
    /\ heard < s
    /\ order' = Accepted(order, Delivery(Head(echoes).key, Head(echoes).remove, Me,
                                         Head(echoes).seen, s), Me)
    /\ echoes' = Tail(echoes)
    /\ covered' = Less(covered, 1)
    /\ heard' = s
    /\ UNCHANGED moved

\* The ui sink drops one message and keeps the connection.
EchoLost ==
    /\ echoes # << >>
    /\ echoes' = Tail(echoes)
    /\ covered' = Less(covered, 1)
    /\ UNCHANGED <<order, heard, moved>>

PeerArrives(k, remove, seen, s) ==
    /\ heard < s
    /\ order' = Accepted(order, Delivery(k, remove, Peer, seen, s), Me)
    /\ heard' = s
    /\ UNCHANGED <<echoes, covered, moved>>

TtlLapses(k) ==
    /\ order.pending[k] > 0 /\ k \notin order.stale
    /\ order' = Lapse(order, k)
    /\ UNCHANGED <<echoes, covered, heard, moved>>

\* A new connection, to the same core or to one whose counter began again.
Reconnect(restarted) ==
    /\ echoes' = << >>
    /\ covered' = 0
    /\ heard' = IF restarted THEN 0 ELSE heard
    /\ moved' = TRUE
    /\ UNCHANGED order

\* Presence resolves our new clientId: createReconnectWatch says reset.
IdLearned ==
    /\ moved
    /\ order' = Reset(order)
    /\ moved' = FALSE
    /\ echoes' = [i \in DOMAIN echoes |-> [echoes[i] EXCEPT !.known = FALSE]]
    /\ covered' = 0
    /\ UNCHANGED heard

Next == \/ \E k \in Key : LocalEdit(k) \/ LocalRemove(k) \/ TtlLapses(k)
        \/ \E s \in 1 .. MaxSeq : EchoArrives(s)
        \/ EchoLost
        \/ \E k \in Key, remove \in BOOLEAN, s \in 1 .. MaxSeq :
               \E seen \in {Unstamped} \cup (0 .. s - 1) : PeerArrives(k, remove, seen, s)
        \/ \E restarted \in BOOLEAN : Reconnect(restarted)
        \/ IdLearned

Spec == Init /\ [][Next]_vars

(* The same link when the user casts on the new connection before presence has
   resolved its clientId: nothing in castFor waits for it.                    *)
EarlyCast(k) == \E remove \in BOOLEAN : moved /\ CastOne(k, remove)

EarlySpec == Init /\ [][Next \/ \E k \in Key : EarlyCast(k)]_vars

-------------------------------------------------------------------------------
(* What the order promises on such a link.                                    *)

EchoesOf(k)  == {i \in DOMAIN echoes : echoes[i].key = k}
CoveredOf(k) == {i \in 1 .. covered : echoes[i].key = k}

\* The re-creation gate is exactly the recorded casts: a key's gate is shut by as
\* many removes as the FIFO record still holds for it.  One more and no echo could
\* ever open it; one less and it opens before its own echo.
GateMatchesRecord ==
    \A k \in Key : order.pendingRemoves[k] = Cardinality(RemovesOf(order.casts, k))

\* The echoes still due that the record has not forgotten are the newest casts it
\* holds, in order: matching an echo to the first recorded cast of its key
\* (accept's findIndex) finds the cast it belongs to or an older, lost one.
RecordAligned ==
    /\ Len(echoes) - covered <= Len(order.casts)
    /\ \A i \in 1 .. Len(echoes) - covered :
          LET c == order.casts[Len(order.casts) - Len(echoes) + covered + i]
              e == echoes[covered + i]
          IN  c.key = e.key /\ c.remove = e.remove

\* Every echo due to a forgotten cast is waited for under its own key, so it can
\* never be taken for the echo of a later cast.
ForgottenAwaited ==
    \A k \in Key : Cardinality(CoveredOf(k)) <= order.forgotten[k]

\* While one of our removes is in flight (and not forgotten by the capped record)
\* its key's gate is shut: no re-creation can be stamped with a `seen` below the
\* remove, whatever echoes were lost or forgotten and whatever else was acked.
GateShutWhileUnacked ==
    \A i \in covered + 1 .. Len(echoes) :
        echoes[i].remove => HasPendingRemove(order, echoes[i].key)

\* An echo still due always finds its pending entry: rule 2 holds a peer's edit off
\* for as long as one of our casts for that key is unacked, and the entry's count
\* never runs out under a burst of casts.
EchoesArePending ==
    \A k \in Key : Cardinality(EchoesOf(k)) <= order.pending[k]

\* Only a key with an unacked cast may be marked overwritten or lapsed: a mark that
\* outlived its pending entry would replay a later echo over the canvas.
MarksArePending ==
    \A k \in order.superseded \cup order.stale : order.pending[k] > 0

\* What the client remembers of its casts is what the link still owes it, whatever echoes
\* were lost, lapsed or forgotten by the capped record: gates, record, forgotten counts,
\* pending counts and marks, all of them at once.
Bookkeeping == /\ GateMatchesRecord /\ RecordAligned /\ ForgottenAwaited
               /\ EchoesArePending /\ MarksArePending

\* Once a new connection is known the client is not deaf: nothing it has recorded
\* outranks what this core has sent, so the next seq of any key is current, even
\* from a core whose counter began again.
NotDeaf == ~moved => \A k \in Key : order.seen[k] <= heard

\* ... and no tombstone outranks it either: a stamped upsert can be stale only
\* against a remove this very connection delivered.
TombstonesHeard == \A k \in Key : order.removed[k] <= order.seen[k]

\* Once the first seq after a reset has been heard, our causal position is a seq of
\* this core: a cast never claims to have seen a remove that was not delivered.
PositionTruthful == ~moved /\ ~order.rebase => order.lastSeq <= heard

\* The position covers all that was seen, so a cast made after a remove was heard is
\* never older than that remove for a peer.
PositionCoversSeen == \A k \in Key : order.seen[k] <= order.lastSeq

\* After any reconnects and restarts, every seq the client keeps or stamps is one that this
\* core has sent it: it is neither deaf to the next mutation nor ahead of what it has heard.
SeqsRight == NotDeaf /\ TombstonesHeard /\ PositionTruthful /\ PositionCoversSeen

\* The causal position moves back only when a delivery resolves a pending rebase.
PositionOnlyRebases ==
    [][order'.lastSeq < order.lastSeq => order.rebase /\ ~order'.rebase]_vars

\* canvas-order.ts on an echo it has no record of (one straggling in after a
\* reset): it "releases nothing, so it cannot push a later remove's count below
\* one".
StragglerReleasesNothing ==
    [][/\ echoes # << >> /\ echoes' = Tail(echoes) /\ ~Head(echoes).known
       => \A k \in Key : order'.pendingRemoves[k] >= order.pendingRemoves[k]]_vars
===============================================================================
