# Termscape: a TLA+ verification of the canvas and its coordinators

Termscape is a canvas of terminals, agents, notes and boards that several people and
several coding agents share. This directory models the parts of it whose correctness is a
matter of order: who saw what before whom, what a restart keeps, what is still owed to a
disk or to a peer. Each module is translated from the TypeScript named in its header;
`PROJECT.json` maps every definition to its lines.

Paths below are relative to `src/src/` unless they start with `docs/`.

Contents: 1 inventory, 2 modules, 3 runs, 4 fairness, 5 proofs, 6 disagreements between
code and claims, 7 what is left out, 8 plan.

## 1. Inventory

Sizes without tests: `core` 112k lines, `renderer` 153k, `main` 32k, `shared` 35k,
`server` 8.7k, `session-host` 4.8k, `preload` 1.2k. Most of it is user interface, parsers
of vendors' formats, and wrappers of native programs. The parts that keep state and
coordinate concurrent actors are these.

| Part | State | Operations | Talks to | What is hard |
|---|---|---|---|---|
| Canvas ordering (`shared/canvas-order.ts`) | seqs seen, unacked casts, tombstones, the re-creation gate, the causal position | `stamp`, `onLocal`, `accept`, `hasPendingRemove`, `reset` | each renderer, the authority | lost echoes, capped records, reconnects to a core whose counter began again |
| Canvas publisher (`shared/canvas-publish.ts`, wired in `renderer/canvas/Canvas.tsx`) | baseline, owed keys, drag throttle | `publish`, `adopt`, drag frames, hold and release | ordering, the bus | own edits applied before they are ordered; refusals; a timer against arrivals |
| Reflector (`core/canvas-sync.ts`) | a counter | stamp and fan out | every client, the authority | nothing of its own: it makes the total order |
| Canvas authority (`core/canvas-authority.ts`) | per shared project: content, unflushed ops, dirty flag, three timers, write in flight | op reflected, flush, retry, adopt, overlay a save, outside edit, share, stop | reflector, workspace store, watcher | adoption and writes await; a file others edit; a disk that fails |
| Workspace store and its watcher (`core/workspace-store.ts`, `core/workspace-watcher.ts`, `server/workspace-external-watch.ts`) | project files, `lastWritten`, a save chain | save, load, watch | authority, tabs | two writers and a reader of one file |
| Delivery queue (`core/agents/delivery-queue.ts`) | a list per target, TTL timers, a durable file | enqueue, idle, requeue, expire, restore | agent messaging, panes, the file | lists shared across awaits; overlapping flushes; restarts |
| Durable facts (`core/durable-state.ts`) | a pending snapshot, a timer, a write in flight | save, flushSync, load | queue, ledger, other owners | coalescing, slow and failing writes |
| Control request ledger (`core/control-request-ledger.ts`) | rows by caller and id, a durable file | begin, settle, settleLate, prune, evict, restore | the hook server's route | retries against running, lost and forgotten calls |
| Session host (`session-host/host.ts`, `generation-barrier.ts`) | per name: a session and its process, turns, kills in progress, completed ids, leases; one grace timer | attach, attachExisting, killSession and its retries, exit, retirement | session-host client of the pty manager | attaches and kills during a retirement; retries after a replacement; leases against the grace exit |
| Remote SSH (`core/remote-ssh/*`) | ssh masters; the spawn gate's permits and queue | take, give, deadline, release | pty manager | a permit released twice or never; starvation |
| GitHub (`core/github/*`) | per identity: read slots, a mutation chain, a rate limit, a generation | read, mutate, wait, cancel | renderer | cancel and limits between two waits |
| Hosted relay (`core/relay/hosted-scheduler.ts`) | listeners, one retry slot, a mint in flight, an hourly budget | start, stop, mint, bridge, refresh, retry | an external relay and backend | which of ten callbacks restores the listener |
| Triggers (`core/trigger-scheduler.ts`, `trigger-arm-store.ts`) | per trigger: canon, next time; in-flight keys; arms | sweep, fire, arm, edit | canvas, messaging | sweeps that overlap at a slow delivery |
| Relay sockets, team shares, presence (`core/presence/*`), watch links | tickets, shares, peers | join, announce | an external relay | stale reads across awaits |
| Agent mirror and hooks (`core/agent-status-mirror.ts`, `core/agents/hooks`) | status per pane | hook events, transcripts | vendors' CLIs | event order decided outside |
| Launch claims (`core/launch-claim-ledger.ts`) | claims, capped | claim | renderers | eviction at the cap |
| Kanban (`shared/kanban-ops.ts`, `shared/kanban-rank.ts`) | boards | ops with fractional ranks | canvas sync | concurrent ranks |
| Browser leases, codex relay, pairing, updates (`main/*`) | leases, child processes | acquire, idle, detach | renderer | an idle timer against a command |
| Pty backends, git, files, accounts, transcripts, speech, renderer UI | mostly external | | | I/O |

What makes the modelled ones correct, in one line each: canvases that have heard everything
show the same thing; a deleted node never comes back by accident; a re-creation is either
held or survives, and what is held is released; what the server owes the disk is written,
and edits made on disk are not lost; a message is delivered in order, once per run, or its
end is told; a file is what its owner last said; a retried call does not run twice and is
answered truthfully; generations of a session do not overlap, and a kill reaches the one it
was sent for; permits, slots and listeners are counted, and whoever waits is served; what is
due is taken, once. `hazards` in `PROJECT.json` lists, line by line, how each could fail.

## 2. Modules

```
CanvasOrder ---- the ordering record and its methods, as operators without state
  |-- CanvasOrderLink      one record against a link that loses, lapses, restarts
  |-- CanvasSync           clients, publishers and the reflector
  |     `-- CanvasReplica  the abstract specification CanvasSync implements
  `-- CanvasAuthority      the server's copy, the project file, its watcher and saves
DurableFact ---- the coalescing file, as operators without state
  |-- DeliveryQueue ---------- MCCore (with MCServices)
  `-- ControlRequestLedger --.
SessionHost -----------------+-- MCOperationIds
PtySpawnGate --.
HostedScheduler |
TriggerScheduler|-- MCServices
RequestCoordinator
SessionHost ---'
Filtering                  a filter of a sequence that proofs can speak of
MC...                      constants and symmetry for TLC

Theorems
IndexLemmas                sequences (counting, filtering, iterating, splitting), and what
  |                        each step of the coalescing file leaves
  |-- CanvasOrderLemmas    what each method of the ordering record returns
  |     |-- CanvasOrderProofs        about CanvasOrderLink
  |     |-- CanvasSyncProofs         about CanvasSync and CanvasReplica
  |     `-- CanvasAuthorityProofs    about CanvasAuthority
  |-- DeliveryQueueProofs            about DeliveryQueue
  `-- ServicesProofs       the spawn gate, the hosted scheduler, the triggers, the request
        |                  coordinator and the session host
        `-- ControlRequestLedgerProofs   about the ledger, and MCOperationIds
```

Definitions marked "Mutant" are plausible slips; no behaviour uses them. Each is put in the
place of the definition it varies, to see that a property notices.

**CanvasOrder.** A record for what `createCanvasOrder` closes over, one operator per
method: `OnLocal`, `Accepted` and `Applies` (the two results of `accept`: new state and
verdict), `Reset`, `StampSeen`, `HasPendingRemove`. `removed` is an insertion-ordered map
with a cap; `casts` is the FIFO record with `LOCAL_CASTS_MAX`; `forgotten` counts casts
the record dropped. A time to live is a step that adds the key to `stale`. Nodes, edges
and board items share one key space in the code, so a key is a model value.

**CanvasOrderLink.** One client and what it can hear. Actions: `LocalEdit`, `LocalRemove`
(castFor's guard included), `EchoArrives`, `EchoLost`, `PeerArrives` (any key, any causal
position below the seq), `TtlLapses`, `Reconnect` to the same or a restarted core,
`IdLearned` (presence resolves the new client id and the order is reset). `Spec` does not
cast between the reconnect and `IdLearned`; `EarlySpec` does, because nothing in `castFor`
waits (section 6).

**CanvasSync.** Every client with canvas, baseline, owed keys, throttle, drag flag and
order; `up[c]` is its outgoing queue, the log is what the reflector stamped and every
client's inbox. `Edit` includes the publish the `[nodes]` effect makes; `Hear` is the
whole `onMutation`: judge, apply, adopt, release what a gate held, publish again if the
canvas changed. The bus is FIFO and loses nothing here. `CastAll`, the loop over the keys of a
batch, and CanvasReplica's `Verdict` are recursive functions, for the proofs.

**CanvasReplica.** The promise: one log, and on every client's canvas, on every key it has
no edit outstanding on, exactly what the log heard so far says. The mapping takes `shown`
from the canvases and `mine` from `Outstanding` (drawn and not cast, or cast and not
acked).

**CanvasAuthority.** One folder project. The clients are one observer, `bus.canvas`: what
a tab shows that has heard every op and has nothing outstanding. CanvasSync is the reason
this is enough. `Adopt` runs to its await; `AdoptionReads` and `AdoptionEnds` are the
file read and the continuation, in which a waiting edit and a waiting save go on. A write
is `Flush`, then `WriteLands` or `WriteFails`. `SaveStarts` is `overlaySave`, `SaveEnds`
the store's folder leg. `ApplyAll` and `ReflectAll`, the loops over a diff, and `Replay` are
recursive functions, which a proof can reason about as it cannot about a fold. `OutsideEdit`, `WatcherLooks` and `WatcherHandsOver` are a git
pull and the two stages of the watcher (its two reads of the file are merged). The code
compares raw bytes where the model compares contents. `boot` and `crossed` are history.
The server cuts tabs off and waits for queued saves before it stops the authority
(`server/index.ts` 1276-1282, 1355-1360): that is `StopBegins`'s guard.

**DurableFact.** `Save`, `TimerFired`, `WriteEnded`, `FlushedSync` over one record. A quit
inside `FlushedSync` is taken to reach the disk; a crash keeps `disk` alone.

**DeliveryQueue.** One target; targets share only the file. Lists have identities, because
`enqueue` reads the map's list, awaits, and pushes to what it read. A turn of
`onTargetIdle`'s loop runs from the map read to the next await (`LoopTurn`). `Gone`, as
`Crash` or `Quit`, leaves the disk; `Boot` is `restore` up to its first await.
`Board` is what a restart may only expire.

**ControlRequestLedger.** A run of the handler is a number that stands for the row object
its claim closes over and for the reply it stores. `Begin` is synchronous as in the code:
prune, look up, answer or claim, evict, mirror to the file. `HandlerReplies`,
`HandlerGivesUp`, `HandlerThrows` and `LateAnswer` are `settle`, `settle` with an
indeterminate reply, `settleUnknown` and `settleLate`. Unverified callers and dry runs
pass the ledger by and are left out. Effects are counted as runs. Two history variables keep
apart how a row can be lost: `forgot` is what retention, a cap or a crash before the row was
on disk took; `cut` is what a clean quit left off the disk. `Quit` is `HookServer.stop`: its
`flushSync` has the pending snapshot to write, or the newest one is written already
(`Flushes`); if that one is still in flight it may land or not, and if its write failed it is
gone. `LeftOut` is the rows which the resulting disk lacks then, and those for which the
file, bounded by `maxRecords`, has no room. Nothing that is on the disk is ever in either set.

**SessionHost.** One session name; names share only the grace timer. A generation is one
process, with how far its retirement is. The coordinator's promise chain is the sequence
`turns`; `AttachWarm`, `Spawned`, `NotSpawned`, `WarmEnds`, `ColdEnds` and `Undone` are what
`handleAttach` and `handleAttachExisting` do between their awaits, refusals merged. `Kill` is
`handleKill` up to its first await, `Decide` the rest of it, shared with `KillResumes`;
`BeginKill` covers both platforms: POSIX sends a signal in the same step, Windows waits for
`taskkill` (`TaskkillDone`, `TaskkillFails`). `Drained` is the continuation of
`publishSessionEnd`. `Forgets` and `LeaseLapses` are the caps and clocks of completed ids and
leases; the grace timer needs no clock but whether it was armed before the lease, as the two
last equally long. `leased` and `started` are history.

**PtySpawnGate.** One control path. `Acquire` is `acquire` up to `take`'s promise, `GoOn` its
continuation, `Deadline` and `Released` the two sorts of caller of `release`. `stage` is where
the caller in `pty-manager.ts` is.

**HostedScheduler.** Listeners are counted, not named. `Top` is `top` up to its await, called
from nine places as in the code; `Minted` (with every result of `open`), `MintedStopped` and
`MintFailed` are its continuation with the `finally`. `pending` holds the `opening` flag, the
retry slot and the queued microtask.

**TriggerScheduler.** `Sweep` lists in one step and walks to the first delivery, `FireEnds`
walks on. `Sweeps` bounds how many overlap. `canvas` is the environment: a trigger is edited,
deleted, brought back, armed, disarmed at any time. `slots` and `twice` are history.

**RequestCoordinator.** One identity. Instants are kept as time left. `Hold` is one turn of
`waitForRate`'s loop, `Drain` is `drainReads`, `CancelIdentity` makes what waits stale.

**MCOperationIds, MCServices.** Components that share no state would multiply in a product and
show nothing new: a variable (`at`, `whose`) picks one of them in the initial state and the others stand
still. Every property is still one of the whole specification, since a component that stands
still satisfies it.

**MCCore.** MCServices and a delivery queue beside them. Every behaviour of `CoreSpec` is one of
`ServicesSpec` and of the queue's `Spec`, so what is proved of these holds of it. A queue may come
to rest with everything ended, so its steps include the one that changes nothing.

## 3. Runs

TLC, two workers, distinct states and time without coverage statistics (which cost up to
twice as much). Every bound is a constant of the `.cfg`.

| Run | Instance | States, time | Asks |
|---|---|---|---|
| `order_link` | 2 keys, one tombstone, 2 recorded casts, 3 echoes in flight, 2 unacked per key, 2 seqs | 123 k, 7 s | the ordering record on a bad link: gate, record, suppression, causal position |
| `sync_replica` | 2 clients, 2 keys, 2 values and one too large to cast, which is drawn on the second key only, 3 casts | 215 k, 16 s | convergence, refused values, CanvasSync implements CanvasReplica |
| `sync_hold` | 2 clients, one drags, 1 key, 3 casts | 371 k, 24 s | no resurrection, counts match the bus, all that is owed settles |
| `sync_drag` | 2 clients, one drags, 2 keys, 2 casts | violation | convergence under drags (section 6) |
| `authority` | 2 keys, 2 ops, 1 save, 1 outside edit, 1 share toggle, at most 3 of these together | 433 k, 34 s | no op is lost; file, authority and tabs agree; what is owed is on its way, and is written |
| `authority_edit` | 1 key | violation | an adopted edit stays on disk (section 6) |
| `queue_restart` | 1 plain message, 1 board comment, 2 sessions, capacity 1, 2 enqueues at once, 1 flush, 1 exit | 1.3 M, 64 s | timers, order, sessions, the only way to drop |
| `queue_dropped` | 2 messages, 2 enqueues at once | violation | never a silent drop (section 6) |
| `operation_ids` | ledger: 2 callers, 1 id, 2 versions of the call, 3 runs, caps of 1, clock to 1, 1 exit; session host: 1 client, 2 kills, 2 generations | 1.1 M, 140 s | no second run of a call whose row was not lost, true answers, one generation, exact kills, honoured leases |
| `ledger_quit` | ledger: 2 callers, 1 id, 3 runs, caps of 2 and 3, clock to 1, 1 exit | violation | a clean quit loses no row (section 6) |
| `core_services` | spawn gate: 4 terminals, 2 permits; hosted scheduler: 3 mints an hour, 2 viewers; triggers: 2, both every minute, clock to 1, 2 sweeps at once; requests: 2 reads, 1 mutation, 1 slot, a rate limit 2 ticks away against a wait of 1; session host: 2 clients, 1 kill, 2 generations; delivery queue: 2 messages, capacity 2, 1 enqueue and 2 flushes at once, no exit | 70 k, 4 min, nearly all of it liveness | counts that must hold, and liveness of each service; of the queue, one place, one end, the file follows, all ends |
| `trigger_twice` | 2 triggers every 2 ticks, clock to 4, 2 sweeps at once | violation | one firing per due slot (section 6) |

Why the bounds are enough to meet the cases. `order_link`: one entry more than the cast
record holds, one more than the tombstone map holds, a lost echo in front of a due one,
and a second life of the core whose seqs repeat the first's. `sync_*`: the shortest
histories that tell the rules apart are a drag frame crossing a remove and a re-creation
crossing its own remove; they need two clients, one key and three casts. (One key with four
casts passes `sync_replica` too, 352 k states.) `authority`: one edit meets ops unflushed,
in flight and landed, a save overlaid before or after, on the same and on the other key.
`queue_*`: one slot and two messages reach the full answer, the overtaken list and both
kinds of requeue; the second session is the one a restored message must not go to.
`operation_ids`: with a cap of one every second caller evicts, and three runs are what it
takes for a key to be claimed, evicted and claimed again; two kills and two generations are
what it takes for a retry to meet a replacement, and two clients add nothing there but the
wait for a turn, which `core_services` has. `core_services`: the gate needs a waiter of each
class behind a full gate and a second in one class; the scheduler needs a viewer cap above
one and a budget it can exhaust; the requests need one more read than slots, and a limit
beyond the longest wait so that a request is refused as well as held; the queue needs a second
message to overlap a flush with, and no restart, which `queue_restart` has. `ledger_quit`: the
caps leave room in the file, so that the violation is the unfinished write.

Known edges of these instances. No run puts a board order op (`OrderKey`) on the bus.
`TooLarge` is empty in `authority`. `operation_ids` has `ttlMs = inFlightStaleMs = 0`, so a
row is forgotten before it would be reported stale; with `Ttl = 1`, `MaxNow = 2` and the
session host cut to one kill and one generation it reaches both and passes (3,173,185
states), and so does one caller with two ids and caps of two (893,890). The authority's
agreement properties are stated under `Baseline` (shared, and readable, since the boot): a
project shared later starts from whatever its file holds while tabs may show more, a window
`docs/hosted-team-relay.md` describes, and tombstones older than the share are unknown to
the authority's order. `HeldEnds` is checked with enqueues that do not overlap; with
three messages and overlapping enqueues it fails through the overtaken list of section 6.
`DueIsTaken` is checked with schedules that recur; a `once` is spent by the sweep that takes
it, so it cannot stay due either.

Deadlock is checked in `order_link`, `core_services` and `trigger_twice`. Elsewhere, with
every bound used up and nothing on its way, the modelled system rightly stops.

What the properties say:

* `Bookkeeping` (the re-creation gate is a count over a FIFO record; the record, capped and
  with lost echoes in it, still ends with exactly the echoes due; suppression lasts as long
  as an echo is due and no mark survives it), `GateShutWhileUnacked` (what that is for),
  `SeqsRight` (what a reset may keep). Each is a conjunction of named parts.
* `Convergence`, `ImplementsReplica`, `RefusedStaysDue`, `PendingMatchesBus`,
  `NoResurrection`, `Settles`: the canvas end to end.
* `NoOpIsLost`, `Agreement`, `OwedIsOnItsWay`, `GetsWritten`, `EditsStay`: authority, tabs
  and file.
* `WaitingIsTimed`, `InOnePlace`, `ToldOnce`, `OldestFirst`, `RestoredKeepsSession`,
  `OnlyOvertakingDrops`, `NothingDropped`, `HeldEnds`, `FileFollows`: queue and file.
* `RunsOnce`, `AnswersAreTrue`: the ledger. `RunsOnce` allows a second run after the row was
  lost in one of four ways: retention, a cap, a crash before it was on disk, a quit that left
  it off the disk. The header of the ledger grants the first three and denies the fourth:
  `RunsOnceOverQuits`, which the code violates.
* `OneGeneration`, `KillsAreExact`, `LeaseHonoured`, `RequestsAnswered`: the session host.
* `PermitsHeld`, `VisibleServed`: the spawn gate. `ListenerKept`, `KeepsTrying`: hosting.
  `OncePerSlot`, `DueIsTaken`: triggers. `SlotsCounted`, `EveryoneAnswered`: requests.

## 4. Fairness

Safety is checked under `[][Next]_vars`; a conjoined fairness takes no finite behaviour
away. Liveness assumes what the event loop gives.

* CanvasSync (`sync_hold`): the reflector takes the next cast, each client handles its
  inbox, an armed throttle timer fires, a drag ends. Handling the inbox and the timer are
  written as "again and again nothing is left, or a step is taken", equivalent to weak
  fairness, since `ENABLED` of the long handler is slow to evaluate. Users are under no
  obligation to edit or to stop: `Settles` holds because edits are bounded by `MaxCasts`.
* CanvasAuthority (`authority`): timers fire, adoptions, saves and the watcher get
  on, every write ends, and a disk that could take the write again and again takes it once.
  The last is a strong-fairness assumption on the disk; without it the backoff goes on
  for ever, as it should. `GetsWritten` is about a file that stays readable, since the code
  refuses to write over one it cannot parse.
* DeliveryQueue (`core_services`): an awaited trace, a delivery and a report end (weak), a due
  TTL timer fires (strong: a claim cancels the timer and a requeue arms it for the time
  *left*, so a claim would have to fall into each of those moments for ever). No fairness
  on the target: it may never go idle.
* Spawn gate: continuations run and deadlines fire. No pty ever has to speak, no spawn to
  succeed; hidden terminals are promised nothing, as a stream of visible ones may pass them.
* Hosted scheduler: microtasks run, the retry timer fires, mints age out of the hour. The
  backend and the relay need never answer; then a mint in flight stays in flight, which is
  why `KeepsTrying` asks for an attempt and not for a listener.
* Triggers: the interval ticks and sweeps while it is on, and a delivery settles, in
  whatever way (`deps.fire` ends in a verdict or throws).
* Requests: time passes, sleepers wake, continuations run, and a request ends, which
  `core/github`'s client guarantees by its time limit.
* Session host: continuations and the drain of output go on, and a process that was
  *signalled* exits. One that was not may live for ever.

## 5. Proofs

Eight modules of proofs are checked by TLAPS for every value of the constants: any finite key
set, any caps, any number of clients, messages, lists, calls, operations, generations,
terminals, permits, requests, slots and triggers, and any losses, lapses, reconnects, restarts,
failures, edits and retries. They assume the named assumptions of the modules they are about.
Every safety invariant that a passing run checks is proved, every action property, and the
refinement of CanvasReplica. Nine of these theorems assume more than the module does, and say
so; below is why, and that each hypothesis is needed:

| Theorem | Assumes |
|---|---|
| `LosesNoOp`, `AgreeInTheEnd` | no value is too large for an op |
| `OldestTypedFirst` | one flush at a time |
| `RefusedIsStillDue` | nobody drags, and what was loaded fits an op |
| `NothingIsResurrected` | no tombstone is evicted, no board order key is removed |
| `ClientsConverge`, `SyncImplementsReplica` | both of these, nobody drags, and no client has more than `LocalCastsMax` casts out (`FewOut`) |
| `FiresOncePerSlot` | sweeps do not overlap, or there is one trigger |
| `FlushedQuitsLoseNothing` | every quit finds a snapshot to flush or the newest one written, and no more rows than the file has room for |

| Theorem | Statement | Argument |
|---|---|---|
| `TypeCorrect` | `TypeOK` of CanvasOrderLink | one lemma per method (`OnLocalFields`, `HeardFields`, `AckFields`, `MatchEchoFields`, `AcceptedFields`): its result is an `Order` and what it leaves alone; then one step per action |
| `SeqsCorrect` | `SeqsRight` | inductive with `RebaseIsFresh` (a pending rebase has recorded no seq): without it the first delivery after a reset could move the position below a recorded seq |
| `PositionRebases` | `PositionOnlyRebases`: the position moves back only in the delivery that resolves a rebase | from the seq lemma of a delivery |
| `GateIsShut` | `GateShutWhileUnacked` | from `GateInv` |
| `BookkeepingHolds` | `Bookkeeping` | `GateInv` is inductive |
| `TypeCorrect`, `OnItsWay`, `FlushLosesNothing` | `TypeOK`, `OwedIsOnItsWay`, `UnflushedCovers` of CanvasAuthority | `AuthorityInv` is inductive |
| `LosesNoOp`, `AgreeInTheEnd` | `NoOpIsLost`, `Agreement`, where `TooLarge = {}` | the same |
| `NeverTakenTwice`, `WaitingTimed`, `FileIsList`, `TypeCorrect` | `InOnePlace`, `WaitingIsTimed`, `FileFollows`, `TypeOK` of DeliveryQueue | `QueueInv` is inductive |
| `EndsOnce`, `SessionKept`, `OnlyOvertaken` | the action properties `ToldOnce`, `RestoredKeepsSession`, `OnlyOvertakingDrops` | one step per action, under `QueueInv` |
| `OldestTypedFirst` | `OldestFirst`, where `MaxFlushing = 1` | `OrderRight` is inductive under `QueueInv` |
| `PendingIsOnTheBus`, `TypeCorrect` | `PendingMatchesBus`, `TypeOK` of CanvasSync | `BusInv` is inductive |
| `RefusedIsStillDue` | `RefusedStaysDue` | `FitsInv` is inductive under `BusInv` |
| `NothingIsResurrected` | `NoResurrection` | `TombInv` is inductive under `BusInv` |
| `ClientsConverge` | `Convergence` | `ReplicaInv`, the three and `FollowInv`, is inductive where no step leaves more casts out than the record holds |
| `SyncImplementsReplica` | CanvasSync implements CanvasReplica (`ImplementsReplica`) | the first state maps to a first state (`StartsReplica`), every step to a step or a stutter (`StepsReplica`), under `ReplicaInv` |
| `CallsRunOnce`, `TrueAnswers`, `TypeCorrect` | `RunsOnce`, `AnswersAreTrue`, `TypeOK` of ControlRequestLedger | `LedgerInv` is inductive |
| `FlushedQuitsLoseNothing` | `RunsOnceOverQuits`, under that hypothesis | `cut` stays empty, under `LedgerInv` |
| `PermitsAreHeld`, `NobodyIsForgotten` | `PermitsHeld`, `QueueIsTheWaiting` | `GateInv` of ServicesProofs |
| `OnScreenGoesFirst` | `VisibleFirst` | `GateInv`, and what `NextWaiter` chooses (`NextWaiterIs`) |
| `ListenerIsKept` | `HostedTypeOK`, `ListenerKept` | `HostedInv` is inductive |
| `GenerationsAreOne`, `KillsConfirmExits`, `LeasesAreHonoured` | `OneGeneration`, `KillsAreExact`, `LeaseHonoured` | `SessionInv` is inductive |
| `TurnsAreTaken` | a request is in its name's queue of turns once, and goes on only at its head | `HostInv`, which is `SessionInv`, the turns and the other types |
| `SlotsAreCounted` | `SlotsCounted` | `ReqInv` is inductive |
| `FiresOncePerSlot` | `OncePerSlot` | `OnceInv` is inductive under `TriggerInv` |
| `ServicesTypes` | `ServicesTypeOK`: every type of the five services | a step is one service's (`StepsAreOne`), and each has its inductive invariant |
| `IdsTypes` | `IdsTypeOK`: the ledger's types beside the session host's | `LedgerInv` and `HostInv` |

**The gate of a re-creation.** `GateInv` of CanvasOrderProofs is `Bookkeeping` together with
`MovedIsSilent` (between a reconnect and the reset nothing of ours is in flight). None of
its parts is inductive alone: the gate is a count of removes in the record, so it is shut
for an echo in flight only if the echo is *in* the record, which is `RecordAligned`;
alignment survives an echo of a forgotten cast only if that echo is awaited under its own
key, `ForgottenAwaited`; and matching the first record of a key is right only if nothing
before it is still due. The counting lemmas (`ShiftCount`, `TailCount`, `AppendCount`,
`DropCount`) say how the number of indices with a property changes when a sequence loses
its head, gains an element or drops a prefix; `EchoKeepsGate` puts them together for a
delivery of our own echo. `MovedIsSilent` is where `Spec` differs from `EarlySpec`, in which
the gate may really open early (section 6).

**Canvas sync.** The argument goes up in four invariants. `BusInv` is what a client's own
books say of the bus: a key's pending count is the casts of it in the outgoing queue and the
unheard rest of the log, whatever is dragged, lapsed or forgotten, because the count is kept
by the echo itself and not by the record. `FitsInv` is what is owed: a client that never waits
for a drag frame shows its baseline on every key it owes nothing on, and only values that fit
an op enter a baseline. A dragger's frame is neither owed nor in the baseline, which is the
finding of section 6. `TombInv` is what is buried: every client has a tombstone exactly where
the log it has heard ends in a remove, of the same seq. This is where the cap matters: an
evicted tombstone is a remove forgotten, and a board order key never gets one.

`FollowInv` is the replica. For each client it takes the queue of its own casts not heard back,
those in the rest of the log and then those still on their way, and says three things of it.
`QueueRight`: the record of casts is this queue, entry by entry, and a remove in it is followed
by no re-creation of its key, since the gate would hold it. `BaseAt`: the baseline of a key with
nothing in the queue is the log's verdict, and of one with casts out the last cast, unless a
peer's later value was applied over it or a peer's remove took the key away. `OwedAt`: what is
owed is on the canvas, and in the baseline or held off by the gate or its size. When an own echo
comes the first cast leaves the queue (`ShortenedQueue`) and the baseline of its key must be
what the log has just judged: the case of the last cast of a key (`OwnBase`) is where
suppression, the tombstone's seq and the stamp of the cast meet, and is the heart of it. A
peer's entry changes the verdict under the queue (`PeersBase`). Casting appends to the queue
(`EmitFollows`), and a remove whose echo opens a gate lets what was held be cast
(`GateOpens`). With the bus quiet the queue is empty, and the canvases are the verdict; with
nothing outstanding on a key the canvas is its baseline and the baseline the verdict, which is
what CanvasReplica shows.

None of the hypotheses can be dropped. With two clients, two keys, two values and four casts TLC
finds `ImplementsReplica` violated with `RemovedMax = 1` (326 k states), with
`LocalCastsMax = 1` (314 k), and with an `OrderKey` that is removed (9 k; never removed, it
passes: 195,647 states), and `Convergence` violated with either cap at 1 (3.3 M and 2.7 M);
`sync_drag` is the drag. In the code the caps are 512 tombstones and 4096 casts, what they
give up beyond is said there (`canvas-order.ts:91-112`), and the desktop never removes an order
key. The cap on casts is a condition on the bus: `[]FewOut` says that no client ever has more
than `LocalCastsMax` of its casts out, on their way or not heard back, and that the record
forgets nothing then is proved (`PublishRemembers`, `SendsRemember`). Where a cast may be
forgotten or a frame dragged, `TypeCorrect`, `PendingIsOnTheBus` and `NothingIsResurrected`
still hold.

**The canvas authority.** What the authority promises is about three copies, so
`AuthorityInv` says of each what it may lack. `GovRight` is the project's own books: how many
of the unflushed ops the write in flight will retire, and that a dirty project has a write or
a timer, and a failed one only the retry. `VerdictRight` is rule 1: the order and the content
are a tab's own, step by step, because both hear the same op with the same operators (`Same`;
one lemma for ops, one for a diff as a sequence of ops). `NoEditRight` is rule 3 while nobody
edits the file: the last unflushed change of each key is what the content shows (`LastShown`)
and everything else is on disk (`Within`), which is also true of the write in flight against
the ops behind it (`Rest`) and of an overlaid save that has not landed. `ReplayIs` and
`ReplayMakes` turn these two into the equation `UnflushedCovers` states, since a replay is
the last change of each key and the file elsewhere. `EditRight` is for a file that others
edit: a clean project's content is the file as last known, and whatever else the file says
has stirred the watcher. `DrainedRight` is the stop. The proof attempt found it too weak: that
a stop leaves nothing unwritten does not survive a write that lands while the drain has
more to write, unless no such write is in flight by then, which TLC agrees it never is
(`gov.writing # None => ~gov.dirty`). TLC checked the invariant first (433,454 states with
`authority.cfg`, 232,881 with an oversized value).

`TooLarge = {}` in `LosesNoOp` and `AgreeInTheEnd` is not a convenience. A value that does not
fit an op never travels as one: an outside edit or an overlaid save with such a value reaches
the authority's content and no tab (`Reflect`, `Oversized`; `canvas-authority.ts` 465). With
one such value TLC finds both properties false in four states.
What needs no such hypothesis is proved without
it: `OwedIsOnItsWay`, `UnflushedCovers` and the types.

**The delivery queue.** A message is on at most one list because lists share nothing and what
was taken off a list is in one delivery or one report: `ListsRight` and `TakenRight`, each
needing the other whenever an entry moves. Lists have identities since an enqueue pushes to
the list it read before its await; so entries may sit on a list the map no longer holds, and
those are exactly the dropped ones (`l # here => fate[m] = "dropped"`). A first attempt had
every waiting message timed; the proof failed where a dropped message comes back, and the
behaviour is real: of three enqueues that overlap at the awaited trace one drops another's
list, the timer of the message on it fires and finds it on no list
(`delivery-queue.ts:488-490`), and the third puts that list back. It takes three messages
and is beyond the runs' instances. `WaitingIsTimed` therefore excepts messages an overtaking enqueue had dropped.
`FileRight` says which snapshot is the list: the pending one, else the one in flight, else
the disk. `OrderRight` orders what is kept by arrival and puts what is in delivery in front
of what waits; a second flush takes the next message while the first is still in delivery,
and TLC shows `OldestFirst` false then (section 6): hence `MaxFlushing = 1`.

**The ledger.** `RunsOnce` is about runs whose row was lost, so its invariant has to say where
the row of any other run is: in the ledger, or, while the process is down, in the file
(`Remembered`). An exit adds to `forgot` or `cut` only what its disk lacks, so the work is to
show that a quit which flushes lacks nothing the file has room for. That is `Covers` for
whichever snapshot is the newest: the pending one, else the one in flight, else, unless its
write failed, the disk (`FlushedQuit`); and it needs the rows in the order the file keeps them.
The invariant cannot do without `cut`: a quit that finds the newest snapshot in flight or
failed has nothing to flush, and the header's claim holds only where no quit does
(`FlushedQuitsLoseNothing`). TLC shows both of its conditions needed: with quits restricted to
`Flushes`, `RunsOnceOverQuits` holds in the instance of `ledger_quit` and fails there with caps
of one.
`RunsRight` ties handlers at work to
rows in flight: only retention takes a row from under its handler. `AnswersAreTrue` needs
`ListTrue` of every snapshot as well as of the rows: a restored row answers for a run of an
earlier process. The proof found a slip of the model: the cases of the answer overlapped, so
what a call past retention was told depended on the order of a `CASE`.

**The spawn gate.** A permit handed straight to a waiter leaves the count alone, so the
count is right only if the waiter was waiting and the giver was holding: the queue must be
exactly the terminals whose stage is `queued`, each once. `GateInv` of ServicesProofs is `PermitsHeld`,
`QueueIsTheWaiting` and the types; cardinalities change by one because the giver and the
receiver are different terminals.

**The hosted listener.** `HostedInv` adds to `ListenerKept` what the flag and the counters
say of one another: `opening` is set exactly while a mint is in flight, and a mint in flight
is inside the budget it will be counted against. `HostedFacts` is the same invariant with
the parts spelt out, so that the SMT solver never sees a set of strings it must compare.

**The session host.** `SessionInv` has five parts: `Typed`; `Lives` (all but the last
process are over, and the name belongs to the last until its output is drained); `Ends`
(an operation completed or answered has seen its process exit, the one a generation's end
will confirm was sent for that generation, and the one in progress for the current one);
`Leases`; `Attaches` (a request works on a generation that has begun). `KillsAreExact` needs
`Ends` because a confirmation is decided at one step and given at another; `LeaseHonoured`
needs it because the drained end of a generation takes the lease for the operation it found
at its start. TLC checked `SessionInv` on a larger instance first (two clients, two
operations, two generations, 2.3 M states). It needs nothing of the turns; `TurnsTaken` says
what the coordinator gives: a request is in the queue once, from its claim to its answer, and
the one that has gone on is the head.

**The request coordinator.** `ReqInv` adds to `SlotsCounted` that the queue holds reads that
wait, each once, and that the chain holds exactly the mutations not yet over, each once.
`drainReads` may give several slots at once, so the count is right only if the reads that
leave the queue are as many as the slots taken: `FirstElements` (the first n elements of a
sequence without repetition are n) and `DrainCounts`, which is stated for any queue and
count, and is used both where a read joins the queue and where one gives its slot back.

How long a request sleeps is a matter of its own (`Paced`): no sleep is longer than the farthest
reset and the spacing together, and no deadline farther than the cap, since a turn of
`waitForRate`'s loop sets the deadline on entry only.

**The triggers.** A sweep lists entries and works through them later, so `OnceInv` says that
what is still ahead of it is untouched since: every entry behind the first is known, has the
slot it was listed with as its next, and is due by the sweep's own time (`Listing`); and every slot
fired lies before its trigger's next one (`Ahead`). Advancing a trigger puts its next slot strictly
past the sweep's time (`NextFireAhead`), so what is fired cannot be listed again. Another sweep
in between breaks `Listing`, which is the finding; hence `Alone`: at most one sweep under way, or
at most one trigger, where a sweep has nothing behind its first delivery. TLC checked
`OnceInv` with one sweep (15,552 states) and the types with two (83,712).

With TLC only: all liveness (`Settles`, `HeldEnds`, `GetsWritten`, `VisibleServed`,
`KeepsTrying`, `DueIsTaken`, `EveryoneAnswered`, `RequestsAnswered`), which with `ENABLED` is
out of the prover's reach; and what section 6 says is violated. Recursion is within reach where
it is written as a recursive function over `0 .. n`: `LeastIndex` (a non-empty set of indices has a least one) is
the only induction the library has without an operator parameter, `Along` follows from it,
and `Iterates` shows that such a function exists and what it is at each index. The community
modules' folds, whose body is an operator, are not.

## 6. Disagreements between the code and what is said of it

Five are runs that end in a violation and are listed under `findings`.

| Run | Property | What happens |
|---|---|---|
| `sync_drag` | `Convergence` | `adopt` during a drag drops the trailing frame and takes the dragged position into the baseline (`canvas-publish.ts:345-348`); nothing casts it, and the peers never see the final position |
| `queue_dropped` | `NothingDropped` | two enqueues for a target without a list overlap at the awaited trace; the later `set` replaces the other's list (`delivery-queue.ts:369`, 394-395) |
| `authority_edit` | `EditsStay` | a save overlaid before an outside edit was adopted lands after it; the authority is clean and the edit is off the disk (`canvas-authority.ts:467`). This concerns the time after the watcher's hand-over; the window before it is documented at `workspace-store.ts:1372-1376` |
| `ledger_quit` | `RunsOnceOverQuits` | a write takes the snapshot out of `pending` as it begins (`durable-state.ts:271`), so a quit before its rename, or after its failure, finds nothing to flush and returns (222-223): a row claimed before a clean quit is gone after it and a retry runs the call again, against `control-request-ledger.ts:42-43` ("a clean quit flushes synchronously") and `durable-state.ts:102` ("`null` when disk is current"). The same return leaves a queued message off the queue's file, where the model calls it `lost` |
| `trigger_twice` | `OncePerSlot` | a sweep lists what is due (`trigger-scheduler.ts:191`) and delivers it one await at a time (201-225); behind a slow delivery a trigger is still due and not in flight, so the next sweep fires it, and then the first one does, for the same slot |

The others are stated in the modules and can be reproduced by naming the property in the
`.cfg` given, in place of its properties.

| Property | Where | Result | Claim |
|---|---|---|---|
| `StragglerReleasesNothing` (CanvasOrderLink) | PROPERTY in `order_link.cfg` with `SPECIFICATION EarlySpec` | violated, 7 states: the key has been cast again on the new connection when the old echo comes | `canvas-order.ts:454-462`; `canvas-order.test.ts:565-572` tests the early straggler only |
| `NothingReceivedIsRecast` (CanvasSync) | PROPERTY in `sync_replica.cfg`, where it holds; violated there with `Edits <- AllEdits` and `MaxCasts = 2` | violated, 5 states: a key with a refused value keeps an old baseline, and a peer's value then diffs against it | `Canvas.tsx:4922-4924` |
| `WithinCapacity` (DeliveryQueue) | PROPERTY in `queue_restart.cfg` | violated, 7 states: the check precedes the await | `delivery-queue.ts:359-370`, "never enqueues past capacity" |
| `AtMostOnce` (DeliveryQueue) | INVARIANT in `queue_restart.cfg` | violated, 10 states: the claim waits for the coalescing timer, and a crash restores the message | `delivery-queue.ts:421-423`; the window is accepted at `durable-state.ts:57` |
| `LapsedStayOnDisk` (DeliveryQueue) | INVARIANT in `queue_restart.cfg` | violated, 9 states: another save during restore's reports drops them from the file | `delivery-queue.ts:582-584` |
| `OldestFirst` (DeliveryQueue) | PROPERTY in `queue_restart.cfg` with `MaxFlushing = 2` | violated, 8 states: the second flush takes the next message while the first is in delivery | `delivery-queue.ts:406-418` |
| `InFlightStored` (ControlRequestLedger) | INVARIANT in `operation_ids.cfg` | violated, 5 states: the file keeps the last `maxRecords` rows, whatever their state (`durable-state.ts:198`, `control-request-ledger.ts:570`), so with more than 4096 in flight the oldest are not in it | `control-request-ledger.ts:27-28`, "An in-flight row is never evicted by a cap" |
| `EditReachesTabs` (CanvasAuthority) | PROPERTY in `authority_edit.cfg` | violated, 6 states: an op adopts the project from the edited file, so the later hand-over diffs to nothing | `workspace-external-watch.ts:67`, `canvas-authority.ts:451-455` |
| `UnsharedSaveStands` (CanvasAuthority) | PROPERTY in `authority_edit.cfg` | violated, 5 states: a retry that was pending at `team unshare` writes older content over a newer save | `docs/hosted-team-relay.md:745` |

## 7. Not modelled, and why

The repository has some 350 thousand lines, nine tenths of which are user interface, parsers
of vendors' formats, platform glue and wrappers of external programs: they keep no protocol
of their own, and a model of them would be a transliteration. That is why the modules stand
for about 3,000 lines: the ones that decide an order.

* Canvas publisher: edge and endpoint holds, the snapshot a joiner loads and edits made
  while it loads, edits before a peer is known. CanvasSync starts from one loaded canvas.
  Losses and reconnects are in CanvasOrderLink only; the two are not composed.
* Reflector: schema checks, logging, the stripping of pending launches.
* Authority: `overlayLoad` and `flushAll` (they read, or repeat `Flush`); several projects
  (they share nothing but the reflector); the fields of a project other than its canvas.
* Workspace store: indexes, migrations, backups, remote projects.
* Durable facts: file validation, `standDown`, file modes.
* Ledger: the HTTP route, fingerprinting, reply sizes other than `Large`.
* Session host: `handleShutdown`, geometry and its writers, pause tickets and socket flow,
  the launch typed into a fresh session, the bytes.
* Hosted scheduler: how long each wait is; which listener is which.
* Triggers: the run history ring, the arm store's file, `executed` and `missed` records.
* Request coordinator: budgets that stop only background polls, several identities.
* Everything marked `not_modelled` in `PROJECT.json`: user interface, parsers, native
  programs and other I/O, and the coordinators of section 8 that are still to come.

## 8. Plan

Done, the most important behaviour first: CanvasOrder with its link and proofs; CanvasSync
and CanvasReplica; DurableFact and DeliveryQueue; CanvasAuthority; ControlRequestLedger; the
spawn gate, the hosted scheduler and the session host, each with its proofs; the triggers;
the request coordinator.

Worth doing next:

1. The browser session of `main/browser-lease.ts`, whose every step may attach the debugger.
2. Publisher edges and endpoint holds; join and load; CanvasSync composed with reconnects.
3. The held launch: consent, claim, write-ahead mark and delivery over several viewers
   (`renderer/terminal/launch-*.ts`, `core/launch-claim-ledger.ts`).
4. The session host's pause tickets; presence.
5. Kanban ops and ranks as pure operators against a reference order.

Theorems: every safety property the runs check is proved. Worth proving next is what holds of
CanvasSync where a hypothesis fails: the clients that never drag beside those that do, and a
replica of the keys whose tombstones were kept. New modules of this list come with theirs.
