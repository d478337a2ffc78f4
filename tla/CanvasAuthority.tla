---------------------------- MODULE CanvasAuthority ----------------------------
(* The Server Edition's canvas authority (core/canvas-authority.ts) for one project
   kept in a folder, with what it works between: the reflector's total order
   (canvas-sync.ts), the store's project file (workspace-store.ts), the watcher of
   that file (workspace-watcher.ts, workspace-external-watch.ts) and the saves of the
   browser tabs, which the authority overlays.

   The clients are one observer: `bus.canvas` is what a tab shows that has heard every
   op and has no edit of its own outstanding (CanvasSync says why each tab ends there).
   A content is a function from keys to values; `None` stands for a file that cannot be
   read, a file never read, and for nothing held, written or saved.                  *)
EXTENDS CanvasOrder, SequencesExt

CONSTANTS Val, Absent,      \* values of a key; what a content without the key shows
          TooLarge,         \* values that never travel as an op
          Loaded,           \* the content every tab loaded
          None,
          MaxOps,           \* bound on the ops clients cast
          MaxEdits,         \* bound on outside edits of the file
          MaxShares,        \* bound on `team share` and `team unshare`
          MaxSaves,         \* bound on whole-workspace saves
          MaxEvents         \* bound on all of these together

Content  == [Key -> Val \cup {Absent}]
Change   == [key : Key, val : Val \cup {Absent}]
Timers   == {"quiet", "max", "retry"}
Governed == [content : Content, unflushed : Seq(Change), dirty : BOOLEAN,
             timers : SUBSET Timers, writing : Content \cup {None}, written : Nat,
             failing : BOOLEAN]

ASSUME AuthorityAssumption == /\ TooLarge \subseteq Val
                              /\ Absent \notin Val
                              /\ Loaded \in Content
                              /\ None \notin Content \cup Governed

VARIABLES bus,              \* seq, the order and the canvas of a client that heard it all
          order,            \* the authority's order
          gov,              \* what it holds of the project, or None
          adopting,         \* its adoption: no, asked, read (and what was read)
          queued,           \* ops accepted while the adoption is under way
          edit,             \* an outside edit waiting for that adoption
          shared,           \* the project is shared with the team
          stage,            \* running, stopping, flushing, stopped
          disk,             \* the project file
          known,            \* lastWritten: the file as the store last wrote or read it
          saving,           \* the save on the save chain: no, wait (for an adoption), write
          watch,            \* the watcher: a pending event, a re-read under way
          boot,             \* history: the file this process found
          crossed,          \* history: a write crossed an edit on its way to the authority, or
                            \* was skipped over one that said the same
          count             \* what the bounds count

held  == <<bus, order, gov, adopting, queued>>
store == <<disk, known, saving, watch>>
vars  == <<held, edit, shared, stage, store, boot, crossed, count>>

TypeOK ==
    /\ bus \in [seq : Nat, order : Order, canvas : Content]
    /\ order \in Order
    /\ gov \in Governed \cup {None}
    /\ adopting \in [at : {"no", "asked", "read"}, saw : Content \cup {None}]
    /\ queued \in Seq(Change)
    /\ edit \in Content \cup {None}
    /\ shared \in BOOLEAN
    /\ stage \in {"running", "stopping", "flushing", "stopped"}
    /\ disk \in Content \cup {None} /\ known \in Content \cup {None}
    /\ saving \in [at : {"no", "wait", "write"}, what : Content \cup {None}]
    /\ boot \in Content \cup {None} /\ crossed \in BOOLEAN
    /\ watch \in [stirred : BOOLEAN, saw : Content \cup {None}]

NoAdoption == [at |-> "no", saw |-> None]
NoSave     == [at |-> "no", what |-> None]

Count(what) == /\ count.ops + count.edits + count.shares + count.saves < MaxEvents
               /\ count' = [count EXCEPT ![what] = @ + 1]

-------------------------------------------------------------------------------
(* One governed project.                                                       *)

Governs == shared /\ stage = "running"

Put(content, c) == [content EXCEPT ![c.key] = c.val]

Replay(changes, content) ==
    LET upTo[i \in 0 .. Len(changes)] ==
            IF i = 0 THEN content ELSE Put(upTo[i - 1], changes[i])
    IN  upTo[Len(changes)]

\* schedule: while a retry is pending, the backoff owns the next attempt.
Schedule(timers) ==
    IF stage # "running" \/ "retry" \in timers THEN timers ELSE timers \cup {"quiet", "max"}

MarkDirty(g) == [g EXCEPT !.dirty = TRUE, !.timers = Schedule(@)]

\* applyTo: a change that changes nothing is neither kept nor owed.
ApplyTo(g, c) ==
    IF g.content[c.key] = c.val THEN g
    ELSE MarkDirty([g EXCEPT !.content = Put(@, c), !.unflushed = Append(@, c)])

\* ... one after another.
ApplyAll(g, changes) ==
    LET upTo[i \in 0 .. Len(changes)] ==
            IF i = 0 THEN g ELSE ApplyTo(upTo[i - 1], changes[i])
    IN  upTo[Len(changes)]

\* release: an unshared project, once nothing it holds is still unwritten.
Release(g) == IF shared \/ g.dirty \/ g.writing # None THEN g ELSE None

\* flush: one write at a time, of the content as it is now.
Flush(g) ==
    IF g.writing # None THEN g
    ELSE IF ~g.dirty    THEN Release(g)
    ELSE [g EXCEPT !.timers = {}, !.writing = g.content, !.written = Len(g.unflushed),
                   !.dirty = FALSE]

\* Mutant: a landed write retires what came while it was in flight too.
LandedAll(g) ==
    LET done == [g EXCEPT !.unflushed = << >>, !.writing = None, !.written = 0,
                          !.failing = FALSE]
    IN  IF g.dirty THEN [done EXCEPT !.timers = Schedule(@)] ELSE Release(done)

\* A write that landed retires what it wrote; what came since is still owed.
Landed(g) ==
    LET done == [g EXCEPT !.unflushed = SubSeq(@, g.written + 1, Len(@)),
                          !.writing = None, !.written = 0, !.failing = FALSE]
    IN  IF g.dirty THEN [done EXCEPT !.timers = Schedule(@)] ELSE Release(done)

\* Mutant: a failed write waits for the next op.
FailedWaits(g) == [g EXCEPT !.writing = None, !.written = 0, !.dirty = TRUE, !.failing = TRUE]

\* Rule 3: a failed write keeps every op and is retried, unless we stop.
Failed(g) == [g EXCEPT !.writing = None, !.written = 0, !.dirty = TRUE, !.failing = TRUE,
                       !.timers = IF stage = "running" THEN {"retry"} ELSE {}]

-------------------------------------------------------------------------------
(* Adoption.  A state s is a record of the variables `held` names; the calls below run
   to their next await, and an adoption from `known` awaits nothing but ticks.     *)

Held == [bus |-> bus, order |-> order, gov |-> gov, adopting |-> adopting, queued |-> queued]

Becomes(s) == /\ bus' = s.bus /\ order' = s.order /\ gov' = s.gov
              /\ adopting' = s.adopting /\ queued' = s.queued

\* Mutant: a file that could not be read is taken for content.
InstallUnread(s, isShared, content) ==
    LET fresh == [content |-> content, unflushed |-> << >>, dirty |-> FALSE, timers |-> {},
                  writing |-> None, written |-> 0, failing |-> FALSE]
    IN  [s EXCEPT !.queued = << >>, !.adopting = NoAdoption,
                  !.gov = IF isShared THEN fresh ELSE None]

\* install: nothing governs a project that was unshared meanwhile or cannot be read.
Install(s, isShared, content) ==
    LET fresh == [content |-> content, unflushed |-> << >>, dirty |-> FALSE, timers |-> {},
                  writing |-> None, written |-> 0, failing |-> FALSE]
    IN  [s EXCEPT !.queued = << >>, !.adopting = NoAdoption,
                  !.gov = IF ~isShared \/ content = None THEN None
                          ELSE ApplyAll(fresh, s.queued)]

\* adopt, on first contact: readProjectContent answers from lastWritten, else from disk.
Adopt(s, isShared, last) ==
    IF s.gov # None \/ s.adopting.at # "no" THEN s
    ELSE IF last # None THEN Install(s, isShared, last)
    ELSE [s EXCEPT !.adopting.at = "asked"]

\* onReflected: judge the op; apply it, or queue it for the adoption.
OnReflected(s, m) ==
    LET c      == [key |-> m.key, val |-> m.val]
        judged == [s EXCEPT !.order = Accepted(@, m, "authority")]
    IN  IF ~Applies(s.order, m, "authority") THEN judged
        ELSE IF s.gov # None                 THEN [judged EXCEPT !.gov = ApplyTo(@, c)]
        ELSE Adopt([judged EXCEPT !.queued = Append(@, c)], shared, known)

\* The reflector stamps an op and fans it out: every client, then the authority.
Reflect(s, c, seen) ==
    LET n == s.bus.seq + 1
        m == [key |-> c.key, val |-> c.val, remove |-> c.val = Absent, src |-> "client",
              seen |-> seen, seq |-> n]
        b == [seq    |-> n,
              order  |-> Accepted(s.bus.order, m, "observer"),
              canvas |-> IF Applies(s.bus.order, m, "observer") THEN Put(s.bus.canvas, c)
                         ELSE s.bus.canvas]
        t == [s EXCEPT !.bus = b]
    IN  IF c.val \in TooLarge THEN s ELSE IF Governs THEN OnReflected(t, m) ELSE t

\* ... and the ops that an outside edit is turned into, which carry no `seen`.
ReflectAll(s, changes) ==
    LET upTo[i \in 0 .. Len(changes)] ==
            IF i = 0 THEN s ELSE Reflect(upTo[i - 1], changes[i], Unstamped)
    IN  upTo[Len(changes)]

\* The ops that turn one content into another, removes last.
Diff(before, after) ==
    LET keys == {k \in Key : before[k] # after[k]}
        gone == {k \in keys : after[k] = Absent}
    IN  [i \in 1 .. Cardinality(keys) |->
            LET k == (SetToSeq(keys \ gone) \o SetToSeq(gone))[i] IN [key |-> k, val |-> after[k]]]

\* Mutant: the edit replaces what has not been written yet.
TakeEditWhole(s, e, hadBaseline) ==
    LET moved  == [s EXCEPT !.gov.content = e]
        public == ReflectAll(moved, Diff(s.gov.content, e))
    IN  IF hadBaseline THEN public ELSE [public EXCEPT !.bus.canvas = public.gov.content]

\* Unflushed ops that went over an edit are owed to the disk again.
OwedAgain(s) == IF s.gov.unflushed = << >> THEN s ELSE [s EXCEPT !.gov = MarkDirty(@)]

\* Without a baseline the ops say nothing: the tabs are sent the project whole.
Told(s, hadBaseline) == IF hadBaseline THEN s ELSE [s EXCEPT !.bus.canvas = s.gov.content]

\* adoptOutsideEdit, from its await on: adopt the edit, put what disk does not have on top
\* of it, publish the difference.
TakeEdit(s, e, hadBaseline) ==
    LET after == Replay(s.gov.unflushed, e)
        moved == [s EXCEPT !.gov.content = after]
    IN  Told(OwedAgain(ReflectAll(moved, Diff(s.gov.content, after))), hadBaseline)

(* A boot with the file as every tab has it, or with a file nobody could read; a project
   shared already is adopted at once.                                              *)
Init == LET none == [bus      |-> [seq |-> 0, order |-> NewOrder, canvas |-> Loaded],
                     order    |-> NewOrder, gov |-> None, adopting |-> NoAdoption,
                     queued   |-> << >>]
        IN  /\ shared \in BOOLEAN
            /\ disk \in {Loaded, None} /\ known = disk /\ boot = disk
            /\ crossed = FALSE
            /\ LET s == IF shared THEN Adopt(none, shared, known) ELSE none
               IN  /\ bus = s.bus /\ order = s.order /\ gov = s.gov
                   /\ adopting = s.adopting /\ queued = s.queued
            /\ edit = None
            /\ stage = "running"
            /\ saving = NoSave
            /\ watch = [stirred |-> FALSE, saw |-> None]
            /\ count = [ops |-> 0, edits |-> 0, shares |-> 0, saves |-> 0]

-------------------------------------------------------------------------------
(* Ops, timers and writes.                                                     *)

\* A client casts an op; it had applied everything up to some seq.
ClientCasts(k, v, seen) ==
    /\ count.ops < MaxOps
    /\ Becomes(Reflect(Held, [key |-> k, val |-> v], seen))
    /\ Count("ops")
    /\ UNCHANGED <<edit, shared, stage, store, boot, crossed>>

TimerFires(t) ==
    /\ gov # None /\ t \in gov.timers
    /\ gov' = Flush([gov EXCEPT !.timers = @ \ {t}])
    /\ UNCHANGED <<bus, order, adopting, queued, edit, shared, stage, store, boot, crossed, count>>

Empty == [k \in Key |-> Absent]

\* An empty canvas never overwrites a populated file this store has not read.
Blind(content) == known = None /\ content = Empty /\ disk # Empty

\* What landed on disk is on record and wakes the watcher.
Writes(content) == /\ disk' = content
                   /\ known' = content
                   /\ watch' = [watch EXCEPT !.stirred = TRUE]

Writing == gov # None /\ gov.writing # None /\ saving.at = "no"

\* writeFolderContent, at its turn on the save chain: an unreadable file is never
\* written over, an unchanged one is not written.
WriteLands ==
    /\ Writing
    /\ disk # None /\ (disk = gov.writing \/ ~Blind(gov.writing))
    /\ IF disk = gov.writing THEN UNCHANGED <<disk, known, watch>> ELSE Writes(gov.writing)
    /\ gov' = Landed(gov)
    /\ crossed' = (crossed \/ (disk = gov.writing /\ disk # known))
    /\ UNCHANGED <<bus, order, adopting, queued, edit, shared, stage, saving, boot, count>>

\* ... or nothing was written: the file is unreadable, or the disk refused.
WriteFails ==
    /\ Writing
    /\ disk # gov.writing
    /\ gov' = Failed(gov)
    /\ UNCHANGED <<bus, order, adopting, queued, edit, shared, stage, store, boot, crossed, count>>

-------------------------------------------------------------------------------
(* Adoptions that read the file.                                               *)

AdoptionReads ==
    /\ adopting.at = "asked"
    /\ adopting' = [at |-> "read", saw |-> disk]
    /\ UNCHANGED <<bus, order, gov, queued, edit, shared, stage, store, boot, crossed, count>>

\* overlayProject, for a save: what can never travel as an op the save contributes.
Oversized(copy) == LET keys == SetToSeq({k \in Key : copy[k] \in TooLarge})
                   IN  [i \in DOMAIN keys |-> [key |-> keys[i], val |-> copy[keys[i]]]]

OverlaySave(s, copy) == [s EXCEPT !.gov = ApplyAll(@, Oversized(copy))]

\* The adoption ends, and whoever waited for it goes on: an outside edit, which is sent to
\* the tabs whole if nothing was adopted, and a save.
EditGoesOn(s) == IF edit = None                   THEN s
                 ELSE IF s.gov # None /\ Governs THEN TakeEdit(s, edit, FALSE)
                 ELSE [s EXCEPT !.bus.canvas = edit]

SaveGoesOn(s) == IF saving.at = "wait" /\ s.gov # None THEN OverlaySave(s, saving.what) ELSE s

AdoptionEnds ==
    /\ adopting.at = "read"
    /\ \E s \in {SaveGoesOn(EditGoesOn(Install(Held, shared, adopting.saw)))} :
           /\ Becomes(s)
           /\ saving' = IF saving.at # "wait" THEN saving
                        ELSE [at |-> "write", what |-> IF s.gov = None THEN saving.what
                                                       ELSE s.gov.content]
    /\ edit' = None
    /\ UNCHANGED <<shared, stage, disk, known, watch, boot, crossed, count>>

-------------------------------------------------------------------------------
(* Saves of a browser tab, one at a time on the save chain.                     *)

\* overlaySave: a governed project's content comes from the authority, which adopts it
\* first; every other project is saved as the tab has it.
SaveStarts(copy) ==
    /\ count.saves < MaxSaves /\ saving.at = "no" /\ stage = "running"
    /\ LET s == IF Governs THEN Adopt(Held, shared, known) ELSE Held
           t == IF Governs /\ s.gov # None THEN OverlaySave(s, copy) ELSE s
       IN  /\ Becomes(t)
           /\ saving' = IF ~Governs         THEN [at |-> "write", what |-> copy]
                        ELSE IF t.gov = None THEN [at |-> "wait", what |-> copy]
                        ELSE [at |-> "write", what |-> t.gov.content]
    /\ Count("saves")
    /\ UNCHANGED <<edit, shared, stage, disk, known, watch, boot, crossed>>

\* The folder leg: an unchanged file is skipped, a failed write is swallowed.
SaveEnds(landed) ==
    /\ saving.at = "write"
    /\ IF saving.what = known \/ Blind(saving.what) \/ ~landed THEN UNCHANGED <<disk, known, watch>>
       ELSE Writes(saving.what)
    /\ saving' = NoSave
    /\ UNCHANGED <<held, edit, shared, stage, boot, crossed, count>>

-------------------------------------------------------------------------------
(* Outside edits and the watcher.                                              *)

\* A git pull or a hand edit; None leaves a file that cannot be parsed.
OutsideEdit(content) ==
    /\ count.edits < MaxEdits /\ content # disk
    /\ disk' = content
    /\ watch' = [watch EXCEPT !.stirred = TRUE]
    /\ Count("edits")
    /\ UNCHANGED <<held, edit, shared, stage, known, saving, boot, crossed>>

\* check, after its debounce: our own write is passed over, anything else is read.
WatcherLooks ==
    /\ watch.stirred /\ watch.saw = None
    /\ watch' = [stirred |-> FALSE, saw |-> IF disk = known THEN None ELSE disk]
    /\ UNCHANGED <<held, edit, shared, stage, disk, known, saving, boot, crossed, count>>

\* readLocalRef records what it read, and the project goes to the authority, or whole to
\* the tabs when nothing adopts it.
WatcherHandsOver ==
    /\ watch.saw # None
    /\ known' = watch.saw
    /\ watch' = [watch EXCEPT !.saw = None]
    /\ LET e == watch.saw
           s == Adopt(Held, shared, e)
       IN  IF ~Governs THEN Becomes([Held EXCEPT !.bus.canvas = e]) /\ UNCHANGED edit
           ELSE IF s.gov # None THEN Becomes(TakeEdit(s, e, gov # None)) /\ UNCHANGED edit
           ELSE Becomes(s) /\ edit' = e
    /\ crossed' = \/ crossed \/ saving.at # "no" \/ disk # watch.saw
                  \/ gov # None /\ gov.writing # None /\ gov.unflushed = << >>
    /\ UNCHANGED <<shared, stage, disk, saving, boot, count>>

-------------------------------------------------------------------------------
(* Sharing and stopping.                                                       *)

\* sharedChanged: write and let go what left, adopt what joined.
SharedChanged ==
    /\ count.shares < MaxShares /\ stage = "running"
    /\ shared' = ~shared
    /\ IF shared
       THEN /\ gov' = IF gov = None \/ gov.writing # None THEN gov
                      ELSE IF ~gov.dirty THEN None
                      ELSE Flush(gov)
            /\ UNCHANGED <<bus, order, adopting, queued>>
       ELSE Becomes(Adopt(Held, TRUE, known))
    /\ Count("shares")
    /\ UNCHANGED <<edit, stage, store, boot, crossed>>

\* The tabs are cut off and the queued saves waited for before the authority stops.
StopBegins ==
    /\ stage = "running" /\ saving.at = "no"
    /\ stage' = "stopping"
    /\ UNCHANGED <<held, edit, shared, store, boot, crossed, count>>

\* Mutant: stopping only waits for the write in flight.
DrainsUnflushed ==
    /\ stage = "stopping" /\ adopting.at = "no"
    /\ gov # None => gov.writing = None
    /\ stage' = "stopped"
    /\ UNCHANGED <<held, edit, shared, store, boot, crossed, count>>

\* drain: the adoptions, then the write in flight, then what is still dirty.
Drains ==
    /\ stage = "stopping" /\ adopting.at = "no"
    /\ gov # None => gov.writing = None
    /\ stage' = "flushing"
    /\ gov' = IF gov # None /\ gov.dirty THEN Flush(gov) ELSE gov
    /\ UNCHANGED <<bus, order, adopting, queued, edit, shared, store, boot, crossed, count>>

Stops ==
    /\ stage = "flushing"
    /\ gov # None => gov.writing = None
    /\ stage' = "stopped"
    /\ gov' = IF gov = None THEN None ELSE [gov EXCEPT !.timers = {}]
    /\ UNCHANGED <<bus, order, adopting, queued, edit, shared, store, boot, crossed, count>>

Next == \/ \E k \in Key, v \in Val \cup {Absent}, seen \in 0 .. bus.seq : ClientCasts(k, v, seen)
        \/ \E t \in Timers : TimerFires(t)
        \/ WriteLands
        \/ WriteFails
        \/ AdoptionReads
        \/ AdoptionEnds
        \/ \E copy \in {Loaded, bus.canvas} : SaveStarts(copy)
        \/ \E landed \in BOOLEAN : SaveEnds(landed)
        \/ \E content \in Content \cup {None} : OutsideEdit(content)
        \/ WatcherLooks
        \/ WatcherHandsOver
        \/ SharedChanged
        \/ StopBegins
        \/ Drains
        \/ Stops

Spec == Init /\ [][Next]_vars

\* The step that ends a write is one that landed.
WroteWell == /\ gov # None /\ gov.writing # None
             /\ gov' # None => gov'.writing = None /\ ~gov'.failing

(* Timers fire, adoptions, saves and the watcher get on.  A write is tried again and again,
   and a disk that takes writes over and over in the end takes this one.           *)
FairSpec ==
    /\ Spec
    /\ \A t \in Timers : []<>(gov = None \/ t \notin gov.timers)
    /\ []<>(gov = None \/ gov.writing = None)
    /\ []<>(Writing /\ disk # None /\ ~Blind(gov.writing)) => []<><<WroteWell>>_gov
    /\ []<>(adopting.at = "no") /\ []<>(saving.at = "no")
    /\ []<>~watch.stirred /\ []<>(watch.saw = None)

-------------------------------------------------------------------------------
(* Properties.                                                                 *)

\* Nothing the file should get or the authority should hear is on its way.
Quiet == /\ saving.at = "no" /\ ~watch.stirred /\ watch.saw = None /\ edit = None
         /\ adopting.at = "no" /\ disk # None

Clean == gov # None /\ ~gov.dirty /\ gov.writing = None

\* The authority has held the project, as the tabs have it, since the boot.
Baseline == count.shares = 0 /\ boot # None

\* What is owed to the disk has a write in flight or a timer that will start one, and
\* "while a retry is pending, the backoff owns the next attempt: a burst of ops must not
\* turn a failing disk into one write per quiet period".
WakesUp == stage = "running" /\ gov # None
               => /\ gov.dirty => gov.writing # None \/ gov.timers # {}
                  /\ "retry" \in gov.timers => gov.timers = {"retry"}

\* Rule 3: "only a write that landed retires an op".  Whatever the file lacks of the
\* content is in `unflushed`, however writes, failures, saves and ops interleave, so an
\* outside edit that is put under it loses no op.
UnflushedCovers ==
    Governs /\ Baseline /\ count.edits = 0 => Replay(gov.unflushed, disk) = gov.content

\* Once all is written and read, the file, the authority and the tabs agree: outside edits,
\* stale saves and ops leave one content behind.  Where a write crossed an edit they need not
\* (EditsStay), nor where the file said already what was to be written: that write is skipped
\* and not recorded, and an edit back to the file of before is taken for our own.
Agreement == Governs /\ Baseline /\ ~crossed /\ Clean /\ Quiet
                 => disk = gov.content /\ bus.canvas = gov.content

\* "The same verdicts every client reaches": what the authority will write is what a tab
\* that has heard everything shows, at every moment.
ContentIsVerdict == Governs /\ Baseline /\ gov # None => gov.content = bus.canvas

\* No op is lost between a tab and the disk: the tabs, the authority's content and the file
\* with what is still unflushed stay one and the same.
NoOpIsLost == UnflushedCovers /\ ContentIsVerdict

\* stop: "after writing what is pending".  A stop whose last write landed leaves nothing
\* unwritten, whatever was in flight, queued or waiting when it began.
StopLosesNothing ==
    stage = "stopped" /\ gov # None => gov.failing \/ (~gov.dirty /\ gov.unflushed = << >>)

\* What is owed to the disk is on its way there, until it is there or the process stops.
OwedIsOnItsWay == WakesUp /\ StopLosesNothing

\* Whatever is owed is written, through failed writes, edits and saves, unless the file
\* stays unreadable.
GetsWritten ==
    <>[](disk # None) => []<>(gov = None \/ stage # "running" \/ Clean)

\* adoptOutsideEdit: "Disk already has the edit.  It is owed a write only if our unflushed
\* ops must go over it."
EditsStay == Governs /\ Baseline /\ Clean /\ Quiet => disk = gov.content

\* "An edit the authority could not turn into ops is NOT swallowed": once an edit has been
\* handed over, the tabs show what the authority holds.
EditReachesTabs ==
    [][watch.saw # None /\ watch'.saw = None /\ Governs /\ gov' # None /\ count.shares = 0
          => bus'.canvas = gov'.content]_vars

\* `team unshare` "writes what is pending, then lets it go (it is saved the old way
\* again)": what a tab saved after that is not written over by what was pending.
UnsharedSaveStands ==
    [][~shared /\ disk = bus.canvas /\ known = disk /\ saving.at = "no" /\ gov # None
           /\ gov'= None => disk' = disk]_vars
===============================================================================
