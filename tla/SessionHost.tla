------------------------------- MODULE SessionHost -------------------------------
(* One session name of the session host (session-host/host.ts, generation-barrier.ts): the
   generations of its process, attaches that take turns on the name, kills with operation
   ids that are retried, replacement leases, and the host's own grace exit.

   Names share nothing but the grace timer, so there is one name.  The launch typed into a
   fresh session, geometry, pausing and the bytes themselves are left out.               *)
EXTENDS Integers, Sequences, FiniteSets

CONSTANTS Client,           \* attaching clients, one request each at a time
          Op,               \* kill operation ids
          NoOp,
          MaxGeneration     \* bound: the processes the name ever gets

ASSUME SessionAssumption == NoOp \notin Op /\ MaxGeneration \in Nat \ {0}

Generation == 1 .. MaxGeneration

VARIABLES current,          \* sessions.get(name): a generation, 0 for none
          proc,             \* each generation's process
          retire,           \* session.ending: how far the generation's retirement is
          owner,            \* the kill publishSessionEnd found when it began
          createdBy,        \* createdByReplacementToken
          turns,            \* the coordinator's claims on the name, the holder first
          attach,           \* each client's request: its step, generation and token
          op,               \* each operation: its step and its parameters
          killing,          \* ending.get(name): the operation that is ending the session
          completed,        \* completedKillIds
          lease,            \* replacementReservations.get(name), unexpired
          leased,           \* history: the operations answered with a token
          grace,            \* the grace timer: off, armed, or armed before the lease
          started,          \* history: how many processes the name has had
          gone              \* the host has exited

sessionVars == <<current, proc, retire, owner, createdBy, turns, attach, op, killing,
                 completed, lease, leased, grace, started, gone>>

NoRequest == [step |-> "idle", kind |-> "attach", gen |-> 0, token |-> NoOp]
Unsent == [step |-> "unsent", gen |-> 0, expects |-> 0, reserves |-> FALSE]

SessionTypeOK ==
    /\ current \in 0 .. MaxGeneration
    /\ proc \in [Generation -> {"unborn", "alive", "dying", "exited"}]
    /\ retire \in [Generation -> {"no", "waiting", "draining", "done"}]
    /\ owner \in [Generation -> Op \cup {NoOp}]
    /\ createdBy \in [Generation -> Op \cup {NoOp}]
    /\ turns \in Seq(Client)
    /\ attach \in [Client -> [step : {"idle", "turn", "warm", "cold", "undo"},
                              kind : {"attach", "existing"},
                              gen : 0 .. MaxGeneration, token : Op \cup {NoOp}]]
    /\ op \in [Op -> [step : {"unsent", "waiting", "taskkill", "pending", "ok", "error"},
                      gen : 0 .. MaxGeneration, expects : 0 .. MaxGeneration,
                      reserves : BOOLEAN]]
    /\ killing \in Op \cup {NoOp}
    /\ completed \subseteq Op /\ leased \subseteq Op
    /\ lease \in Op \cup {NoOp}
    /\ grace \in {"off", "armed", "early"}
    /\ started \in 0 .. MaxGeneration
    /\ gone \in BOOLEAN

SessionInit ==
    /\ current = 0
    /\ proc = [g \in Generation |-> "unborn"]
    /\ retire = [g \in Generation |-> "no"]
    /\ owner = [g \in Generation |-> NoOp]
    /\ createdBy = [g \in Generation |-> NoOp]
    /\ turns = << >>
    /\ attach = [c \in Client |-> NoRequest]
    /\ op = [o \in Op |-> Unsent]
    /\ killing = NoOp
    /\ completed = {}
    /\ lease = NoOp
    /\ leased = {}
    /\ grace = "armed"
    /\ started = 0
    /\ gone = FALSE

Live(g) == g # 0 /\ proc[g] # "exited"
Retiring(g) == g # 0 /\ (proc[g] = "exited" \/ retire[g] # "no")

-------------------------------------------------------------------------------
(* The turns of SessionGenerationCoordinator *)

\* A request is answered or thrown out, and its turn is the next one's.
Leave(c) == /\ attach' = [attach EXCEPT ![c] = NoRequest]
            /\ turns' = Tail(turns)

\* attach and attachExisting: a claim on the name, in the order asked.
Ask(c, kind, token) ==
    /\ attach[c].step = "idle"
    /\ token = NoOp \/ (kind = "attach" /\ token \in leased)
    /\ attach' = [attach EXCEPT ![c] =
                    [step |-> "turn", kind |-> kind, gen |-> 0, token |-> token]]
    /\ turns' = Append(turns, c)
    /\ UNCHANGED <<current, proc, retire, owner, createdBy, op, killing, completed, lease,
                   leased, grace, started, gone>>

\* currentSessionAfterRetirement: c holds the turn and no generation is retiring.
HasTurn(c) == turns # << >> /\ Head(turns) = c /\ ~Retiring(current)

\* A claim cancels the grace timer.
NameClaimed == grace' = "off"

\* The name's live session is taken, unless it is being killed, belongs to another
\* replacement, or was asked for by another plan or generation.
AttachWarm(c) ==
    /\ attach[c].step = "turn"
    /\ HasTurn(c)
    /\ current # 0
    /\ NameClaimed
    /\ \/ /\ killing = NoOp
          /\ attach[c].token \in {NoOp, createdBy[current]}
          /\ attach' = [attach EXCEPT ![c] = [@ EXCEPT !.step = "warm", !.gen = current]]
          /\ UNCHANGED turns
       \/ Leave(c)
    /\ UNCHANGED <<current, proc, retire, owner, createdBy, op, killing, completed, lease,
                   leased, started, gone>>

\* No session, and the lease, if there is one, is the request's own.
AttachCold(c) == /\ attach[c].step = "turn" /\ attach[c].kind = "attach"
                 /\ HasTurn(c)
                 /\ current = 0
                 /\ attach[c].token = lease

\* A new process, wired and registered in the same step as it is spawned.
Spawned(c) ==
    /\ AttachCold(c)
    /\ started < MaxGeneration
    /\ LET g == started + 1
       IN /\ current' = g
          /\ proc' = [proc EXCEPT ![g] = "alive"]
          /\ createdBy' = [createdBy EXCEPT ![g] = lease]
          /\ started' = g
          /\ attach' = [attach EXCEPT ![c] = [@ EXCEPT !.step = "cold", !.gen = g]]
    /\ lease' = NoOp
    /\ NameClaimed
    /\ UNCHANGED <<retire, owner, turns, op, killing, completed, leased, gone>>

\* No session, and the request is refused (reserved for another, its lease lapsed, nothing
\* there to attach) or its spawn fails: a lease that was its own is consumed all the same.
NotSpawned(c) ==
    /\ attach[c].step = "turn"
    /\ HasTurn(c)
    /\ current = 0
    /\ lease' = IF AttachCold(c) THEN NoOp ELSE lease
    /\ grace' = "armed"
    /\ Leave(c)
    /\ UNCHANGED <<current, proc, retire, owner, createdBy, op, killing, completed, leased,
                   started, gone>>

\* The warm screen is serialized: answered, given up, or, when the process exited meanwhile,
\* tried again behind the barrier with the turn kept.
WarmEnds(c) ==
    LET g == attach[c].gen
    IN /\ attach[c].step = "warm"
       /\ \/ ~(proc[g] = "exited" \/ current # g) /\ Leave(c)
          \/ /\ proc[g] = "exited" \/ current # g
             /\ attach' = [attach EXCEPT ![c] = [@ EXCEPT !.step = "turn", !.gen = 0]]
             /\ UNCHANGED turns
          \/ Leave(c)
       /\ UNCHANGED <<current, proc, retire, owner, createdBy, op, killing, completed,
                      lease, leased, grace, started, gone>>

\* Mutant: the retirement begins first, and a retiring session is not killed.
ColdEndsUnkilled(c) ==
    LET g == attach[c].gen
    IN /\ attach[c].step = "cold"
       /\ \/ Live(g) /\ Leave(c) /\ UNCHANGED retire
          \/ /\ attach' = [attach EXCEPT ![c] = [@ EXCEPT !.step = "undo"]]
             /\ retire' = [retire EXCEPT ![g] = IF @ = "no" THEN "waiting" ELSE @]
             /\ UNCHANGED turns
       /\ UNCHANGED <<current, proc, owner, createdBy, op, killing, completed, lease, leased,
                      grace, started, gone>>

\* The first attachment of a cold session stands, or its socket closed and the session goes
\* with it; a process that exited meanwhile is only waited for.
ColdEnds(c) ==
    LET g == attach[c].gen
    IN /\ attach[c].step = "cold"
       /\ \/ Live(g) /\ Leave(c) /\ UNCHANGED <<proc, retire>>
          \/ /\ attach' = [attach EXCEPT ![c] = [@ EXCEPT !.step = "undo"]]
             /\ proc' = [proc EXCEPT ![g] = IF @ = "alive" /\ retire[g] = "no"
                                            THEN "dying" ELSE @]
             /\ retire' = [retire EXCEPT ![g] = IF @ = "no" THEN "waiting" ELSE @]
             /\ UNCHANGED turns
       /\ UNCHANGED <<current, owner, createdBy, op, killing, completed, lease, leased,
                      grace, started, gone>>

Undone(c) == /\ attach[c].step = "undo"
             /\ retire[attach[c].gen] = "done"
             /\ Leave(c)
             /\ UNCHANGED <<current, proc, retire, owner, createdBy, op, killing, completed,
                            lease, leased, grace, started, gone>>

-------------------------------------------------------------------------------
(* Kills *)

\* Mutant: the lease leaves the grace timer as it was.
TakeLeaseQuietly(o) == /\ lease' = o
                       /\ grace' = IF grace = "armed" THEN "early" ELSE grace

\* setReplacementReservation: a host without sessions starts its grace anew.
TakeLease(o) == /\ lease' = o
                /\ grace' = IF current = 0 THEN "armed" ELSE "off"

Reply(o, step) == op' = [op EXCEPT ![o].step = step]

\* Nothing of the name's process changes.
Bystander == UNCHANGED <<current, proc, retire, owner, createdBy, turns, attach, started, gone>>

\* Answered: confirmed, with the lease when it was asked for and is free.
Confirm(o, ask) ==
    \/ /\ ~ask.reserves
       /\ op' = [op EXCEPT ![o] = [ask EXCEPT !.step = "ok"]]
       /\ completed' = completed \cup {o}
       /\ UNCHANGED <<lease, leased, grace>>
    \/ /\ ask.reserves /\ lease \in {NoOp, o}
       /\ op' = [op EXCEPT ![o] = [ask EXCEPT !.step = "ok"]]
       /\ completed' = completed \cup {o}
       /\ leased' = leased \cup {o}
       /\ TakeLease(o)
    \/ /\ ask.reserves /\ lease \notin {NoOp, o}
       /\ op' = [op EXCEPT ![o] = [ask EXCEPT !.step = "error"]]
       /\ UNCHANGED <<completed, lease, leased, grace>>

\* The target is gone already, and what lives under its name now is somebody else's.
Superseded(o, ask) ==
    /\ op' = [op EXCEPT ![o] = [ask EXCEPT !.step = IF ask.reserves THEN "error" ELSE "ok"]]
    /\ completed' = IF ask.reserves THEN completed ELSE completed \cup {o}
    /\ UNCHANGED <<lease, leased, grace>>

\* The kill is sent: on POSIX at once (or it throws), on Windows by a taskkill that answers
\* later; the operation is registered first.
BeginKill(o, ask) ==
    /\ \/ /\ op' = [op EXCEPT ![o] = [ask EXCEPT !.step = "pending"]]
          /\ proc' = [proc EXCEPT ![current] = "dying"]
          /\ retire' = [retire EXCEPT ![current] = "waiting"]
          /\ killing' = o
       \/ /\ op' = [op EXCEPT ![o] = [ask EXCEPT !.step = "error"]]
          /\ UNCHANGED <<proc, retire, killing>>
       \/ /\ op' = [op EXCEPT ![o] = [ask EXCEPT !.step = "taskkill"]]
          /\ killing' = o
          /\ UNCHANGED <<proc, retire>>
    /\ UNCHANGED <<current, owner, createdBy, turns, attach, started, gone, completed, lease, leased,
                   grace>>

\* Mutant: an absent expectation is permission to kill by name.
DecideByName(o, ask) ==
    \/ ~Live(current) /\ Confirm(o, ask) /\ Bystander /\ UNCHANGED killing
    \/ /\ Live(current) /\ ask.expects \notin {0, current}
       /\ Superseded(o, ask) /\ Bystander /\ UNCHANGED killing
    \/ Live(current) /\ ask.expects \in {0, current} /\ BeginKill(o, ask)

\* handleKill from its second look at the name on.
Decide(o, ask) ==
    \/ ~Live(current) /\ Confirm(o, ask) /\ Bystander /\ UNCHANGED killing
    \/ /\ Live(current) /\ ask.expects # current
       /\ Superseded(o, ask) /\ Bystander /\ UNCHANGED killing
    \/ Live(current) /\ ask.expects = current /\ BeginKill(o, ask)

\* handleKill of an operation the host does not remember: refused while another one ends the
\* session, made to wait while the session retires by itself, decided otherwise.
Kill(o, ask) ==
    /\ o \notin completed
    /\ \/ /\ killing # NoOp
          /\ op' = [op EXCEPT ![o] = [ask EXCEPT !.step = "error"]]
          /\ Bystander /\ UNCHANGED <<killing, completed, lease, leased, grace>>
       \/ /\ killing = NoOp /\ Retiring(current)
          /\ op' = [op EXCEPT ![o] = [ask EXCEPT !.step = "waiting", !.gen = current]]
          /\ Bystander /\ UNCHANGED <<killing, completed, lease, leased, grace>>
       \/ killing = NoOp /\ ~Retiring(current) /\ Decide(o, ask)

\* A retry of an operation already completed: the answer again, and the lease refreshed
\* unless the name lives or is leased to another.
Retry(o) ==
    /\ o \in completed
    /\ \/ ~op[o].reserves /\ Reply(o, "ok") /\ UNCHANGED <<lease, leased, grace>>
       \/ /\ op[o].reserves /\ ~Live(current) /\ lease \in {NoOp, o}
          /\ Reply(o, "ok")
          /\ leased' = leased \cup {o}
          /\ TakeLease(o)
       \/ /\ op[o].reserves /\ (Live(current) \/ lease \notin {NoOp, o})
          /\ Reply(o, "error")
          /\ UNCHANGED <<lease, leased, grace>>
    /\ Bystander
    /\ UNCHANGED <<killing, completed>>

\* killSession, sent or, its reply lost or refused, sent again under the same id.  A retry of
\* one in progress gets the promise of the first.
SendKill(o) ==
    \/ /\ op[o].step = "unsent"
       /\ \E e \in 0 .. started, r \in BOOLEAN :
             Kill(o, [op[o] EXCEPT !.expects = e, !.reserves = r])
    \/ op[o].step \in {"ok", "error"} /\ (Retry(o) \/ Kill(o, op[o]))

\* The retirement a kill waited for is over: look at the name again.
KillResumes(o) == /\ op[o].step = "waiting"
                  /\ retire[op[o].gen] = "done"
                  /\ Decide(o, op[o])

\* taskkill answers: the pty is released and the exit awaited, unless it was seen already.
TaskkillDone(o) ==
    /\ op[o].step = "taskkill"
    /\ Reply(o, "pending")
    /\ \/ /\ killing = o /\ Live(current)
          /\ proc' = [proc EXCEPT ![current] = "dying"]
          /\ retire' = [retire EXCEPT ![current] = IF @ = "no" THEN "waiting" ELSE @]
       \/ ~(killing = o /\ Live(current)) /\ UNCHANGED <<proc, retire>>
    /\ UNCHANGED <<current, owner, createdBy, turns, attach, started, gone, killing, completed, lease,
                   leased, grace>>

\* failOperation: the session stays registered, whatever became of its process.
TaskkillFails(o) ==
    /\ op[o].step = "taskkill"
    /\ killing = o
    /\ Reply(o, "error")
    /\ killing' = NoOp
    /\ Bystander
    /\ UNCHANGED <<completed, lease, leased, grace>>

-------------------------------------------------------------------------------
(* The end of a generation *)

\* Mutant: the name is released when the process exits, before its output is drained.
ProcExitsReleased(g) ==
    /\ proc[g] \in {"alive", "dying"}
    /\ proc' = [proc EXCEPT ![g] = "exited"]
    /\ retire' = [retire EXCEPT ![g] = "draining"]
    /\ owner' = [owner EXCEPT ![g] = killing]
    /\ current' = 0
    /\ grace' = "armed"
    /\ UNCHANGED <<createdBy, turns, attach, op, killing, completed, lease, leased, started, gone>>

\* onExit: by itself, or after the signal.
ProcExits(g) ==
    /\ proc[g] \in {"alive", "dying"}
    /\ proc' = [proc EXCEPT ![g] = "exited"]
    /\ retire' = [retire EXCEPT ![g] = "draining"]
    /\ owner' = [owner EXCEPT ![g] = killing]
    /\ UNCHANGED <<current, createdBy, turns, attach, op, killing, completed, lease, leased,
                   grace, started, gone>>

\* publishSessionEnd: the output is drained, the lease taken, the exit published, the name
\* released, and the kill it found at its start confirmed.  (What nobody reads of a dead
\* generation is forgotten.)
Drained(g) ==
    LET o == owner[g]
    IN /\ retire[g] = "draining"
       /\ retire' = [retire EXCEPT ![g] = "done"]
       /\ current' = IF current = g THEN 0 ELSE current
       /\ grace' = IF current = g THEN "armed" ELSE grace
       /\ \/ /\ o = NoOp
             /\ UNCHANGED <<op, killing, completed, lease, leased>>
          \/ /\ o # NoOp
             /\ lease' = IF op[o].reserves THEN o ELSE lease
             /\ killing' = IF killing = o THEN NoOp ELSE killing
             /\ completed' = completed \cup {o}
             /\ op' = [op EXCEPT ![o].step = IF @ \in {"taskkill", "pending"} THEN "ok" ELSE @]
             /\ leased' = IF op[o].reserves THEN leased \cup {o} ELSE leased
       /\ owner' = [owner EXCEPT ![g] = NoOp]
       /\ createdBy' = [createdBy EXCEPT ![g] = NoOp]
       /\ UNCHANGED <<proc, turns, attach, started, gone>>

\* Ten minutes, or a thousand other kills, later.
Forgets(o) == /\ o \in completed
              /\ completed' = completed \ {o}
              /\ Bystander /\ UNCHANGED <<op, killing, lease, leased, grace>>

LeaseLapses == /\ lease # NoOp
               /\ lease' = NoOp
               /\ Bystander /\ UNCHANGED <<op, killing, completed, leased, grace>>

\* The grace timer and the lease last equally long: one armed no earlier than the lease fires
\* no earlier than the lease lapses.
GraceFires == /\ grace # "off"
              /\ grace = "armed" => lease = NoOp
              /\ grace' = "off"
              /\ gone' = (current = 0)
              /\ UNCHANGED <<current, proc, retire, owner, createdBy, turns, attach, op, killing,
                             completed, lease, leased, started>>

AttachSteps(c) == AttachWarm(c) \/ Spawned(c) \/ NotSpawned(c) \/ WarmEnds(c) \/ ColdEnds(c) \/ Undone(c)
KillSteps(o) == KillResumes(o) \/ TaskkillDone(o) \/ TaskkillFails(o)

SessionNext ==
    \/ /\ ~gone
       /\ \/ \E c \in Client : \/ \E kind \in {"attach", "existing"}, t \in Op \cup {NoOp} :
                                    Ask(c, kind, t)
                               \/ AttachSteps(c)
          \/ \E o \in Op : SendKill(o) \/ KillSteps(o) \/ Forgets(o)
          \/ \E g \in Generation : ProcExits(g) \/ Drained(g)
          \/ LeaseLapses
          \/ GraceFires
    \/ gone /\ UNCHANGED sessionVars

SessionSpec == SessionInit /\ [][SessionNext]_sessionVars

\* The host's own steps go on, and a process that was signalled exits.
SessionFairness ==
    /\ \A c \in Client : WF_sessionVars(~gone /\ AttachSteps(c))
    /\ \A o \in Op : WF_sessionVars(~gone /\ KillSteps(o))
    /\ \A g \in Generation : /\ WF_sessionVars(~gone /\ proc[g] = "dying" /\ ProcExits(g))
                             /\ WF_sessionVars(~gone /\ Drained(g))

-------------------------------------------------------------------------------
\* "A same-name PTY can have only one protocol generation at a time": whatever attaches and
\* kills race on the name, every earlier generation's process has exited and its last frames
\* and exit are published before the next one starts.
OneGeneration == /\ current \in {0, started}
                 /\ \A g \in Generation : g < started =>
                       proc[g] = "exited" /\ retire[g] = "done"

\* "Do not acknowledge merely because kill() was requested": a kill answered with success, on
\* any of its ways and retries, means that the process it was sent for has exited; and the one
\* that is ending the session was sent for this generation, whatever replaced what meanwhile.
KillsAreExact ==
    /\ \A o \in Op : op[o].step = "ok" /\ op[o].expects # 0 => proc[op[o].expects] = "exited"
    /\ killing # NoOp => current # 0 /\ op[killing].expects = current

\* The host never exits under a session or a running lease, and an empty one is on its way
\* out, whoever cancelled its grace timer meanwhile.
HostStays == IF gone THEN current = 0 /\ lease = NoOp
             ELSE current = 0 => grace # "off"

\* "reserved for confirmed replacement": while a lease runs no process lives under the name
\* and the host stays, so whoever was promised the name finds it free.
LeaseHonoured == /\ lease # NoOp => ~Live(current)
                 /\ HostStays

\* Attaches that wait for their turn, kills that wait for a retirement and retirements that
\* wait for output do not wait for one another: every request is answered, once the processes
\* that were signalled exit.
RequestsAnswered ==
    /\ \A o \in Op : op[o].step \in {"waiting", "taskkill", "pending"}
                       ~> gone \/ op[o].step \in {"ok", "error"}
    /\ \A c \in Client : attach[c].step # "idle" ~> gone \/ attach[c].step = "idle"
===============================================================================
