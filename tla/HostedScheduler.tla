----------------------------- MODULE HostedScheduler -----------------------------
(* The standing listener of a hosted team (core/relay/hosted-scheduler.ts): one idle relay
   listener registered under the host's room, replaced when it bridges a peer, refreshed
   before its token expires, and reopened with backoff when minting or the relay fails.

   A listener is told from another only by being idle or bridged.  How long the timers wait
   (backoff, 429, budget, refresh) is left open: each may fire at any time.               *)
EXTENDS Integers

CONSTANTS MintBudget,       \* MINT_BUDGET_PER_HOUR
          MaxBridged        \* the link's viewer cap

ASSUME HostedAssumption == MintBudget \in Nat \ {0} /\ MaxBridged \in Nat \ {0}

VARIABLES hostState,        \* state: stopped, running or backend-refused
          pending,          \* what is set of the flags and slots below
          minting,          \* calls of top that await their mint
          mints,            \* successful mints in the rolling hour
          popRefusals,      \* key-proof refusals in a row
          idle,             \* idle entries of live
          bridged           \* bridged entries of live

hostedVars == <<hostState, pending, minting, mints, popRefusals, idle, bridged>>

(* opening  the flag that keeps a second mint out
   retry    the one retry slot is armed
   soon     a queued microtask will call top                                    *)
Pending == {"opening", "retry", "soon"}

HostedTypeOK == /\ hostState \in {"stopped", "running", "refused"}
                /\ pending \in SUBSET Pending
                /\ minting \in Nat /\ mints \in Nat /\ popRefusals \in 0 .. 2
                /\ idle \in Nat /\ bridged \in Nat

HostedInit == /\ hostState = "stopped"
              /\ pending = {}
              /\ minting = 0 /\ mints = 0 /\ popRefusals = 0
              /\ idle = 0 /\ bridged = 0

Running == hostState = "running"

-------------------------------------------------------------------------------
\* The mint top asks for, or the retry it arms when the hour's budget is spent.
MintOrWait(held) ==
    \/ /\ mints < MintBudget
       /\ pending' = held \cup {"opening"}
       /\ minting' = minting + 1
    \/ /\ mints >= MintBudget
       /\ pending' = held \cup {"retry"}
       /\ UNCHANGED minting

\* Mutant: no look at the mint that is in flight.
WantedBlind(state, held, i, b) == /\ state = "running"
                                  /\ "retry" \notin held
                                  /\ i = 0
                                  /\ b < MaxBridged

\* top's early returns: it mints for one idle listener, unless one is kept or being minted
\* for, a retry owns the next mint or the link is full.
Wanted(state, held, i, b) == /\ state = "running"
                             /\ "opening" \notin held
                             /\ "retry" \notin held
                             /\ i = 0
                             /\ b < MaxBridged

\* top, in `state`, with i idle and b bridged listeners.
Top(state, held, i, b) ==
    \/ Wanted(state, held, i, b) /\ MintOrWait(held)
    \/ ~Wanted(state, held, i, b) /\ pending' = held /\ UNCHANGED minting

\* start, from stopped or after a refusal; a mint of an earlier run may still be in flight.
StartHosting == /\ ~Running
         /\ hostState' = "running"
         /\ popRefusals' = 0
         /\ Top("running", pending, idle, bridged)
         /\ UNCHANGED <<mints, idle, bridged>>

\* stop: the retry is cleared and every listener closed; a mint in flight goes on.
StopHosting == /\ hostState' = "stopped"
        /\ pending' = pending \ {"retry"}
        /\ idle' = 0
        /\ bridged' = 0
        /\ UNCHANGED <<minting, mints, popRefusals>>

\* The finally of top, which leaves `held` pending: still short, so ask again in a microtask.
Finally(state, held, i) ==
    /\ minting > 0
    /\ minting' = minting - 1
    /\ pending' = (held \ {"opening"}) \cup (IF state = "running" /\ i < 1 THEN {"soon"} ELSE {})

\* The mint answers after stop: counted, its token dropped.
MintedStopped == /\ ~Running
                 /\ mints' = mints + 1
                 /\ popRefusals' = 0
                 /\ Finally(hostState, pending, idle)
                 /\ UNCHANGED <<hostState, idle, bridged>>

\* The mint succeeds and open returns; before it does, the peer may have bridged, and the
\* socket may have closed, or open may throw.
OpenResult == {"idle", "bridged", "closed", "bridgedAndClosed", "threw"}
Minted(result) ==
    /\ Running
    /\ mints' = mints + 1
    /\ popRefusals' = 0
    /\ idle' = IF result = "idle" THEN idle + 1 ELSE idle
    /\ bridged' = IF result = "bridged" THEN bridged + 1 ELSE bridged
    /\ Finally(hostState,
               IF result \in {"closed", "threw"} THEN pending \cup {"retry"} ELSE pending,
               idle')
    /\ UNCHANGED hostState

\* The mint fails: a 402 or 403 stops the minting, but the first key-proof refusal in a row
\* is backed off like a network error or a 429.
MintFailure == {"network", "rateLimited", "refused", "proofRefused"}
MintFailed(kind) ==
    LET refusals == IF kind = "proofRefused" THEN popRefusals + 1 ELSE popRefusals
        terminal == kind = "refused" \/ (kind = "proofRefused" /\ refusals >= 2)
    IN /\ popRefusals' = refusals
       /\ hostState' = IF Running /\ terminal THEN "refused" ELSE hostState
       /\ Finally(hostState',
                  IF Running /\ ~terminal THEN pending \cup {"retry"} ELSE pending,
                  idle)
       /\ UNCHANGED <<mints, idle, bridged>>

\* The microtask: top.
AskAgain == /\ "soon" \in pending
            /\ Top(hostState, pending \ {"soon"}, idle, bridged)
            /\ UNCHANGED <<hostState, mints, popRefusals, idle, bridged>>

\* The retry timer: the slot is free again, then top.
RetryFires == /\ "retry" \in pending
              /\ Top(hostState, pending \ {"retry"}, idle, bridged)
              /\ UNCHANGED <<hostState, mints, popRefusals, idle, bridged>>

\* Mutant: a session that starts brings no replacement.
BridgedQuietly == /\ idle > 0
                  /\ idle' = idle - 1
                  /\ bridged' = bridged + 1
                  /\ UNCHANGED <<hostState, pending, minting, mints, popRefusals>>

\* onBridged: the idle listener serves a peer now; restore a warm one.
Bridged == /\ idle > 0
           /\ idle' = idle - 1
           /\ bridged' = bridged + 1
           /\ Top(hostState, pending, idle - 1, bridged + 1)
           /\ UNCHANGED <<hostState, mints, popRefusals>>

\* onClose of an idle listener: the relay refuses or is unreachable; scheduleRetry.
IdleCloses == /\ idle > 0
              /\ idle' = idle - 1
              /\ pending' = IF Running THEN pending \cup {"retry"} ELSE pending
              /\ UNCHANGED <<hostState, minting, mints, popRefusals, bridged>>

\* onClose of a bridged one: a peer's session ended.
SessionEnds == /\ bridged > 0
               /\ bridged' = bridged - 1
               /\ Top(hostState, pending, idle, bridged - 1)
               /\ UNCHANGED <<hostState, mints, popRefusals, idle>>

\* The refresh timer of an idle listener: close it and register anew.
Refresh == /\ idle > 0
           /\ Running
           /\ idle' = idle - 1
           /\ Top(hostState, pending, idle - 1, bridged)
           /\ UNCHANGED <<hostState, mints, popRefusals, bridged>>

\* The oldest mint leaves the rolling hour.
Ages == /\ mints > 0
        /\ mints' = mints - 1
        /\ UNCHANGED <<hostState, pending, minting, popRefusals, idle, bridged>>

HostedNext == \/ StartHosting \/ StopHosting \/ MintedStopped
              \/ \E result \in OpenResult : Minted(result)
              \/ \E kind \in MintFailure : MintFailed(kind)
              \/ AskAgain \/ RetryFires
              \/ Bridged \/ IdleCloses \/ SessionEnds \/ Refresh \/ Ages

HostedSpec == HostedInit /\ [][HostedNext]_hostedVars

\* Timers fire, microtasks run, hours pass.  Neither the backend nor the relay need answer.
HostedFairness == WF_hostedVars(AskAgain) /\ WF_hostedVars(RetryFires) /\ WF_hostedVars(Ages)

-------------------------------------------------------------------------------
Short == Running /\ idle = 0 /\ bridged < MaxBridged

\* A scheduler "would sit in 'running' with no listener and no timer, i.e. hosting silently
\* dead until a restart": while it is running and short of a listener, a mint is in flight,
\* a retry armed or a microtask on its way.
NeverSilent == Short => minting > 0 \/ pending \cap {"retry", "soon"} # {}

\* "Never two mints at once, and never ahead of an armed backoff", one idle listener at most
\* and, whatever order peers come and go in, no more sessions than the viewer cap.
OneListener == /\ minting + idle <= 1
               /\ "retry" \in pending => minting + idle = 0
               /\ bridged + idle <= MaxBridged

\* "at most MINT_BUDGET_PER_HOUR successful mints in any rolling hour, whatever asks for
\* them", a stop and a start among them.
WithinBudget == mints <= MintBudget

\* One listener is kept or being got, and what keeping it costs is bounded.
ListenerKept == NeverSilent /\ OneListener /\ WithinBudget

\* However often mints fail, sockets close and the budget runs out, a running scheduler that
\* is short of a listener tries to get one.
KeepsTrying == Short ~> minting > 0 \/ ~Short
===============================================================================
