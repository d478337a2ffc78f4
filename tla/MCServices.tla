------------------------------- MODULE MCServices -------------------------------
(* TLC instances of the services of the core process that share nothing with one another:
   the spawn gate, the hosted listener, the triggers, the GitHub requests, and the session
   host.  Their product would show nothing more, so each behaviour is one of one service:
   `at` says which, and the others stay as they began.                                  *)
EXTENDS PtySpawnGate, HostedScheduler, TriggerScheduler, RequestCoordinator, SessionHost, TLC

CONSTANT Focus              \* the services a run is about

VARIABLE at                 \* whose behaviour this is

ServicesInit == /\ at \in Focus
                /\ GateInit /\ HostedInit /\ TriggerInit /\ ReqInit /\ SessionInit

ServicesNext ==
    /\ \/ at = "gate" /\ GateNext /\ UNCHANGED <<hostedVars, triggerVars, reqVars, sessionVars>>
       \/ at = "hosting" /\ HostedNext /\ UNCHANGED <<gateVars, triggerVars, reqVars, sessionVars>>
       \/ at = "triggers" /\ TriggerNext /\ UNCHANGED <<gateVars, hostedVars, reqVars, sessionVars>>
       \/ at = "requests" /\ ReqNext /\ UNCHANGED <<gateVars, hostedVars, triggerVars, sessionVars>>
       \/ at = "session" /\ SessionNext /\ UNCHANGED <<gateVars, hostedVars, triggerVars, reqVars>>
    /\ UNCHANGED at

allVars == <<at, gateVars, hostedVars, triggerVars, reqVars, sessionVars>>

(* A service's fairness constrains its own behaviours only: what is fair of the others is
   disabled where they stand still, since each of them begins at rest.                  *)
ServicesFairness ==
    GateFairness /\ HostedFairness /\ TriggerFairness /\ ReqFairness /\ SessionFairness

ServicesSpec == ServicesInit /\ [][ServicesNext]_allVars /\ ServicesFairness

\* Every variable of every service has its type.
ServicesTypeOK == GateTypeOK /\ HostedTypeOK /\ TriggerTypeOK /\ ReqTypeOK /\ SessionTypeOK

\* Two triggers, one behind the other in the listing.
TwoTriggers == <<"a", "b">>
EveryMinute == {[kind |-> "cron", n |-> 1]}
EverySecond == {[kind |-> "interval", n |-> 2]}
===============================================================================
