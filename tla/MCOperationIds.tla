----------------------------- MODULE MCOperationIds -----------------------------
(* TLC instance of the two places that answer a retried operation id: the request ledger of
   canvas-control calls and the kills of the session host.  They share nothing, so each
   behaviour is one of the ledger's or one of the host's, and the other stays as it began. *)
EXTENDS ControlRequestLedger, SessionHost

VARIABLE whose              \* whose behaviour this is

IdsInit == Init /\ SessionInit /\ whose \in {"ledger", "session"}

IdsNext == /\ \/ whose = "ledger" /\ Next /\ UNCHANGED sessionVars
              \/ whose = "session" /\ SessionNext /\ UNCHANGED vars
           /\ UNCHANGED whose

IdsSpec == IdsInit /\ [][IdsNext]_<<whose, vars, sessionVars>>

Symmetry == Permutations(Caller) \cup Permutations(Id) \cup Permutations(Fingerprint)
              \cup Permutations(Client) \cup Permutations(Op)

\* Every variable of both has its type.
IdsTypeOK == TypeOK /\ SessionTypeOK
===============================================================================
