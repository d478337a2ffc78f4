-------------------------------- MODULE MCCore --------------------------------
(* TLC instance of the services (MCServices) and, as one more of them, a busy delivery
   queue: flushes and expiries that overlap at their awaits and a file whose writes are
   slow or fail, in one life of the process.  The queue shares nothing with the others.

   A queue's step leaves the services as they are and a service's step the queue, so every
   behaviour is one of ServicesSpec and of the queue's Spec, and what is proved of those
   holds of it.                                                                        *)
EXTENDS MCServices, DeliveryQueue

CoreInit == ServicesInit /\ Init

\* A queue may come to rest: nothing held, nothing more to enqueue.
CoreNext == \/ ServicesNext /\ UNCHANGED vars
            \/ at = "queue" /\ [Next]_vars /\ UNCHANGED allVars

CoreSpec == /\ CoreInit
            /\ [][CoreNext]_<<allVars, vars>>
            /\ ServicesFairness /\ QueueFairness
===============================================================================
