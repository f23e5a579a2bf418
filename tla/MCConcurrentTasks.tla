------------------------- MODULE MCConcurrentTasks -------------------------
(* Three tasks: one fails for good, one is told to stop and one is still   *)
(* in its call; one retry, so that a delay can be cut short.               *)
EXTENDS ConcurrentTasks
=============================================================================
