----------------------------- MODULE MCJobQueue -----------------------------
(* Small queues. *)
EXTENDS JobQueue, TLC

CONSTANT a

\* One run that is executed again once.
Twice == a :> 2
=============================================================================
