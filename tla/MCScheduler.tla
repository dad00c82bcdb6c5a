---------------------------- MODULE MCScheduler ----------------------------
(* Small plans for the scheduler. *)
EXTENDS Scheduler, TLC

CONSTANTS t1, t2, r1, r2

Order == t1 :> 1 @@ t2 :> 2 @@ r1 :> 3 @@ r2 :> 4
OrderOf(S) == [t \in S |-> Order[t]]

AllOutcomes == {"finished", "blocked", "failed", "fatal", "misconfigured", "crashed",
                "approval_pending", "cancelled"}

\* document_plan: one producer, one reviewer.
DocTasks == {t1, r1}
DocDeps == t1 :> <<>> @@ r1 :> <<t1>>
DocOrder == OrderOf(DocTasks)

\* Two producers, the second building on the first, one reviewer of both.
PairTasks == {t1, t2, r1}
PairDeps == t1 :> <<>> @@ t2 :> <<t1>> @@ r1 :> <<t1, t2>>
PairOrder == OrderOf(PairTasks)

\* One producer with two reviewers.
TwoTasks == {t1, r1, r2}
TwoDeps == t1 :> <<>> @@ r1 :> <<t1>> @@ r2 :> <<t1>>
TwoOrder == OrderOf(TwoTasks)

\* A producer and its reviewer; the Master may add an independent producer.
GrowingTasks == {t1, t2, r1}
GrowingDeps == t1 :> <<>> @@ t2 :> <<>> @@ r1 :> <<t1>>
GrowingOrder == OrderOf(GrowingTasks)
=============================================================================
