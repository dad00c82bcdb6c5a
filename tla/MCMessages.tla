----------------------------- MODULE MCMessages -----------------------------
(* A small plan for the messages of a run: a producer and its reviewer. *)
EXTENDS Messages, TLC

CONSTANTS t1, r1, producer, reviewer, master

PairTasks == {t1, r1}
PairOwner == t1 :> producer @@ r1 :> reviewer
PairDeps == t1 :> {} @@ r1 :> {t1}
=============================================================================
