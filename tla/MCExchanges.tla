----------------------------- MODULE MCExchanges -----------------------------
(* A small plan and a few of everything for what a run exchanges. *)
EXTENDS Exchanges, TLC

CONSTANTS
    p1, r1, producer, reviewer, master,     \* Messages
    t1, t2, c1, c2                          \* Approvals

PairTasks == {p1, r1}
PairOwner == p1 :> producer @@ r1 :> reviewer
PairDeps == p1 :> {} @@ r1 :> {p1}

\* The tasks that ask for approval are alike, and so are their users' requests.
Alike == Permutations({t1, t2}) \cup Permutations({c1, c2})
=============================================================================
