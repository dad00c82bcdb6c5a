--------------------------- MODULE DeliveryPromise ---------------------------
(***************************************************************************)
(* What the durable queue of a secured installation promises of each       *)
(* accepted delivery (store/job_store.py, with its module docstring): it   *)
(* is begun at most once, never again after it ended or after a restart,   *)
(* a run has one delivery at a time, and the queue is bounded.             *)
(***************************************************************************)
EXTENDS FiniteSets, Naturals

CONSTANTS Jobs, RunOf(_), MaxPending

VARIABLE state    \* of each delivery: "new", "waiting", "begun" or "over"

TypeOK == state \in [Jobs -> {"new", "waiting", "begun", "over"}]

Pending == {j \in Jobs : state[j] \in {"waiting", "begun"}}

Init == state = [j \in Jobs |-> "new"]

\* A delivery is accepted while the queue has room and its run has no other.
Accept(j) ==
    /\ state[j] = "new"
    /\ Cardinality(Pending) < MaxPending
    /\ \A k \in Pending : RunOf(k) # RunOf(j)
    /\ state' = [state EXCEPT ![j] = "waiting"]

Begin(j) ==
    /\ state[j] = "waiting"
    /\ state' = [state EXCEPT ![j] = "begun"]

\* Cancelled before it began, ended, or given up by a restart: some at once.
End(S) ==
    /\ S # {} /\ S \subseteq Pending
    /\ state' = [j \in Jobs |-> IF j \in S THEN "over" ELSE state[j]]

Next ==
    \/ \E j \in Jobs : Accept(j) \/ Begin(j)
    \/ \E S \in SUBSET Jobs : End(S)

Spec == Init /\ [][Next]_state

\* A run never has two deliveries that are waiting or begun.
OneDeliveryPerRun ==
    \A j, k \in Pending : RunOf(j) = RunOf(k) => j = k
=============================================================================
