------------------------------ MODULE MCPlans ------------------------------
(* Plans of up to three tasks, proposed in any order. *)
EXTENDS Plans

ThreeTasks == <<1, 2, 3>>
=============================================================================
