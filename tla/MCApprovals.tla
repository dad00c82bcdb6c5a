---------------------------- MODULE MCApprovals ----------------------------
(* A run of one task whose session asks for approval. *)
EXTENDS Approvals

CONSTANTS t1, c1
=============================================================================
