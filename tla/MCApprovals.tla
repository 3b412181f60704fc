---------------------------- MODULE MCApprovals ----------------------------
(* The approval gate for TLC. *)
EXTENDS Approvals
=============================================================================
