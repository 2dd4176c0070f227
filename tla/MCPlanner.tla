----------------------------- MODULE MCPlanner ------------------------------
(* Instances of Planner. *)
EXTENDS Planner

CONSTANTS u1, u2

=============================================================================
