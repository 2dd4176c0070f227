--------------------------- MODULE MCApplyLease -----------------------------
(* Three processes, two of them on one host. *)
EXTENDS ApplyLease

CONSTANTS p1, p2, p3, laptop, ci

MCHostOf == [p \in Kubit |-> IF p = p3 THEN ci ELSE laptop]

=============================================================================
