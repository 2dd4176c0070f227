----------------------------- MODULE ApplyMutex -----------------------------
(***************************************************************************)
(* What the apply Lease promises, without saying how: at any moment at     *)
(* most one kubit process owns the cluster.  An owner that outlives the    *)
(* Lease's duration is overdue: it still runs, nobody told it to stop, but *)
(* it no longer keeps others out.  ApplyLease implements this module.      *)
(***************************************************************************)
CONSTANT Kubit        \* kubit processes

VARIABLE claim        \* claim[p]: p's standing with respect to the cluster

Init == claim = [p \in Kubit |-> "out"]

\* Owning starts only when nobody owns: an overdue process is no obstacle.
Acquire(p) ==
    /\ claim[p] = "out"
    /\ \A q \in Kubit : claim[q] # "owner"
    /\ claim' = [claim EXCEPT ![p] = "owner"]

Outlive(p) ==
    /\ claim[p] = "owner"
    /\ claim' = [claim EXCEPT ![p] = "overdue"]

\* The apply ends or its process dies.
Leave(p) ==
    /\ claim[p] \in {"owner", "overdue"}
    /\ claim' = [claim EXCEPT ![p] = "out"]

Next == \E p \in Kubit : Acquire(p) \/ Outlive(p) \/ Leave(p)

Spec == Init /\ [][Next]_claim

=============================================================================
