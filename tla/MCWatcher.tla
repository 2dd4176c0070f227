----------------------------- MODULE MCWatcher ------------------------------
(* Instances of Watcher. *)
EXTENDS Watcher, TLC

CONSTANTS n1, n2

\* Nodes are interchangeable; used only where no liveness is checked.
Nodes == Permutations(Node)

=============================================================================
