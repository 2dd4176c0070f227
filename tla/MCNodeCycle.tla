----------------------------- MODULE MCNodeCycle -----------------------------
EXTENDS NodeCycle, TLC

CONSTANTS n1, n2, n3

\* The nodes of one role are interchangeable.
Peers == Permutations(ControlPlane) \cup Permutations(Node \ ControlPlane)
=============================================================================
