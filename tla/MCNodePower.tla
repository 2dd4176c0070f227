----------------------------- MODULE MCNodePower -----------------------------
EXTENDS NodePower, TLC

CONSTANTS n1, n2, n3, w1

\* The control planes beside the endpoint are interchangeable.
Peers == Permutations(ControlPlane \ {Endpoint})
=============================================================================
