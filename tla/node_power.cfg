SPECIFICATION Spec
CONSTANTS
    n1 = n1
    n2 = n2
    n3 = n3
    w1 = w1
    Node = {n1, n2, n3, w1}
    ControlPlane = {n1, n2, n3}
    NoNode = NoNode
    Endpoint = n1
    MaxRuns = 3
    MaxTrouble = 1
SYMMETRY Peers
INVARIANTS OnePartialDown MarksMeanShutdown ShutDownStaysMarked
CHECK_DEADLOCK FALSE
