SPECIFICATION Spec
CONSTANTS
    n1 = n1
    n2 = n2
    n3 = n3
    Node = {n1, n2, n3}
    ControlPlane = {n1, n2, n3}
    NoNode = NoNode
    Kinds = {"restart", "upgrade"}
    MaxRuns = 2
    MaxKubectl = 1
    MaxFailures = 1
SYMMETRY Peers
INVARIANTS FinishedIsUpgraded
PROPERTIES OneMemberDown CordonsGoBack
CHECK_DEADLOCK FALSE
