CONSTANTS
    n1 = n1
    n2 = n2
    Node = {n1, n2}
    NoNode = NoNode
    confirmAfter = 3
    offlineAfter = 3
    Kind = {"node.notready", "api.unreachable"}
SPECIFICATION Spec
SYMMETRY Nodes
INVARIANTS HeldFaultIsAlerted
PROPERTIES RaisedOnlyConfirmed WebhooksTellNews
