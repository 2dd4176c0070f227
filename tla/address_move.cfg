SPECIFICATION Spec
CONSTANTS
    c1 = c1
    c2 = c2
    c3 = c3
    w = w
    NodeOrder <- MCOrder
    ControlPlane <- MCControlPlane
    Holder <- MCHolder
    Scenarios <- MCScenarios
    Patient = TRUE
    MaxTrouble = 3
INVARIANTS OneAway KeepsOnlyProven
PROPERTIES RecordsWhatIsKept Settles
CHECK_DEADLOCK FALSE
