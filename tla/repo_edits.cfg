SPECIFICATION Spec
CONSTANTS
    Path = {"a/x/db", "a/x/web", "a/api", "b/db"}
    Folder = {"a", "a/x", "b"}
    In <- Places
    Cluster = {"A", "B"}
    Owner <- Owners
    Worker = {1, 2}
    Scenarios <- SomeScenarios
    MaxAsks = 3
    MaxTrouble = 1
INVARIANTS NothingLost KeysStayHome Listed
PROPERTIES NoBlindWrite RequestsAnswered
CHECK_DEADLOCK FALSE
