SPECIFICATION Spec
CONSTANTS
    Node = {1, 2, 3, 4, 5}
    ControlPlane = {1, 2, 3, 4}
    Source = {"cli"}
    Starts <- SomeStarts
    Edits <- SomeEdits
    Reused = {2}
    Careful = TRUE
    MaxEtcd = 2
    MaxEdits = 1
    MaxTrouble = 1
INVARIANTS OneEtcd BootstrapsOnDeclaredImage
PROPERTIES CreateCompletes
CHECK_DEADLOCK FALSE
