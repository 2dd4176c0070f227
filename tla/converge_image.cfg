SPECIFICATION Spec
CONSTANTS
    Addon = {"metallb", "flux", "longhorn"}
    Runner = {1, 2}
    MaxSerial = 5
    Order <- Both
    First = "cp"
    ControlPlane = {"cp"}
    Supports <- Support
    Scenarios <- AllScenarios
    Prompt = TRUE
    MaxTrouble = 3
INVARIANTS LonghornOnItsImage
CHECK_DEADLOCK FALSE
