CONSTANTS
    u1 = u1
    u2 = u2
    Client = {u1, u2}
    Version = {1, 2}
    None = None
    ConsoleOpen = TRUE
    ApiMayFail = TRUE
    MaxEvents = 2
SPECIFICATION Spec
INVARIANTS ReviewStands
PROPERTIES SummarySettles EditIsPlanned
