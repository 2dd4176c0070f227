CONSTANTS
    p1 = p1
    p2 = p2
    p3 = p3
    laptop = laptop
    ci = ci
    Kubit = {p1, p2, p3}
    HostOf <- MCHostOf
    NoOne = NoOne
    Duration = 2
    CallTicks = 1
SPECIFICATION Spec
INVARIANTS ExclusiveUntilExpiry
PROPERTIES LiveHolderKeepsLease CrashedHolderLapses ImplementsMutex
