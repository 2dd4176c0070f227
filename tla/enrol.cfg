SPECIFICATION Spec
CONSTANTS
    m1 = m1
    m2 = m2
    m3 = m3
    m4 = m4
    Machine <- MCMachine
    Addr = {1, 2, 3, 4, 5, 6, 8, 9}
    Subnet = {1, 2, 9}
    Vip = 9
    Guest <- MCMachine
    Lease = {1, 2, 9}
    MaxBoots = 2
    MaxTries = 2
    Place = {1, 2, 3, 4, 5, 6, 8, 9}
    Wanted = {2, 5, 6, 8, 9}
    Reserved = {8}
    Pool = {6}
    SuggestedVip = 9
    BigDisk <- MCBigDisk
    DefaultVersion = 2
    SchedulesBelow = 6
    Scenarios <- SomeScenarios
INVARIANTS OneRowPerAddress BootsAreIndexed
PROPERTIES ListSettles DeclaredBootTheirDisk PxeIsFollowed EditsStayLocal EndpointIsHeld
CHECK_DEADLOCK FALSE
