SPECIFICATION FairSpec
CONSTANTS
    Names = {n1}
    Policies <- TerminationPolicies
    Ops <- LifecycleOps
    CanExhaust = FALSE
    MaxFaults = 2
    MaxOthers = 1
    MaxCrashes = 1
    MaxRedefinitions = 0
PROPERTIES CreateEnds DeleteEnds
