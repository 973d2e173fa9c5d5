SPECIFICATION Spec
CONSTANTS
    Names = {n1}
    Policies <- ExternalPolicies
    Ops <- LifecycleOps
    CanExhaust = TRUE
    MaxFaults = 1
    MaxOthers = 0
    MaxCrashes = 0
    MaxRedefinitions = 0
PROPERTIES ReadOnlyWhenExternal
