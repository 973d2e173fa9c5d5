SPECIFICATION Spec
CONSTANTS
    Names = {n1}
    Policies <- OwnershipPolicies
    Ops <- AllOps
    CanExhaust = TRUE
    MaxFaults = 2
    MaxOthers = 1
    MaxCrashes = 1
    MaxRedefinitions = 0
INVARIANTS TypeOK NothingLeftBehind SureOfAbsence
PROPERTIES ExternalUntouched ConflictOnlyWhenDisturbed ImplementsManagedNode
