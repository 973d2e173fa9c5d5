SPECIFICATION Spec
CONSTANTS
    Names = {n1, n2}
    Policies <- KindPolicies
    Ops <- AllOps
    CanExhaust = TRUE
    MaxFaults = 0
    MaxOthers = 0
    MaxCrashes = 1
    MaxRedefinitions = 2
INVARIANTS LedgerAgrees RedefinitionsLeaveOneEach
