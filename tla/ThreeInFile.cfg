SPECIFICATION Spec
CONSTANTS
    Kinds = {"Pod", "Claim"}
    Names = {"a", "b"}
    Paths <- AllPaths
    Layouts <- ThreeLayouts
    Near <- SameFile
    Yaml <- AllPaths
    Protected <- Claim
    Typed = {"Pod", "Claim"}
    Preexisting <- Pods
    Policies <- RedefinablePolicies
    Ops <- LifecycleOps
    MaxFaults = 2
    MaxOthers = 1
    MaxCrashes = 1
    MaxRedefinitions = 0
INVARIANTS NothingLeftBehind UnfailedLeaveNothingBehind EntriesCoverLayout
PROPERTIES ImplementsManagedNode
