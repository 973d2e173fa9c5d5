SPECIFICATION Spec
CONSTANTS
    Kinds = {"Pod", "Claim"}
    Names = {"a", "b"}
    Paths <- AllPaths
    Layouts <- ClaimsLayouts
    Near <- SameFile
    Yaml <- AllPaths
    Protected <- Claim
    Typed = {"Pod", "Claim"}
    Preexisting <- Pods
    Policies <- PlainPolicies
    Ops <- LifecycleOps
    MaxFaults = 0
    MaxOthers = 0
    MaxCrashes = 0
    MaxRedefinitions = 0
PROPERTIES OnlyFileDeleted
