SPECIFICATION FairSpec
CONSTANTS
    Kinds = {"Pod", "Claim"}
    Names = {"a", "b"}
    Paths <- AllPaths
    Layouts <- RenamedLayouts
    Near <- SameFile
    Yaml <- AllPaths
    Protected <- Claim
    Typed = {"Pod", "Claim"}
    Preexisting <- FirstPod
    Policies <- FilePolicies
    Ops <- AllOps
    MaxFaults = 1
    MaxOthers = 0
    MaxCrashes = 1
    MaxRedefinitions = 1
INVARIANTS TypeOK NothingLeftBehind FewLeaveNothingBehind EntriesCoverLayout DefsUnique
PROPERTIES ExternalSurvives CreateEnds DeleteEnds ImplementsManagedNode
