SPECIFICATION FairSpec
CONSTANTS
    Clients = {"c1", "c2"}
    Inventories <- SomeInventories
    MaxRefreshes = 2
    MaxStarts = 2
    MaxFaults = 1
    MaxCrashes = 1
    MaxRotations = 1
INVARIANTS TypeOK FreshWhenRefreshed KeptIsToken BrokenOnlyByFaults
PROPERTIES RefreshEnds
CHECK_DEADLOCK FALSE
