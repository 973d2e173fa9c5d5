SPECIFICATION FairSpec
CONSTANTS
    CanExhaust = TRUE
    MaxFaults = 3
    MaxCrashes = 2
INVARIANTS TypeOK ConnectedWhenStarted UsableWhenStarted NothingLeftBehind
PROPERTIES CreateEnds
