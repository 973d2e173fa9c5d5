SPECIFICATION FairSpec
CONSTANTS
    CanExhaust = FALSE
    MaxFaults = 1
    MaxCrashes = 0
PROPERTIES DeleteEnds
