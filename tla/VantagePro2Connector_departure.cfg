\* A stray newline, then the station leaves.
SPECIFICATION FairSpec
CONSTANTS
    Workers = 1
    MaxTimeouts = 5
    MaxTransmissionErrors = 2
    MaxPageErrors = 2
    PageCounter = 3
    MaxPages = 1
    MaxNoise = 1
    MaxCommands = 0
    MaxQueued = 2
    MayStop = FALSE
    StationMayLeave = TRUE
    MaxDisturbances = 2
    MaxStalls = 0
PROPERTIES
    DepartureNoticed
CHECK_DEADLOCK FALSE
