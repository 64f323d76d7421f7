\* The same connector, stopped from the control socket at any time and disturbed once:
\* by a reload, a start, a stray newline or the departure of the station.  Two workers
\* take its completion handlers in any order.
SPECIFICATION FairSpec
CONSTANTS
    Workers = 2
    MaxTimeouts = 3
    MaxTransmissionErrors = 2
    MaxPageErrors = 1
    PageCounter = 3
    MaxPages = 1
    MaxNoise = 1
    MaxCommands = 1
    MaxQueued = 2
    MayStop = TRUE
    StationMayLeave = TRUE
    MaxDisturbances = 1
    MaxStalls = 0
INVARIANTS
    NeverForgotten
PROPERTIES
    EveryExchangeEnds
    ClosedIsReleased
\* A stopped connector has nothing left to do.
CHECK_DEADLOCK FALSE
