\* One exchange after another with a station that answers anything, late or
\* never, sends a stray newline, or leaves: no command from the control socket,
\* and the event loop is held up once.
SPECIFICATION FairSpec
CONSTANTS
    Workers = 1
    MaxTimeouts = 5
    MaxTransmissionErrors = 2
    MaxPageErrors = 2
    PageCounter = 3
    MaxPages = 1
    MaxNoise = 1
    MaxCommands = 0
    MaxQueued = 2
    MayStop = FALSE
    StationMayLeave = TRUE
    MaxDisturbances = 3
    MaxStalls = 1
INVARIANTS
    SingleOperation
    AnswerFollowsRequest
    AckOnlyStoredPages
    PagesExpected
    SilenceBounded
    DaemonSurvives
PROPERTIES
    DepartureStops
\* A stopped connector has nothing left to do.
CHECK_DEADLOCK FALSE
