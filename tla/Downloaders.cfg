SPECIFICATION FairSpec
CONSTANTS
    Kinds = {"weatherlink", "apiv2", "fieldclimate", "liveobjects", "meteofrance", "radome", "virtual"}
    MaxTime = 3
    Window = 2
    Rewind = 1
    Disconnected = 2
    Given = 3
    Stale = 2
    Resync = 1
    PageSize = 1
    Illegible = {2}
    Sparse = {1, 3}
    Main = 1
    MaxFaults = 1
INVARIANTS
    TimescaleFollows
PROPERTIES
    ClimatologyAsked
    KeepsPromise
    DownloadsEnd
    CatchesUp
CHECK_DEADLOCK FALSE
