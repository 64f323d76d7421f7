SPECIFICATION SchedulerFairSpec
CONSTANTS
    Workers = 1
    Period = 3
    Offset = 1
    MaxCommands = 3
INVARIANTS
    NeverForgotten
    StopIsSoon
PROPERTIES
    OneDownloadPerSlot
    DownloadsRepeat
    StoppedIsReleased
