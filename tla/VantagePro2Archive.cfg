\* Downloads, partial failures and reconnections, over a memory of three pages
\* and two days.
SPECIFICATION FairSpec
CONSTANTS
    PageSize = 2
    PollingPeriod = 1
    DayLength = 3
    MaxTime = 5
    MaxFailures = 2
INVARIANTS
    NoHole
PROPERTIES
    WatermarkAdvances
    EverythingStored
