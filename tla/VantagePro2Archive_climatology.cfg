\* The span of the climatology to recompute after a download.
SPECIFICATION FairSpec
CONSTANTS
    PageSize = 2
    PollingPeriod = 1
    DayLength = 3
    MaxTime = 5
    MaxFailures = 2
INVARIANTS
    ClimatologyRecomputed
