SPECIFICATION FairSpec
CONSTANTS
    Stations = {s1, s2}
    Lasting = {s1}
    NoStation = none
    MaxTime = 3
    DayLength = 2
    MaxRequests = 3
    MaxFailures = 1
    MaxRestarts = 1
INVARIANTS
    EntryWatched
    EntryIsSpan
    AcceptedStaysPast
PROPERTIES
    KeepsPromise
    RequestsPublished
\* All requests published, nothing is left to do.
CHECK_DEADLOCK FALSE
