SPECIFICATION Spec
CONSTANTS
    NaN = NaN
    Gauges = {"thermohygro", "rain_gauge", "lorain", "cpl01", "thpllora", "thplnbiot"}
    MaxTime = 4
    Staleness = 3
    Steps = {0, 3}
    MaxFaults = 1
    MaxDuplicates = 1
    LastTick = 6
    Day = 4
    Hour = 3
    TopOfTheHour = 2
    Weather <- MCWeather
    Limit = 20
    Backlog = 2
    MaxLapses = 1
    LastDay = 4
    MonthLength = 2
    MaxNews = 2
    MaxFailures = 1
    MaxRuns = 1
    Nothing = Nothing
INVARIANTS GaugeRainIsCounted RainStoredOnce ClimatologyFollows
CHECK_DEADLOCK FALSE
