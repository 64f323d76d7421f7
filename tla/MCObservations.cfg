SPECIFICATION Spec
CONSTANTS
    NaN = NaN
    NoMessage = NoMessage
    Sensors = {"dragino-cpl01-pluviometer", "dragino-lsn50v2", "dragino-thpllora", "dragino-thwlora", "dragino-llms01", "dragino-lse01", "dragino-probe6470", "dragino-d2x", "dragino-sn50v3-probe6470", "lorain-pluviometer", "thlora-thermohygrometer", "talkpool-oy1110", "oseren-soil-station", "thplnbiot", "thwnbiot", "barani-meteowind", "barani-meteowind-v2023", "barani-meteowind-v2026", "barani-meteorain", "barani-meteohelix", "barani-meteohelix-v2026", "barani-meteoag-2022"}
    Environments <- MCEnvironments
    None = None
    NoReport = NoReport
    Items <- MCItems
    Winds <- MCWinds
    Readings <- MCReadings
    PageLength = 3
    InsertionLimit = 5
    Invalid = Invalid
    Garbage = Garbage
    NoPage = NoPage
    Formats = {"weatherlink", "weathercat", "meteohub", "wswin", "weatherdisplay", "meteobridge", "static"}
    NoFormat = NoFormat
    Settings <- MCSettings
    ConsoleMeasures <- MCMeasures
    Spring = 3
    Autumn = 7
    LastTime = 9
    MaxRecords = 2
    Dash = Dash
    Absent = Absent
    NoConsole = NoConsole
    NbDates = 2
    InvalidDefault = InvalidDefault
    NoFieldClimate = NoFieldClimate
INVARIANTS SensorsReadAsDocumented SynopFollowsReport WeatherlinkFollowsSensors FilesFollowWritings ArchivesFollowStations
CHECK_DEADLOCK FALSE
