\* One service after the other, through two commands at most and one fault.
SPECIFICATION FairSpec
CONSTANTS
    MaxCommands <- CommandsToEach
    MaxFailures = 1
    MaxRecords = 2
    Illegible = {2}
    Threads = {t1, t2}
    Slots = {1, 2, 3}
    Overlap = 1
    Connections = {c1, c2}
    Workers = 2
    MaxClients <- ClientsAtOnce
PROPERTIES
    StoppedStaysDown
    KeepsServing
    NothingMissed
    ImportsKeepPromise
CHECK_DEADLOCK FALSE
