\* A station downloaded from its web site, and a directly connected one.
SPECIFICATION FairSpec
CONSTANTS
    Stations = {s1, s2}
    Direct = {s2}
    MaxCommands = 2
PROPERTIES
    DataExported
\* A terminated daemon does nothing more.
CHECK_DEADLOCK FALSE
