--------------------------- MODULE MCObservations ---------------------------
EXTENDS Observations, MCSynop, MCWeatherlink

\* A sensor with and without a correction of its direction, at both ends of the
\* known voltage, and with either value of the float that is not initialised.
MCEnvironments ==
    {[offset |-> 0, battery |-> 42, junk |-> 0, voltage |-> TRUE],
     [offset |-> 3, battery |-> 32, junk |-> 255, voltage |-> FALSE]}

\* A zone whose clock changes by itself, one half an hour off, one the server does
\* not know to change, one changed by hand, and offsets to UTC.  A plain setting is
\* that of UTC; what is measured varies with this one only.
Setting(zone, manual, gmt, offset) ==
    [timeZone |-> zone, manualDST |-> manual, gmtOrZone |-> gmt, gmtOffset |-> offset,
     plain |-> gmt = 1 /\ offset = 0]
MCSettings ==
    {Setting(21, 0, 0, 0), Setting(13, 0, 0, 0), Setting(30, 0, 0, 0), Setting(21, 1, 0, 0),
     Setting(0, 0, 1, 0), Setting(0, 0, 1, 530), Setting(0, 0, 1, -330)}
AllMeasured == [q \in ArchiveDataPoint |-> IF q \in Temperatures THEN 500 ELSE 12]
ConsoleMeasure(values, type, inside) ==
    [values |-> values, recordType |-> type, inside |-> inside,
     plain |-> values = AllMeasured /\ type = "plain" /\ inside = FALSE]
MCMeasures ==
    {ConsoleMeasure(AllMeasured, type, inside) : type \in {"plain", "0xAB", "0xAC"}, inside \in BOOLEAN}
    \cup {ConsoleMeasure([AllMeasured EXCEPT ![q] = Dash], type, TRUE) :
              q \in ArchiveDataPoint \ {"rainfall", "et"}, type \in {"plain"}}
    \cup {ConsoleMeasure([AllMeasured EXCEPT ![q] = Dash], type, TRUE) :
              q \in {"insideTemp", "soilTemp", "forecast"}, type \in {"0xAB", "0xAC"}}
    \cup {ConsoleMeasure([AllMeasured EXCEPT ![q] = -55], "plain", TRUE) :
              q \in Temperatures \cup ByteTemperatures}
=============================================================================
