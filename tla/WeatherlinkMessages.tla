------------------------- MODULE WeatherlinkMessages -------------------------
(***************************************************************************)
(* The pages of the Weatherlink APIs: a page is a list of readings, one    *)
(* per sensor, each with its data at one or several times.  Each of them   *)
(* becomes a message of its own, the messages are sorted, and are inserted *)
(* in that order: the database keeps one row per time, in which a measure  *)
(* that is not missing replaces the one before.                            *)
(*                                                                         *)
(* The value of a measure is the reading it comes from, so that one can    *)
(* tell which one prevails; the rainfall alone is an amount, in clicks.    *)
(***************************************************************************)
EXTENDS Integers, Sequences, SequencesExt, FiniteSetsExt, Relation, TLC

CONSTANTS
    Readings,       \* the readings a page may have, a sequence: see WlAssumption
    PageLength,     \* the most readings in a page
    InsertionLimit, \* up to so many entries std::sort is an insertion sort: 16 in libstdc++
    Invalid,        \* INVALID_INT and INVALID_FLOAT
    Garbage,        \* a value the sensor has not sent
    NoPage          \* a behaviour about something else

Wind == {"windDir", "windSpeed", "windGustSpeed"}
Outside == Wind \cup {"temperature", "humidity", "rainRate", "rainFall", "solarRad", "uvIndex"}
MinMax == {"minTemperature", "maxTemperature"}
Leaf == {"leafTemperature", "leafWetness"}
Soil == {"soilTemperature", "soilMoisture"}
Extra == {"extraTemperature", "extraHumidity"}
\* The members of DataPoint; the temperatures in both units are one, and so are
\* the elements of an array, the depths of a probe, and the voltages.
DataPoint == Outside \cup MinMax \cup Leaf \cup Soil \cup Extra
             \cup {"pressure", "soilProfile", "voltages"}

\* What the data of each sensor has, by generation of the device.
IsLive(device) == device \in {"live", "console"}
HasData(r) ==
    CASE r.sensor = "iss" /\ r.device = "ip" -> Outside \cup {"pressure"} \cup Extra \cup Leaf \cup Soil
      [] r.sensor = "iss" /\ r.device = "enviromonitor" -> Outside \cup {"pressure"}
      [] r.sensor \in {"iss", "suite"} /\ IsLive(r.device) -> Outside
      [] r.sensor = "barometer" /\ IsLive(r.device) -> {"pressure"}
      [] r.sensor = "leafsoil" /\ IsLive(r.device) -> Leaf \cup Soil
      [] r.sensor = "anemometer" -> Wind
      [] r.sensor = "thermohygro" -> {"temperature", "humidity"}
      [] r.sensor = "soilprobe" -> {"soilMoisture"}
      [] r.sensor = "sentek" -> {"soilProfile"}
      [] r.sensor = "noaa" ->
            (Outside \ {"rainFall"}) \cup {"pressure"} \cup Extra \cup Leaf \cup Soil
      [] OTHER -> {}
\* The variables an owner may give a sensor that has a parser of its own.
Renamed(r, v, names) == v \in DOMAIN r.variables => r.variables[v] \in names
HasVariables(r) ==
    /\ Renamed(r, "temperature", {"temperature", "extraTemperature", "leafTemperature", "soilTemperature"})
    /\ Renamed(r, "humidity", {"humidity", "extraHumidity"})
    /\ \A v \in {"solarRad", "uvIndex", "soilMoisture", "soilProfile"} : Renamed(r, v, {v})
    /\ DOMAIN r.variables \subseteq
            CASE r.sensor = "thermohygro" -> {"temperature", "humidity"}
              [] r.sensor = "soilprobe" -> {"soilMoisture"}
              [] r.sensor = "sentek" -> {"soilProfile"}
              [] (r.sensor = "suite" /\ IsLive(r.device)) \/ (r.sensor = "iss" /\ r.device = "console") ->
                    {"temperature", "humidity", "wind", "solarRad", "uvIndex"}
              [] OTHER -> {}
    /\ "wind" \in DOMAIN r.variables => Wind \subseteq r.sends \/ Wind \cap r.sends = {}

ASSUME WlAssumption ==
    /\ DOMAIN Readings \subseteq Nat /\ PageLength \in Nat /\ InsertionLimit \in Nat
    /\ Invalid \notin Int /\ Garbage \notin Int /\ Invalid # Garbage
    /\ \A i \in DOMAIN Readings :
          LET r == Readings[i]
          IN  /\ r.sends \subseteq HasData(r) /\ HasVariables(r)
              /\ r.device \in {"live", "console", "ip", "enviromonitor"}
              /\ r.times \in Seq(Nat) /\ r.times # <<>> /\ r.rain \in Nat

VARIABLES
    kind,           \* the page: "archive", "realtime" or "noaa", of the first API
    page,           \* its readings, as indices of Readings
    substations,    \* whether the readings are shared out among stations
    dayRain,        \* the rain of the day so far, from the database
    messages,       \* the messages parsed, in the order of their insertion
    database,       \* time -> measure -> value
    timescale,
    refused,        \* whether an insertion has failed
    result          \* "received", "parsed", "completed", "failed" or "crashed"
wlVars == <<kind, page, substations, dayRain, messages, database, timescale, refused, result>>

-----------------------------------------------------------------------------
(* Reading the data of one sensor                                           *)

\* ingest: the members that are read from the data, by sensor and data structure.
IngestArchive(sensor, device) ==
    CASE sensor \in {"iss", "suite"} /\ IsLive(device) -> Outside \cup MinMax \cup {"voltages"}
      [] sensor = "iss" /\ ~IsLive(device) ->
            Outside \cup MinMax \cup {"pressure"} \cup Extra \cup Leaf \cup Soil
      [] sensor = "barometer" /\ IsLive(device) -> {"pressure"}
      [] sensor = "leafsoil" /\ IsLive(device) -> Leaf \cup Soil
      [] sensor = "anemometer" -> Wind
      [] OTHER -> {}
IngestStation(device) ==
    CASE IsLive(device) -> Outside \cup {"voltages"}
      [] device = "ip" -> Outside \cup {"pressure"} \cup Extra \cup Leaf \cup Soil
      [] OTHER -> Outside \cup {"pressure"}
IngestRealtime(sensor, device) ==
    CASE sensor = "iss" -> IngestStation(device)
      [] sensor = "suite" /\ IsLive(device) -> Outside \cup {"voltages"}
      [] sensor = "barometer" /\ IsLive(device) -> {"pressure"}
      [] sensor = "leafsoil" /\ IsLive(device) -> Leaf \cup Soil \cup {"extraTemperature"}
      [] sensor = "anemometer" -> Wind
      [] OTHER -> {}
IngestNoaaExt == (Outside \ {"rainFall"}) \cup {"pressure"} \cup Extra \cup Leaf \cup Soil
Ingested(sensor, device) ==
    CASE kind = "noaa" -> IF sensor = "noaa" THEN IngestNoaaExt ELSE {}
      [] kind = "archive" -> IngestArchive(sensor, device)
      [] OTHER -> IngestRealtime(sensor, device)

\* extractRainFall, and the rain of the day minus what is known of it, unless it is
\* less than what is known; the suites send the rain of the last minutes.
RainFall(r) ==
    IF kind = "archive" \/ r.sensor = "suite" THEN r.rain
    ELSE IF r.rain >= dayRain THEN r.rain - dayRain ELSE Invalid

\* A temperature that is missing is not replaced by anything, but lround makes a
\* number of the missing moistures of an archive, and so does the default of the
\* temperatures of the soil of the first API.
Missing(r, m) ==
    CASE kind = "archive" /\ r.sensor = "leafsoil" /\ m \in {"leafWetness", "soilMoisture"} -> Garbage
      [] r.sensor = "noaa" /\ m = "soilTemperature" -> Garbage
      [] OTHER -> Invalid
Measure(i, m) == IF m = "rainFall" THEN RainFall(Readings[i]) ELSE i
ConventionalMessage(i) ==
    LET r == Readings[i]
        members == Ingested(r.sensor, r.device)
    IN  [m \in DataPoint |-> IF m \notin members THEN Invalid
                             ELSE IF m \in r.sends THEN Measure(i, m) ELSE Missing(r, m)]

\* makeParser: the parser of a reading for which the station has variables, if any.
ParserOf(r) ==
    CASE r.sensor = "thermohygro" -> "ThermohygroProbe100Parser"
      [] r.sensor = "soilprobe" -> "SoilProbe108Parser"
      [] r.sensor = "sentek" -> "SentekProbe116Parser"
      [] r.sensor = "suite" \/ (r.device = "console" /\ r.sensor = "iss") ->
            "DavisTransmitter55Parser"
      [] OTHER -> "none"
Send(r, needed, members) == IF needed \subseteq r.sends THEN members ELSE {}
Variable(r, name) == IF name \in DOMAIN r.variables THEN {r.variables[name]} ELSE {}
\* The members the parsers set.  The probe of temperature gives its last value for
\* the extreme ones too; the wind is taken whole or not at all; rain is ignored.
Measures(r) ==
    Send(r, {"temperature"}, Variable(r, "temperature"))
    \cup Send(r, {"humidity"}, Variable(r, "humidity"))
ThermohygroProbe(r) ==
    Measures(r) \cup (IF "temperature" \in Measures(r) THEN MinMax ELSE {})
SoilProbe(r) == Send(r, {"soilMoisture"}, Variable(r, "soilMoisture"))
SentekProbe(r) == r.sends \cap {"soilProfile"}
DavisTransmitter(r) ==
    Measures(r)
    \cup (IF "wind" \in DOMAIN r.variables THEN Send(r, Wind, Wind) ELSE {})
    \cup {m \in r.sends \cap {"solarRad", "uvIndex"} : m \in DOMAIN r.variables}
CustomMembers(r) ==
    CASE ParserOf(r) = "ThermohygroProbe100Parser" -> ThermohygroProbe(r)
      [] ParserOf(r) = "SoilProbe108Parser" -> SoilProbe(r)
      [] ParserOf(r) = "SentekProbe116Parser" -> SentekProbe(r)
      [] ParserOf(r) = "DavisTransmitter55Parser" /\ IsLive(r.device) -> DavisTransmitter(r)
      [] OTHER -> {}
CustomMessage(i) ==
    [m \in DataPoint |-> IF m \in CustomMembers(Readings[i]) THEN i ELSE Invalid]

-----------------------------------------------------------------------------
(* Reading a page                                                           *)

\* acceptEntry and acceptEntryWithSubstations
AcceptEntry(r) == substations => r.here
\* Without substations a page is parsed without the dedicated parsers.
HasParser(r) == substations /\ DOMAIN r.variables # {}
\* A page of the archive has all the data of a reading, a current one the first only.
Times(r) == IF kind = "archive" THEN r.times ELSE <<r.times[1]>>
Entry(i, time, members) == [reading |-> i, time |-> time, members |-> members]
Entries(i, members) == [k \in DOMAIN Times(Readings[i]) |-> Entry(i, Times(Readings[i])[k], members)]

\* The entries of the page: "nothing has been parsed" for those without a time.
ConventionalEntries ==
    FlattenSeq([k \in DOMAIN page |->
        LET r == Readings[page[k]]
        IN  IF AcceptEntry(r) /\ ~HasParser(r) /\ Ingested(r.sensor, r.device) # {}
            THEN Entries(page[k], ConventionalMessage(page[k])) ELSE <<>>])
CustomEntries ==
    FlattenSeq([k \in DOMAIN page |->
        LET r == Readings[page[k]]
        IN  IF AcceptEntry(r) /\ HasParser(r) /\ ParserOf(r) # "none"
            THEN Entries(page[k], CustomMessage(page[k])) ELSE <<>>])

IsMain(e) == Readings[e.reading].sensor = "iss"
IsSuite(e) == Readings[e.reading].sensor = "suite"
\* compareMessages: the suites before the stations, "to have the possibility to
\* override the aux. sensor suites data with the ISS data".
CompareMessages(e, f) == IsSuite(e) /\ IsMain(f)
\* compareDataPackages: "the ordering of the rest is irrelevant".
CompareDataPackages(e, f) ==
    LET Current(g) == IsMain(g) /\ IsLive(Readings[g.reading].device)
        rain == e.members["rainFall"]
        other == f.members["rainFall"]
    IN  IF IsSuite(e) /\ IsMain(f) THEN FALSE
        ELSE IF Current(e) /\ Current(f)
        THEN rain # Invalid /\ other # Invalid /\ other = 0 /\ rain > 0
        ELSE TRUE
Before(e, f) == IF kind = "archive" THEN CompareMessages(e, f) ELSE CompareDataPackages(e, f)

\* std::sort of a few elements: each is put first if it goes before the first one,
\* or else moved back past those it goes before.
Placed(sorted, e) ==
    LET place == IF sorted = <<>> THEN 1
                 ELSE IF Before(e, sorted[1]) THEN 1
                 ELSE 1 + Max({0} \cup {k \in DOMAIN sorted : ~Before(e, sorted[k])})
    IN  InsertAt(sorted, place, e)
SortEntries(entries) ==
    LET sorted[k \in 0..Len(entries)] ==
            IF k = 0 THEN <<>> ELSE Placed(sorted[k - 1], entries[k])
    IN  sorted[Len(entries)]

\* Of more it partitions them first, in a way that is not told apart here: elements
\* that go before neither of each other come in any order.
Tied(e, f) == ~Before(e, f) /\ ~Before(f, e)
IsStrictWeak(E) == IsStrictlyPartiallyOrderedUnder(Before, E) /\ IsTransitiveUnder(Tied, E)
InAnyOrder(entries) ==
    {[k \in DOMAIN entries |-> entries[f[k]]] : f \in Bijection(DOMAIN entries, DOMAIN entries)}
IsInOrder(s) == \A k, l \in DOMAIN s : k < l => ~Before(s[l], s[k])
\* The functions above need not be a strict weak order, which std::sort requires:
\* the behaviour is then undefined, and what a partition makes of them any order, or
\* an element sought beyond the ends.
SortIsUndefined(entries) ==
    Len(entries) > InsertionLimit /\ ~IsStrictWeak(Range(entries))
Sortings(entries) ==
    IF Len(entries) <= InsertionLimit THEN {SortEntries(entries)}
    ELSE IF SortIsUndefined(entries) THEN InAnyOrder(entries)
    ELSE {s \in InAnyOrder(entries) : IsInOrder(s)}

\* doParse: what the dedicated parsers have read comes last.
ParsePage ==
    /\ result = "received" /\ kind # "noaa"
    /\ \/ /\ \E sorted \in Sortings(ConventionalEntries) : messages' = sorted \o CustomEntries
          /\ result' = "parsed"
       \/ /\ SortIsUndefined(ConventionalEntries)
          /\ messages' = messages /\ result' = "crashed"
    /\ UNCHANGED <<kind, page, substations, dayRain, database, timescale, refused>>

\* WeatherlinkApiv1RealtimeMessage::parse
ParseNoaaExt ==
    /\ result = "received" /\ kind = "noaa"
    /\ messages' = Entries(page[1], ConventionalMessage(page[1]))
    /\ result' = "parsed"
    /\ UNCHANGED <<kind, page, substations, dayRain, database, timescale, refused>>

-----------------------------------------------------------------------------
(* Storing the messages                                                     *)

\* What is computed, from measures of the same message.
Derived ==
    [dewpoint |-> {"temperature", "humidity"}, heatindex |-> {"temperature", "humidity"},
     windchill |-> {"temperature", "windSpeed"}, insolation_time |-> {"solarRad"},
     thswindex |-> {"temperature", "humidity", "windSpeed"},
     et |-> {"temperature", "humidity", "windSpeed", "solarRad"}]
MeasuredColumns == DataPoint \cup DOMAIN Derived
\* getObservation: the voltages are stored when they are missing, and only then.
GetObservation(members) ==
    [c \in MeasuredColumns |->
        IF c = "voltages" THEN IF members[c] = Invalid THEN Garbage ELSE Invalid
        ELSE IF c \in DataPoint THEN members[c]
        ELSE LET sources == {members[m] : m \in Derived[c]}
             IN  IF Invalid \in sources THEN Invalid ELSE CHOOSE v \in sources : TRUE]
NoRow == [c \in MeasuredColumns |-> Invalid]
Row(rows, t) == IF t \in DOMAIN rows THEN rows[t] ELSE NoRow
WithRow(rows, time, row) ==
    [t \in DOMAIN rows \cup {time} |-> IF t = time THEN row ELSE rows[t]]
InsertWholeRow(rows, e) == WithRow(rows, e.time, GetObservation(e.members))
InsertDataPoint(rows, e) ==
    LET o == GetObservation(e.members)
    IN  WithRow(rows, e.time,
                [c \in MeasuredColumns |-> IF o[c] = Invalid THEN Row(rows, e.time)[c] ELSE o[c]])
InsertAll(rows, list) ==
    LET inserted[k \in 0..Len(list)] ==
            IF k = 0 THEN rows ELSE InsertDataPoint(inserted[k - 1], list[k])
    IN  inserted[Len(list)]

\* doProcessRealtimeMessage: the first refusal ends the insertions, and is then
\* forgotten.  In an archive the other messages are inserted, and all of them
\* in TimescaleDB.
StoreMessages ==
    /\ result = "parsed"
    /\ \E k \in 0..Len(messages), ok \in BOOLEAN :       \* one insertion fails at most
        LET attempted == IF kind = "realtime" /\ k > 0 THEN SubSeq(messages, 1, k) ELSE messages
            accepted == IF k = 0 THEN attempted ELSE RemoveAt(attempted, k)
            IsLost == kind = "noaa" /\ k > 0
        IN  /\ k = 0 \/ ok
            /\ refused' = (k > 0)
            /\ database' = InsertAll(database, accepted)
            /\ timescale' = IF ok /\ ~IsLost THEN InsertAll(timescale, attempted) ELSE timescale
            /\ result' = CASE kind = "realtime" -> IF ok THEN "completed" ELSE "failed"
                           [] kind = "archive" -> IF k = 0 THEN "completed" ELSE "failed"
                           [] OTHER -> IF ok /\ k = 0 THEN "completed" ELSE "failed"
    /\ UNCHANGED <<kind, page, substations, dayRain, messages>>

Pages == UNION {{p \in [1..n -> DOMAIN Readings] : IsInjective(p)} : n \in 1..PageLength}
IsNoaa(p) == \E k \in DOMAIN p : Readings[p[k]].sensor = "noaa"
WlInit ==
    /\ page \in Pages
    /\ kind \in (IF ~IsNoaa(page) THEN {"archive", "realtime"} ELSE IF Len(page) = 1 THEN {"noaa"} ELSE {})
    /\ substations \in (IF kind = "noaa" THEN {FALSE} ELSE BOOLEAN)
    /\ dayRain = 1
    /\ messages = <<>> /\ database = <<>> /\ timescale = <<>>
    /\ refused = FALSE /\ result = "received"
WlIdle ==
    /\ page = NoPage /\ kind = "archive" /\ substations = FALSE /\ dayRain = 0
    /\ messages = <<>> /\ database = <<>> /\ timescale = <<>>
    /\ refused = FALSE /\ result = "completed"
WlNext == ParsePage \/ ParseNoaaExt \/ StoreMessages

-----------------------------------------------------------------------------
(* Properties                                                               *)

\* The measures of the station a reading is meant to give, once its variables are
\* taken into account; the temperature of a probe is its extremes too.  Nothing is
\* meant by the probes of a station that has no substations.
Probes == {"thermohygro", "soilprobe", "sentek"}
Meant(r) ==
    IF ~HasParser(r) THEN IF r.sensor \in Probes THEN {} ELSE r.sends
    ELSE {r.variables[v] : v \in DOMAIN r.variables \cap r.sends}
         \cup (IF "wind" \in DOMAIN r.variables THEN Wind \cap r.sends ELSE {})
         \cup (IF r.sensor = "thermohygro" /\ "temperature" \in DOMAIN r.variables \cap r.sends
                  /\ r.variables["temperature"] = "temperature" THEN MinMax ELSE {})
ReadingsOf(t) ==
    {i \in Range(page) : AcceptEntry(Readings[i]) /\ t \in Range(Times(Readings[i]))}
MeantAt(t) == [i \in ReadingsOf(t) |-> Meant(Readings[i])]
Sending(meant, m) == {i \in DOMAIN meant : m \in meant[i]}
\* What may be stored of it: nothing, if they send nothing.
Expected(senders, m) ==
    LET values == IF m = "rainFall" THEN {RainFall(Readings[i]) : i \in senders} ELSE senders
    IN  values \cup (IF values \subseteq {Invalid} THEN {Invalid} ELSE {})

\* The measures that are stored though nobody has sent them, and the voltages,
\* which are stored when they are missing only: the README tells of each.
Unsent(i, m) == Missing(Readings[i], m) = Garbage /\ ~HasParser(Readings[i])
AllTimes == UNION {Range(Readings[i].times) : i \in DOMAIN Readings}

\* Each measure that one of the sensors has sent is in both databases, at its time,
\* once the page is done, as sent by one of them, whatever the other sensors of
\* the page and the order they come in; no measure comes from nowhere, nor from
\* another station.   (The rain is not, when the day's is less than what is known;
\* a refused insertion in the middle of current conditions loses the next, and any
\* of them leaves the first database without its row; a page is not done, when the sort
\* has gone out of bounds.)
Filled ==
    (IF ~refused THEN {database} ELSE {})
    \cup (IF timescale # <<>> /\ (refused => kind = "archive") THEN {timescale} ELSE {})
EachMeasureIsStored ==
    page # NoPage /\ result \in {"completed", "failed"} =>
        \A t \in AllTimes :
            LET meant == MeantAt(t)
            IN  \A m \in DataPoint \ {"voltages"} :
                    \/ \A rows \in Filled : Row(rows, t)[m] \in Expected(Sending(meant, m), m)
                    \/ \E i \in DOMAIN meant : Unsent(i, m)

\* In an archive the station prevails over the other suites of sensors, unless
\* another sensor stands between them in the page, or a dedicated parser follows; in
\* a page of too many entries for the insertions, another sensor anywhere will do.
Between(i, j) ==
    LET At(n) == CHOOSE k \in DOMAIN page : page[k] = n
    IN  {page[k] : k \in (At(i) + 1)..(At(j) - 1)}
PlainlyRead(t, sensor) ==
    {i \in ReadingsOf(t) : Readings[i].sensor = sensor /\ ~HasParser(Readings[i])}
LongAndMixed ==
    /\ Len(ConventionalEntries) > InsertionLimit
    /\ \E e \in Range(ConventionalEntries) : ~IsMain(e) /\ ~IsSuite(e)
StationPrevails ==
    page # NoPage /\ kind = "archive" /\ timescale # <<>> =>
        \A t \in AllTimes :
            \A i \in PlainlyRead(t, "iss"), j \in PlainlyRead(t, "suite") :
                \A m \in Meant(Readings[i]) \cap (Outside \ {"rainFall"}) :
                    Row(timescale, t)[m] = j =>
                        \/ \E k \in Between(i, j) : Readings[k].sensor \notin {"iss", "suite"}
                        \/ LongAndMixed

\* What the sensors of a station send reaches the database, whichever of them send it
\* and in whatever order, and the station has the last word, but for the exceptions
\* above.
WeatherlinkFollowsSensors == EachMeasureIsStored /\ StationPrevails
=============================================================================
