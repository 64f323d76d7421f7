------------------------- MODULE FieldClimateMessages -------------------------
(***************************************************************************)
(* The pages of the FieldClimate API: the dates of the data, and for each  *)
(* sensor and each aggregation of its values one value per date.  A        *)
(* collection makes a message of each date, with the sensors that are      *)
(* registered for the station, and each becomes an observation.            *)
(*                                                                         *)
(* A value is the sensor, the aggregation and the date it comes from.      *)
(***************************************************************************)
EXTENDS Integers, Sequences, SequencesExt, FiniteSetsExt, TLC

CONSTANTS
    NbDates,        \* the most dates in a page
    InvalidDefault, \* INVALID_INT, NaN
    NoFieldClimate  \* a behaviour about something else

\* The lookups of ingest: the variable and the aggregation of each member; an array
\* is its first element.
Lookups ==
    [pressure |-> <<"pressure", "avg">>, humidity |-> <<"humidity", "avg">>,
     temperature |-> <<"temperature", "avg">>, minTemperature |-> <<"temperature", "min">>,
     maxTemperature |-> <<"temperature", "max">>, windDir |-> <<"wind direction", "avg">>,
     windSpeed |-> <<"wind speed", "avg">>, windGustSpeed |-> <<"wind gust speed", "max">>,
     rainRate |-> <<"rain rate", "max">>, rainFall |-> <<"rainfall", "sum">>,
     solarRad |-> <<"solar radiation", "avg">>, uvIndex |-> <<"uv index", "avg">>,
     extraTemperature |-> <<"extra temperature 1", "avg">>,
     extraHumidity |-> <<"extra humidity 1", "avg">>,
     leafTemperature |-> <<"leaf temperature 1", "avg">>, leafWetness |-> <<"leaf wetness 1", "avg">>,
     soilMoisture |-> <<"soil moisture 1", "avg">>, soilTemperature |-> <<"soil temperature 1", "avg">>,
     leafWetnessTimeRatio |-> <<"leaf wetness time ratio 1", "time">>]
Members == DOMAIN Lookups
SensorVariables == {Lookups[m][1] : m \in Members}
\* The members of type int: windDir, solarRad and so on.
IntegerMembers == {"windDir", "solarRad", "leafWetness", "soilMoisture", "leafWetnessTimeRatio"}

VARIABLES
    dates,          \* the dates of the page
    sensors,        \* the variables for which the station has a sensor, _sensors
    data,           \* the <<variable, aggregation, index>> that have a value
    decimals,       \* whether the values have a decimal part
    collected       \* the observations of the collection, NoFieldClimate before
fcVars == <<dates, sensors, data, decimals, collected>>

-----------------------------------------------------------------------------
\* getValueForSensor: what is missing, or is no number of the type of the member,
\* leaves it at its default.
Output(m, index) == <<Lookups[m][1], Lookups[m][2], index>>
ValueOf(m, source) ==
    IF source[1] \notin sensors \/ source \notin data \/ (m \in IntegerMembers /\ decimals)
    THEN InvalidDefault ELSE source
ValueForSensor(m, index) == ValueOf(m, Output(m, index))
IngestDate(index) == [m \in Members |-> ValueForSensor(m, index)]

\* The columns of an observation, and the members they are computed from.
MessageColumns ==
    [barometer |-> {"pressure"}, outsidehum |-> {"humidity"}, outsidetemp |-> {"temperature"},
     min_outside_temperature |-> {"minTemperature"}, max_outside_temperature |-> {"maxTemperature"},
     dewpoint |-> {"temperature", "humidity"}, heatindex |-> {"temperature", "humidity"},
     windchill |-> {"temperature", "windSpeed"}, winddir |-> {"windDir"},
     windgust |-> {"windGustSpeed"}, windspeed |-> {"windSpeed"},
     rainrate |-> {"rainRate"}, rainfall |-> {"rainFall"},
     solarrad |-> {"solarRad"}, insolation_time |-> {"solarRad"}, uv |-> {"uvIndex"},
     et |-> {"temperature", "windSpeed", "humidity", "solarRad"},
     extratemp |-> {"extraTemperature"}, extrahum |-> {"extraHumidity"},
     leaftemp |-> {"leafTemperature"}, leafwetnesses |-> {"leafWetness"},
     soilmoistures |-> {"soilMoisture"}, soiltemp |-> {"soilTemperature"},
     leafwetness_timeratio1 |-> {"leafWetnessTimeRatio"},
     thswindex |-> {"temperature", "windSpeed", "humidity"}]
MessageColumn(obs, members) ==
    IF \E m \in members : obs[m] = InvalidDefault THEN InvalidDefault ELSE [m \in members |-> obs[m]]
\* The radiation counts in the thsw index when there is one.
ThswSources(obs) ==
    MessageColumns.thswindex \cup (IF obs["solarRad"] = InvalidDefault THEN {} ELSE {"solarRad"})
FieldClimateObservation(index) ==
    LET obs == IngestDate(index)
    IN  [c \in DOMAIN MessageColumns |->
            MessageColumn(obs, IF c = "thswindex" THEN ThswSources(obs) ELSE MessageColumns[c])]

\* FieldClimateApiArchiveMessageCollection::parse, and what the downloader makes of
\* its messages.
ParseCollection ==
    /\ collected = NoFieldClimate /\ dates # NoFieldClimate
    /\ collected' = [i \in DOMAIN dates |-> [time |-> dates[i], columns |-> FieldClimateObservation(i)]]
    /\ UNCHANGED <<dates, sensors, data, decimals>>

\* The values a page of so many dates may have.
AllValues(n) == {Output(m, i) : m \in Members, i \in 1..n}
\* No value, nor anything computed from some of them, is the default.
ASSUME FieldClimateAssumption ==
    /\ NbDates \in Nat
    /\ InvalidDefault \notin AllValues(NbDates)
    /\ \A c \in DOMAIN MessageColumns, radiation \in SUBSET {"solarRad"} :
         InvalidDefault \notin [MessageColumns[c] \cup radiation -> AllValues(NbDates)]

FcInit ==
    /\ \E n \in 0..NbDates :
         /\ dates = [i \in 1..n |-> i]
         /\ \E missing \in {{}} \cup {{v} : v \in AllValues(n)} : data = AllValues(n) \ missing
    /\ \E unknown \in SUBSET SensorVariables :
         Cardinality(unknown) <= 1 /\ sensors = SensorVariables \ unknown
    /\ decimals \in BOOLEAN
    /\ collected = NoFieldClimate
FcIdle ==
    /\ dates = NoFieldClimate /\ sensors = {} /\ data = {} /\ decimals = FALSE
    /\ collected = NoFieldClimate
FcNext == ParseCollection

-----------------------------------------------------------------------------
(* Properties                                                               *)

\* What the API says of a column: the values of its variables, at one date.
Known(m, i) == Lookups[m][1] \in sensors /\ Output(m, i) \in data

\* Each date of the page has one observation, at its time, whose columns are made of
\* the values of that date and of no other, from the sensors registered for the
\* station; a value that is missing costs the columns that need it and those only,
\* but an integer member also loses the values that have a decimal part.
FieldClimateFollowsSensors ==
    collected # NoFieldClimate =>
        /\ DOMAIN collected = DOMAIN dates
        /\ \A i \in DOMAIN dates :
             /\ collected[i].time = dates[i]
             /\ \A c \in DOMAIN MessageColumns :
                  LET column == collected[i].columns[c]
                      needed == MessageColumns[c]
                      lost == decimals /\ needed \cap IntegerMembers # {}
                  IN  /\ column = InvalidDefault <=> lost \/ \E m \in needed : ~Known(m, i)
                      /\ column # InvalidDefault =>
                            /\ needed \subseteq DOMAIN column
                            /\ \A m \in DOMAIN column : Known(m, i) /\ column[m] = Output(m, i)
=============================================================================
