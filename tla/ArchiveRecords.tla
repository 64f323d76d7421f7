---------------------------- MODULE ArchiveRecords ----------------------------
(***************************************************************************)
(* The records a VantagePro2 console keeps between two downloads: their    *)
(* fields are words in the units of the console, with a dash value for     *)
(* what is not measured, and their time is that of its clock.  The clock   *)
(* is the local time of the zone the owner has configured, by an index, an *)
(* index with daylight saving time by hand, or an offset to UTC, and the   *)
(* server sets it.  VantagePro2Archive has the downloads themselves.       *)
(*                                                                         *)
(* Times are in half hours; temperatures in tenths of a degree Fahrenheit. *)
(***************************************************************************)
EXTENDS Integers, Sequences, FiniteSetsExt

CONSTANTS
    Settings,       \* the portions of EEPROM the consoles may have: TimezoneBuffer
    ConsoleMeasures,      \* what the consoles may measure, see RecordsAssumption
    Spring, Autumn, \* when the daylight saving time begins and ends
    LastTime,       \* bound: time
    MaxRecords,     \* bound: records in the memory
    Dash,           \* not measured
    Absent,         \* a column of the observation without a value
    NoConsole       \* a behaviour about something else

\* The fields of ArchiveDataPoint, one for each array.
Temperatures == {"outsideTemp", "minOutsideTemp", "maxOutsideTemp", "insideTemp"}
ByteTemperatures == {"extraTemp", "leafTemp", "soilTemp"}
Bytes255 == {"outsideHum", "insideHum", "avgWindSpeed", "maxWindSpeed", "prevailingWindDir",
             "uv", "forecast", "extraHum", "soilMoisture"} \cup ByteTemperatures
ArchiveDataPoint ==
    Temperatures \cup Bytes255
    \cup {"barometer", "solarRad", "maxRainRate", "leafWetness", "rainfall", "et"}

\* What each field can hold besides its dash value; the rainfall and the et, which are
\* counted, have none.
CanMeasure(q, v) ==
    /\ v \in Int
    /\ v >= -32767 /\ v <= 65535
    /\ q \in ByteTemperatures => v >= -90 /\ v <= 164
    /\ q \in Bytes255 \ ByteTemperatures => v >= 0 /\ v <= 254
    /\ q \in Temperatures => v <= 32766
    /\ q = "leafWetness" => v >= 0 /\ v <= 15
    /\ q = "barometer" => v >= 1
    /\ q = "rainfall" => v >= 0
    /\ q = "et" => v >= 0 /\ v <= 255
    /\ q = "maxRainRate" => v >= 0 /\ v <= 65534
    /\ q = "solarRad" => v >= 0 /\ v <= 32766

\* The summer lasts more than the hour by which it differs.
ASSUME RecordsAssumption ==
    /\ \A s \in Settings : s.timeZone \in 0..46 /\ s.gmtOffset \in Int
    /\ \A m \in ConsoleMeasures :
         /\ DOMAIN m.values = ArchiveDataPoint
         /\ \A q \in ArchiveDataPoint :
              CanMeasure(q, m.values[q]) \/ (m.values[q] = Dash /\ q \notin {"rainfall", "et"})
         /\ m.recordType \in {"plain", "0xAB", "0xAC"}
    /\ Dash \notin Int
    /\ Spring \in Nat \ {0} /\ Autumn \in Nat /\ LastTime \in Nat
    /\ Spring + 2 <= Autumn /\ Autumn < LastTime

VARIABLES
    utc,            \* the time, which the clock of the server gives
    setting,        \* the configuration of the console
    measure,        \* what it measures, and whether the inside is stored
    clock,          \* the clock of the console minus UTC
    agreed,         \* whether the server has set this clock
    memory,         \* the records of the console, oldest first
    archived,       \* time -> the record stored there, and its observation
    lastRecord      \* the last archive download time
recordVars == <<utc, setting, measure, clock, agreed, memory, archived, lastRecord>>

-----------------------------------------------------------------------------
(* TimeOffseter                                                             *)

\* timeOffsets, by index of zone
TimeOffsets ==
    <<-24, -22, -20, -18, -16, -14, -12, -12, -12, -10, -10, -8, -8, -7, -6, -6,
      -4, -2, 0, 0, 2, 2, 2, 4, 4, 4, 4, 4, 6, 6, 7, 8, 9, 10, 11, 12, 14, 16, 16,
      18, 19, 19, 20, 20, 22, 24, 24>>
VantageTimezoneIndex2Offset(index) == TimeOffsets[index + 1]

\* The zones of which the clock changes by itself in full automatic mode.
AutomaticZones == {4, 5, 6, 7, 10, 11, 13, 18, 20, 21, 22, 23, 25}
ByTimezone(s) == s.gmtOrZone = 0 /\ s.manualDST = 0 /\ s.timeZone \in AutomaticZones

\* The offset in hours and minutes, of which the minutes are always added.
Hours(hhmm) == IF hhmm >= 0 THEN hhmm \div 100 ELSE -((-hhmm) \div 100)
Minutes(hhmm) == (IF hhmm >= 0 THEN hhmm ELSE -hhmm) % 100
TimeOffset(s) ==
    IF s.gmtOrZone = 0 THEN VantageTimezoneIndex2Offset(s.timeZone)
    ELSE 2 * Hours(s.gmtOffset) + Minutes(s.gmtOffset) \div 30

\* The database of time zones: an hour more in summer.
ZoneOffset(s, t) ==
    VantageTimezoneIndex2Offset(s.timeZone) + IF t >= Spring /\ t < Autumn THEN 2 ELSE 0
ConvertToLocalTime(s, t) == t + IF ByTimezone(s) THEN ZoneOffset(s, t) ELSE TimeOffset(s)

\* choose::latest: a time the clock shows twice is the second one, and a time it
\* skips is that of the change.
TimesShown(s, local) == {t \in -4..(LastTime + 4) : t + ZoneOffset(s, t) = local}
FirstTimeShown(s, local) ==
    IF ~ByTimezone(s) THEN local - TimeOffset(s)
    ELSE IF TimesShown(s, local) = {} THEN Spring ELSE Min(TimesShown(s, local))
ConvertFromLocalTime(s, local) ==
    IF ~ByTimezone(s) THEN local - TimeOffset(s)
    ELSE IF TimesShown(s, local) = {} THEN Spring ELSE Max(TimesShown(s, local))

-----------------------------------------------------------------------------
(* The words of a record                                                    *)

\* What the console writes: the temperatures of 16 bits are in two's complement,
\* those of 8 bits have 90 added, in degrees.
DashWord(q) ==
    CASE q \in Bytes255 \cup {"leafWetness"} -> 255
      [] q = "barometer" -> 0
      [] q = "maxOutsideTemp" -> 32768
      [] q = "maxRainRate" -> 65535
      [] OTHER -> 32767
Uint16(v) == v % 65536
Word(q, v) ==
    IF v = Dash THEN DashWord(q)
    ELSE IF q \in ByteTemperatures THEN v + 90 ELSE Uint16(v)

\* The extreme temperatures are declared as int16_t, the others as uint16_t.
Int16(w) == IF w < 32768 THEN w ELSE w - 65536
Field(q, w) ==
    CASE q \in {"minOutsideTemp", "maxOutsideTemp"} -> Int16(w)
      [] q \in ByteTemperatures -> w - 90
      [] OTHER -> w

\* The tests of getObservation; the rainfall and the et are always stored.
Words32767 == {"outsideTemp", "minOutsideTemp", "insideTemp", "solarRad"}
IsMeasured(q, w) ==
    /\ q \in Bytes255 => w # 255
    /\ q \in Words32767 => w # 32767
    /\ q = "leafWetness" => w >= 0 /\ w <= 15
    /\ q = "barometer" => w # 0
    /\ q = "maxOutsideTemp" => Int16(w) # -32768
    /\ q = "maxRainRate" => w # 65535

\* The columns of an observation, and the fields they are computed from.
RecordColumns ==
    [barometer |-> {"barometer"}, outsidetemp |-> {"outsideTemp"}, outsidehum |-> {"outsideHum"},
     dewpoint |-> {"outsideTemp", "outsideHum"}, heatindex |-> {"outsideTemp", "outsideHum"},
     windchill |-> {"outsideTemp", "avgWindSpeed"},
     thswindex |-> {"outsideTemp", "outsideHum", "avgWindSpeed"},
     min_outside_temperature |-> {"minOutsideTemp"}, max_outside_temperature |-> {"maxOutsideTemp"},
     extratemp |-> {"extraTemp"}, extrahum |-> {"extraHum"}, leaftemp |-> {"leafTemp"},
     leafwetnesses |-> {"leafWetness"}, soilmoistures |-> {"soilMoisture"}, soiltemp |-> {"soilTemp"},
     rainrate |-> {"maxRainRate"}, rainfall |-> {"rainfall"}, et |-> {"et"},
     solarrad |-> {"solarRad"}, insolation_time |-> {"solarRad"}, uv |-> {"uv"},
     winddir |-> {"prevailingWindDir"}, windgust |-> {"maxWindSpeed"}, windspeed |-> {"avgWindSpeed"},
     insidetemp |-> {"insideTemp"}, insidehum |-> {"insideHum"}, voltage_solar_panel |-> {"forecast"}]
\* The fields behind a column, for a type of record: those of the inside are stored
\* if the owner allows it; the type tells what a probe has put in two fields.
SourcesOf(m, c) ==
    CASE c \in {"insidetemp", "insidehum"} /\ ~m.inside -> {}
      [] c = "voltage_solar_panel" /\ m.recordType # "0xAB" -> {}
      [] c = "soiltemp" /\ m.recordType = "0xAC" -> {"insideTemp"}
      [] OTHER -> RecordColumns[c]
GetRecord(m, words) ==
    [c \in DOMAIN RecordColumns |->
        LET sources == SourcesOf(m, c)
        IN  IF sources # {} /\ \A q \in sources : IsMeasured(q, words[q])
            THEN [q \in sources |-> Field(q, words[q])] ELSE Absent]

-----------------------------------------------------------------------------
(* The console and the server                                               *)

\* Time passes.  In full automatic mode the clock of the console changes by itself.
Change(t) == IF t = Spring THEN 2 ELSE IF t = Autumn THEN -2 ELSE 0
ConsoleTick ==
    /\ utc < LastTime
    /\ utc' = utc + 1
    /\ clock' = clock + IF ByTimezone(setting) THEN Change(utc') ELSE 0
    /\ UNCHANGED <<setting, measure, agreed, memory, archived, lastRecord>>

WriteRecord ==
    /\ Len(memory) < MaxRecords
    /\ \A i \in DOMAIN memory : memory[i].at # utc
    /\ memory' = Append(memory, [at |-> utc, wall |-> utc + clock, agreed |-> agreed,
                                 words |-> [q \in ArchiveDataPoint |-> Word(q, measure.values[q])]])
    /\ UNCHANGED <<utc, setting, measure, clock, agreed, archived, lastRecord>>

\* The bytes of settimeRequest: the local time, as the server has it.
SetTime ==
    /\ clock' = ConvertToLocalTime(setting, utc) - utc
    /\ agreed' = TRUE
    /\ UNCHANGED <<utc, setting, measure, memory, archived, lastRecord>>

\* DMPAFT: the records from the first one after this local time, by their place.
AskedRecords ==
    {i \in DOMAIN memory :
        \E first \in 1..i : memory[first].wall > ConvertToLocalTime(setting, lastRecord)}

\* isRelevant and looksValid
TimeOf(r) == ConvertFromLocalTime(setting, r.wall)
IsRelevantRecord(r) == TimeOf(r) > lastRecord /\ TimeOf(r) <= utc

\* An insertion replaces the row of its time.
Stored(r) == [record |-> r, columns |-> GetRecord(measure, r.words)]
InsertRecords(inserted) ==
    LET Of(t) == {i \in inserted : TimeOf(memory[i]) = t}
        new == {TimeOf(memory[i]) : i \in inserted}
    IN  archived' = [t \in DOMAIN archived \cup new |->
                        IF t \in new THEN Stored(memory[Max(Of(t))]) ELSE archived[t]]

\* The first refusal ends the download, and leaves the last time as it was.
DownloadRecords ==
    LET relevant == {i \in AskedRecords : IsRelevantRecord(memory[i])}
    IN  /\ relevant # {}
        /\ \E last \in relevant \cup {0} :
             LET inserted == {i \in relevant : i <= last}
             IN  /\ InsertRecords(inserted)
                 /\ lastRecord' = IF inserted # relevant THEN lastRecord
                                  ELSE Max({TimeOf(memory[i]) : i \in relevant})
        /\ UNCHANGED <<utc, setting, measure, clock, agreed, memory>>

\* A console the owner has set, rightly or not by an hour; either its settings or
\* what it measures is of interest.
RecordsInit ==
    /\ setting \in Settings /\ measure \in ConsoleMeasures
    /\ setting.plain \/ measure.plain
    /\ utc \in IF measure.plain THEN 1..2 ELSE {LastTime}
    /\ \E error \in {0, 2} : clock = ConvertToLocalTime(setting, utc) - utc + error
    /\ agreed = FALSE /\ memory = <<>> /\ archived = <<>> /\ lastRecord = 0
RecordsIdle ==
    /\ utc = LastTime /\ setting = NoConsole /\ measure = NoConsole
    /\ clock = 0 /\ agreed = FALSE /\ memory = <<>> /\ archived = <<>> /\ lastRecord = 0
RecordsNext == setting # NoConsole /\ (ConsoleTick \/ WriteRecord \/ SetTime \/ DownloadRecords)

-----------------------------------------------------------------------------
(* Properties                                                               *)

\* Two of the temperatures have no sign, and the temperature of the soil that takes
\* the place of the one inside is stored as both.
Unfaithful(m, c) ==
    \/ \E q \in SourcesOf(m, c) \cap {"outsideTemp", "insideTemp"} :
          m.values[q] # Dash /\ m.values[q] < 0
    \/ c = "insidetemp" /\ m.recordType = "0xAC"
MeasuredColumn(m, c) ==
    LET sources == SourcesOf(m, c)
    IN  IF sources = {} \/ \E q \in sources : m.values[q] = Dash THEN Absent
        ELSE [q \in sources |-> m.values[q]]

\* The hour the clock shows twice, when it shows it for the first time.
ShownAgain(r) == ByTimezone(setting) /\ r.at >= Autumn - 2 /\ r.at < Autumn

\* A record the console has written since the server has set its clock is stored at
\* the time of its measures, whatever the zone of the console and the downloads and
\* failures so far; but for the first passage of the hour shown twice, which is
\* stored as the second.  It is stored with the measures it has, and no others, but
\* for those above.
RecordsFollowConsole ==
    \A t \in DOMAIN archived :
        LET r == archived[t].record
        IN  /\ r.agreed => t = r.at + (IF ShownAgain(r) THEN 2 ELSE 0)
            /\ \A c \in DOMAIN RecordColumns :
                  ~Unfaithful(measure, c) => archived[t].columns[c] = MeasuredColumn(measure, c)
=============================================================================
