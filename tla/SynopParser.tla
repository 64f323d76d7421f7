----------------------------- MODULE SynopParser -----------------------------
(***************************************************************************)
(* The SYNOP messages of OGIMET: Parser reads a line group by group, and   *)
(* OgimetSynop makes of it the observation SynopDownloadScheduler stores.  *)
(*                                                                         *)
(* A character is a digit, or Slash, which the code also orders before the *)
(* digits and takes for '0' - 1; a group is a sequence of them.  The       *)
(* message that is read is written from a report, so that what is read can *)
(* be compared with what the station has reported.                         *)
(***************************************************************************)
EXTENDS Integers, Sequences, SequencesExt, FiniteSetsExt, TLC

CONSTANTS
    None,           \* an optional without a value
    Items,          \* the optional groups of the reports, in the order of a message
    Winds,          \* the winds of the reports
    NoReport        \* a behaviour about something else

VARIABLES
    report,         \* what the station reports: see Reports
    groups,         \* _groups, without the station's identifier and the date
    it,             \* the iterator of parse
    section,        \* the section that is parsed
    indicative,     \* the first digit of the last optional group
    decoded,        \* _message: a function from the fields that have a value
    outcome,        \* "parsing", "refused", "decoded", "stored" or "overrun"
    stored          \* the observation, in tenths, and wind in millionths of km/h
synopVars == <<report, groups, it, section, indicative, decoded, outcome, stored>>

Slash == -1
CharacterOf(digit) == digit + 48        \* '0' + digit

-----------------------------------------------------------------------------
(* The fields of SynopMessage                                               *)

FieldsOfSection1 ==
    {"withAnemometer", "windSpeedUnit", "manned", "phenomena", "hBaseLowestCloud",
     "horizVisibility", "cloudCover", "meanWindDirection", "meanWindSpeed", "meanTemperature",
     "dewPoint", "relativeHumidity", "pressureAtStation", "pressureAtSeaLevel",
     "isobaricSurfacePotential", "pressureTendency", "precipitation",
     "lowOrMediumCloudCover", "lowClouds", "mediumClouds", "highClouds"}
FieldsOfSection3 ==
    {"maxTemperature", "minTemperature", "groundStateWithoutSnowOrIce", "minSoilTemperature",
     "groundStateWithSnowOrIce", "snowDepth", "gustObservations", "evapoMaybeTranspiRation",
     "minutesOfSunshineLastDay", "minutesOfSunshineLastHour", "netRadiationLastHour",
     "globalSolarRadiationLastHour", "diffusedSolarRadiationLastHour",
     "downwardLongWaveRadiationLastHour", "upwardLongWaveRadiationLastHour",
     "shortWaveRadiationLastHour", "directSolarRadiationLastHour", "netRadiationLast24Hours",
     "globalSolarRadiationLast24Hours", "diffusedSolarRadiationLast24Hours",
     "downwardLongWaveRadiationLast24Hours", "upwardLongWaveRadiationLast24Hours",
     "shortWaveRadiationLast24Hours", "directSolarRadiationLast24Hours",
     "lowCloudsDrift", "mediumCloudsDrift", "highCloudsDrift", "clouds", "heightOfBaseOfClouds"}
Lists == {"precipitation", "gustObservations", "clouds", "heightOfBaseOfClouds"}

\* The value of a field: the lists are empty at first.
Read(message, f) ==
    IF f \in DOMAIN message THEN message[f] ELSE IF f \in Lists THEN <<>> ELSE None

-----------------------------------------------------------------------------
(* Reading a group                                                          *)

\* parseInt and parseSInt, from the character first to the character last, or
\* to the end of the group.
ParseInt(s, first, last) ==
    LET digits == SubSeq(s, first, Min({last, Len(s)}))
    IN  IF Slash \in Range(digits) THEN None
        ELSE FoldLeft(LAMBDA n, digit : 10 * n + digit, 0, digits)
ParseSInt(s, first, last) ==
    IF s[first] = Slash \/ ParseInt(s, first + 1, last) = None THEN None
    ELSE IF s[first] = 1 THEN -ParseInt(s, first + 1, last) ELSE ParseInt(s, first + 1, last)

\* parseRain: the amount in tenths of mm, and the duration in hours.
Duration == <<6, 12, 18, 24, 1, 2, 3, 9, 15>>
ParseRain(s) ==
    LET rrr == ParseInt(s, 2, 4)
    IN  [amount |-> IF rrr >= 990 THEN rrr - 990 ELSE 10 * rrr, trace |-> rrr = 990,
         duration |-> IF s[5] \in DOMAIN Duration THEN Duration[s[5]] ELSE 0]

\* The height of the lowest cloud, in metres, the bounds of each class.
BaseOfLowestCloud == <<0, 50, 100, 200, 300, 600, 1000, 1500, 2000, 2500>>
\* The visibility, in metres, of each code.
Visibility(vv) ==
    CASE vv = 0 -> 100 [] vv \in 1..50 -> 100 * vv [] vv \in 51..80 -> 1000 * (vv - 50)
      [] vv \in 81..87 -> 30000 + 5000 * (vv - 50) [] vv \in {88, 89} -> 70000
      [] vv \in 90..99 -> <<0, 50, 200, 500, 1000, 2000, 4000, 10000, 20000, 50000>>[vv - 89]
      [] OTHER -> None
\* The height of the base of clouds, in metres: where each class ends.
HeightOfBase(hshs) ==
    CASE hshs <= 50 -> 30 * hshs [] hshs \in 51..80 -> 300 * (hshs - 50)
      [] hshs \in 81..88 -> 500 * (hshs - 60) [] hshs = 89 -> 21000
      [] hshs \in 90..99 -> BaseOfLowestCloud[hshs - 89]

Added(message, f, value) == f :> Append(Read(message, f), value)
Given(f, value) == IF value = None THEN <<>> ELSE f :> value
RainIfAny(message, s) ==
    IF ParseInt(s, 2, 4) = None THEN <<>> ELSE Added(message, "precipitation", ParseRain(s))

-----------------------------------------------------------------------------
(* Sections 0 and 1                                                         *)

End == it > Len(groups)
Group == groups[it]
StartsWith222(s) == Len(s) >= 3 /\ SubSeq(s, 1, 3) = <<2, 2, 2>>
\* The optional groups go on until the end or the next section.
AtNextSection == IF End THEN TRUE ELSE StartsWith222(Group) \/ Len(Group) = 3

Refuse == outcome' = "refused" /\ UNCHANGED <<report, groups, it, section, indicative, decoded, stored>>
GoTo(s) == section' = s /\ indicative' = 0
Parsing(s) == outcome = "parsing" /\ section = s

\* parseSection0: the indicator of the wind, then the station's identifier.
ParseSection0 ==
    /\ Parsing(0)
    /\ IF report.type # "AAXX" \/ Len(groups) < 2 THEN Refuse
       ELSE /\ decoded' = (IF Group[5] \in {0, 1, 3, 4}
                           THEN [withAnemometer |-> Group[5] \in {1, 4},
                                 windSpeedUnit |-> IF Group[5] \in {3, 4} THEN "knots" ELSE "mps"]
                           ELSE <<>>)
            /\ it' = 3
            /\ GoTo(1)
            /\ UNCHANGED <<report, groups, outcome, stored>>

\* parseSection1: the two mandatory groups.  _manned compares a character with
\* the number 4, and the visibility is computed from the characters.
FirstGroup(s) ==
    LET vv == 10 * CharacterOf(s[4]) + CharacterOf(s[5])
        ix == s[2]
    IN  [manned |-> CharacterOf(ix) < 4]
        @@ Given("phenomena", CASE ix \in {1, 4} -> "advanced" [] ix \in {2, 5} -> "none"
                                [] ix \in {3, 6} -> "not observed" [] ix = 7 -> "basic"
                                [] OTHER -> None)
        @@ Given("hBaseLowestCloud", IF s[3] = Slash THEN None ELSE BaseOfLowestCloud[s[3] + 1])
        @@ (IF Slash \in {s[4], s[5]} THEN <<>> ELSE Given("horizVisibility", Visibility(vv)))
SecondGroup(s) ==
    LET dd == ParseInt(s, 2, 3)
    IN  "cloudCover" :> s[1] @@ (IF dd = None THEN <<>> ELSE "meanWindDirection" :> 10 * dd)
\* A wind of 99 units or more is in a group of its own, 00fff.
ParseMandatoryGroups ==
    /\ Parsing(1) /\ indicative = 0 /\ "cloudCover" \notin DOMAIN decoded
    /\ IF End THEN outcome' = "overrun" /\ UNCHANGED <<it, decoded>>
       ELSE IF Len(Group) # 5 \/ it + 1 > Len(groups)
       THEN outcome' = "refused" /\ UNCHANGED <<it, decoded>>
       ELSE LET second == groups[it + 1]
                ff == ParseInt(second, 4, 5)
                heads == SecondGroup(second) @@ FirstGroup(Group) @@ decoded
            IN  IF ff # 99
                THEN /\ it' = it + 2 /\ decoded' = Given("meanWindSpeed", ff) @@ heads
                     /\ UNCHANGED outcome
                ELSE IF it + 2 > Len(groups) \/ SubSeq(groups[it + 2], 1, 2) # <<0, 0>>
                THEN outcome' = "refused" /\ UNCHANGED <<it, decoded>>
                ELSE /\ it' = it + 3
                     /\ decoded' = Given("meanWindSpeed", ParseInt(groups[it + 2], 3, 5)) @@ heads
                     /\ UNCHANGED outcome
    /\ UNCHANGED <<report, groups, section, indicative, stored>>

\* An optional group of section 1 that has all its digits.
\* (A fault used as a mutant: the thousands are missing.)
PressureAsSent(n) == n
Pressure(n) == IF n < 5000 THEN n + 10000 ELSE n
ReadGroup1(s) ==
    CASE s[1] = 1 -> "meanTemperature" :> ParseSInt(s, 2, 5)
      [] s[1] = 2 /\ s[2] = 9 -> "relativeHumidity" :> ParseInt(s, 3, 5)
      [] s[1] = 2 /\ s[2] # 9 -> "dewPoint" :> ParseSInt(s, 2, 5)
      [] s[1] = 3 -> "pressureAtStation" :> Pressure(ParseInt(s, 2, 5))
      [] s[1] = 4 /\ s[2] \in {0, 9} -> "pressureAtSeaLevel" :> Pressure(ParseInt(s, 2, 5))
      [] s[1] = 4 /\ s[2] \notin {0, 9} ->
            "isobaricSurfacePotential" :> <<s[2], ParseInt(s, 3, 5)>>
      [] s[1] = 5 -> "pressureTendency" :> <<s[2], ParseInt(s, 3, 5)>>
      [] s[1] = 6 -> RainIfAny(decoded, s)
      [] s[1] = 8 -> [lowOrMediumCloudCover |-> s[2], lowClouds |-> s[3],
                      mediumClouds |-> s[4], highClouds |-> s[5]]
      [] OTHER -> <<>>
ParseGroup1 ==
    /\ Parsing(1) /\ "cloudCover" \in DOMAIN decoded /\ ~AtNextSection
    /\ IF Group[1] < indicative THEN Refuse
       ELSE /\ decoded' = (IF \E i \in 2..5 : Group[i] = Slash THEN decoded
                           ELSE ReadGroup1(Group) @@ decoded)
            /\ indicative' = Group[1]
            /\ it' = it + 1
            /\ UNCHANGED <<report, groups, section, outcome, stored>>

\* parse: section 2 is looked for with the numbers 2 instead of the digits, so
\* that it is never found; each other section is parsed where it starts.
NextSection ==
    /\ \/ Parsing(1) /\ "cloudCover" \in DOMAIN decoded /\ AtNextSection
       \/ Parsing(3) /\ AtNextSection
    /\ IF ~End /\ Group \in {<<3, 3, 3>>, <<4, 4, 4>>, <<5, 5, 5>>} /\ Group[1] > section
       THEN it' = it + 1 /\ GoTo(Group[1]) /\ UNCHANGED outcome
       ELSE outcome' = "decoded" /\ UNCHANGED <<it, section, indicative>>
    /\ UNCHANGED <<report, groups, decoded, stored>>

-----------------------------------------------------------------------------
(* Sections 3, 4 and 5                                                      *)

\* The groups of sunshine and radiation: the one after them is read with them.
IsPair(s) == s[1] = 5 /\ s[2] = 5
Radiation(next, period, signedFrom) ==
    LET Named(name, value) == Given(name \o period, value)
    IN  CASE next[1] \in {0, 1} -> Named("netRadiation", ParseSInt(next, signedFrom, 5))
          [] next[1] = 2 -> Named("globalSolarRadiation", ParseInt(next, 2, 5))
          [] next[1] = 3 -> Named("diffusedSolarRadiation", ParseInt(next, 2, 5))
          [] next[1] = 4 -> Named("downwardLongWaveRadiation", ParseInt(next, 2, 5))
          [] next[1] = 5 -> Named("upwardLongWaveRadiation", ParseInt(next, 2, 5))
          [] next[1] = 6 -> Named("shortWaveRadiation", ParseInt(next, 2, 5))
          [] OTHER -> <<>>
Sunshine(s) ==
    IF s[3] = 3 THEN Given("minutesOfSunshineLastHour",
                           IF ParseInt(s, 4, 5) = None THEN None ELSE 6 * ParseInt(s, 4, 5))
    ELSE Given("minutesOfSunshineLastDay",
               IF ParseInt(s, 3, 5) = None THEN None ELSE 6 * ParseInt(s, 3, 5))
\* The net radiation of the last hour is read from the digit after its sign.
ReadPair(s, next) ==
    CASE s = <<5, 5, 4, 0, 7>> -> Given("shortWaveRadiationLastHour", ParseInt(next, 2, 5))
      [] s = <<5, 5, 4, 0, 8>> -> Given("directSolarRadiationLastHour", ParseInt(next, 2, 5))
      [] s = <<5, 5, 5, 0, 7>> -> Given("shortWaveRadiationLast24Hours", ParseInt(next, 2, 5))
      [] s = <<5, 5, 5, 0, 8>> -> Given("directSolarRadiationLast24Hours", ParseInt(next, 2, 5))
      [] s[3] = 3 -> Radiation(next, "LastHour", 2) @@ Sunshine(s)
      [] OTHER -> Radiation(next, "Last24Hours", 1) @@ Sunshine(s)
\* What such a group says by itself.
ReadLonePair(s) ==
    IF s \in {<<5, 5, 4, 0, 7>>, <<5, 5, 4, 0, 8>>, <<5, 5, 5, 0, 7>>, <<5, 5, 5, 0, 8>>}
    THEN <<>> ELSE Sunshine(s)

\* A gust over some time: 907tt 911ff, or 907tt 91199 00fff; in minutes.
Gust(message, duration, next, after) ==
    LET speed == IF SubSeq(next, 4, 5) # <<9, 9>> THEN ParseInt(next, 4, 5)
                 ELSE IF SubSeq(after, 1, 2) = <<0, 0>> THEN ParseInt(after, 3, 5) ELSE None
    IN  IF duration = None \/ duration > 60 \/ SubSeq(next, 2, 3) # <<1, 1>> \/ speed = None
        THEN <<>> ELSE Added(message, "gustObservations", <<speed, 6 * duration>>)
GustGroups(duration, next) ==
    IF duration # None /\ duration <= 60 /\ Tail(next) = <<1, 1, 9, 9>> THEN 3 ELSE 2
IsGust(s) == SubSeq(s, 1, 3) = <<9, 0, 7>>
IsDuration(s) == SubSeq(s, 1, 3) \in {<<9, 0, 2>>, <<9, 0, 4>>}

\* A group of section 3 that stands alone.  The depth of snow goes to a local
\* variable that is forgotten.
ReadGroup3(s) ==
    CASE s[1] = 1 -> Given("maxTemperature", ParseSInt(s, 2, 5))
      [] s[1] = 2 -> Given("minTemperature", ParseSInt(s, 2, 5))
      [] s[1] = 3 -> Given("minSoilTemperature", ParseSInt(s, 3, 5))
                     @@ "groundStateWithoutSnowOrIce" :> s[2]
      [] s[1] = 4 -> "groundStateWithSnowOrIce" :> s[2]
      [] s[1] = 5 /\ s[2] = 6 -> [lowCloudsDrift |-> s[3], mediumCloudsDrift |-> s[4],
                                  highCloudsDrift |-> s[5]]
      [] s[1] = 5 /\ s[2] = 7 -> Added(decoded, "clouds", <<s[3], s[4], s[5]>>)
      [] s[1] = 5 /\ s[2] \in 0..3 ->
            Given("evapoMaybeTranspiRation", ParseInt(s, 2, 4))
      [] s[1] = 6 -> RainIfAny(decoded, s)
      [] s[1] = 7 -> LET rrrr == ParseInt(s, 2, 5)
                     IN  IF rrrr = None THEN <<>>
                         ELSE Added(decoded, "precipitation",
                                    [amount |-> IF rrrr <= 9998 THEN rrrr ELSE 0,
                                     trace |-> rrrr > 9998, duration |-> 24])
      [] s[1] = 8 -> LET hshs == ParseInt(s, 4, 5)
                     IN  IF hshs = None THEN <<>>
                         ELSE Added(decoded, "heightOfBaseOfClouds",
                                    <<s[3], HeightOfBase(hshs), s[2]>>)
      [] s[1] = 9 /\ SubSeq(s, 2, 3) = <<1, 0>> ->
            LET ff == ParseInt(s, 4, 5)
            IN  IF ff = None THEN <<>> ELSE Added(decoded, "gustObservations", <<ff, 10>>)
      [] OTHER -> <<>>

\* The step from one group to the one after the groups it takes; the end is
\* reached without reading them when they are missing.
Advance(count, reading) ==
    /\ IF it + count - 1 > Len(groups) THEN it' = Len(groups) + 1 /\ UNCHANGED decoded
       ELSE it' = it + count /\ decoded' = reading @@ decoded
    /\ UNCHANGED <<report, groups, section, stored>>

ParseGroup3 ==
    /\ Parsing(3) /\ ~AtNextSection
    /\ IF Group[1] < indicative THEN Refuse
       ELSE IF IsPair(Group)
       THEN /\ IF it = Len(groups)
               THEN it' = it + 1 /\ decoded' = ReadLonePair(Group) @@ decoded
               ELSE it' = it + 2 /\ decoded' = ReadPair(Group, groups[it + 1]) @@ decoded
            /\ indicative' = 5
            /\ UNCHANGED <<report, groups, section, outcome, stored>>
       ELSE IF IsGust(Group)
       THEN /\ IF it = Len(groups) THEN it' = it + 1 /\ UNCHANGED decoded
               ELSE LET n == GustGroups(ParseInt(Group, 4, 5), groups[it + 1])
                    IN  IF it + n - 1 > Len(groups) THEN it' = it + n - 1 /\ UNCHANGED decoded
                        ELSE /\ it' = it + n
                             /\ decoded' = Gust(decoded, ParseInt(Group, 4, 5), groups[it + 1],
                                                groups[it + n - 1]) @@ decoded
            /\ indicative' = 9
            /\ UNCHANGED <<report, groups, section, outcome, stored>>
       \* The group after a duration is skipped, whether there is one or not.
       ELSE IF IsDuration(Group)
       THEN /\ it' = it + 2 /\ indicative' = 9
            /\ outcome' = IF it = Len(groups) THEN "overrun" ELSE "parsing"
            /\ UNCHANGED <<report, groups, section, decoded, stored>>
       ELSE /\ it' = it + 1 /\ indicative' = Group[1]
            /\ decoded' = ReadGroup3(Group) @@ decoded
            /\ UNCHANGED <<report, groups, section, outcome, stored>>

\* parseSection4: skipped (the end is found after reading what is past it).
ParseSection4 ==
    /\ Parsing(4)
    /\ IF End THEN outcome' = "decoded" /\ UNCHANGED <<it, section, indicative>>
       ELSE IF Len(Group) # 3 THEN it' = it + 1 /\ UNCHANGED <<outcome, section, indicative>>
       ELSE IF Group = <<5, 5, 5>> THEN it' = it + 1 /\ GoTo(5) /\ UNCHANGED outcome
       ELSE outcome' = "decoded" /\ UNCHANGED <<it, section, indicative>>
    /\ UNCHANGED <<report, groups, decoded, stored>>

\* parseSection5: the rain and the gusts only.
ParseGroup5 ==
    /\ Parsing(5)
    /\ IF End THEN outcome' = "decoded" /\ UNCHANGED <<report, groups, it, section, decoded, stored>>
       ELSE /\ CASE IsGust(Group) /\ it = Len(groups) -> Advance(1, <<>>)
                 [] IsGust(Group) /\ it < Len(groups) ->
                      LET n == GustGroups(ParseInt(Group, 4, 5), groups[it + 1])
                      IN  Advance(n, IF it + n - 1 > Len(groups) THEN <<>>
                                     ELSE Gust(decoded, ParseInt(Group, 4, 5), groups[it + 1],
                                               groups[it + n - 1]))
                 [] IsDuration(Group) -> Advance(2, <<>>)
                 [] Group[1] = 6 -> Advance(1, RainIfAny(decoded, Group))
                 [] OTHER -> Advance(1, <<>>)
            /\ UNCHANGED outcome
    /\ UNCHANGED indicative

-----------------------------------------------------------------------------
(* OgimetSynop and SynopDownloadScheduler::downloadGroup                    *)

\* The first amount of rain, or gust, over some duration.
First(list) == IF list = <<>> THEN None ELSE list[1]
RainOver(message, hours) ==
    LET rain == First(SelectSeq(Read(message, "precipitation"), LAMBDA p : p.duration = hours))
    IN  IF rain = None THEN None ELSE rain.amount

\* getObservations: tenths of the unit, and millionths of km/h for the wind.
\* The evaporation, in tenths of mm in the message, is taken for millimetres.
Observation(message) ==
    LET knots == Read(message, "windSpeedUnit") = "knots"
        wind == Read(message, "meanWindSpeed")
        gust == First(SelectSeq(Read(message, "gustObservations"), LAMBDA g : g[2] = 60))
        et == Read(message, "evapoMaybeTranspiRation")
        humidity ==
            IF Read(message, "relativeHumidity") # None THEN message.relativeHumidity
            ELSE IF None \in {Read(message, "dewPoint"), Read(message, "meanTemperature")}
            THEN None ELSE "computed"
    IN  [outsidetemp |-> Read(message, "meanTemperature"),
         outsidehum |-> humidity,
         dewpoint |-> IF Read(message, "dewPoint") # None THEN message.dewPoint
                      ELSE IF None \in {Read(message, "meanTemperature"), humidity} THEN None
                      ELSE "computed",
         barometer |-> Read(message, "pressureAtSeaLevel"),
         winddir |-> Read(message, "meanWindDirection"),
         windspeed |-> IF wind = None THEN None ELSE wind * (IF knots THEN 1851984 ELSE 3600000),
         windgust |-> IF gust = None THEN None ELSE gust[1] * (IF knots THEN 1852000 ELSE 3600000),
         rainfall |-> RainOver(message, 1),
         solarrad |-> Read(message, "globalSolarRadiationLastHour"),
         insolation_time |-> Read(message, "minutesOfSunshineLastHour"),
         et |-> IF et = None THEN None ELSE 10 * et]
\* insertV2EntireDayValues, insertV2Tn and insertV2Tx.
DayValues(message) ==
    [rainfall24 |-> RainOver(message, 24),
     insolationTime24 |-> Read(message, "minutesOfSunshineLastDay"),
     tn |-> Read(message, "minTemperature"), tx |-> Read(message, "maxTemperature")]

StoreLine ==
    /\ outcome = "decoded"
    /\ outcome' = "stored"
    /\ stored' = IF report.known THEN DayValues(decoded) @@ Observation(decoded) ELSE stored
    /\ UNCHANGED <<report, groups, it, section, indicative, decoded>>
\* A line comes from a download, or from a file given to the standalone program.
DownloadGroup == StoreLine
SynopStandalone == StoreLine

-----------------------------------------------------------------------------
(* The reports                                                              *)

\* The two mandatory groups, all of them the same but for the wind.
Mandatory(wind) == <<<<0, 1, 4, 6, 0>>>> \o wind.groups
\* An item is [section, groups, means]: the groups it is written with and what
\* they mean, a function from fields.  A report has up to two items, which do
\* not say the same thing; cut is whether the last group is lost on the way.
Compatible(items) ==
    \A i, j \in items : i = j \/ (DOMAIN Items[i].means \cap DOMAIN Items[j].means) \subseteq Lists
Reports ==
    {r \in [type : {"AAXX"}, known : {TRUE}, iw : {1}, wind : Winds, cut : BOOLEAN,
            items : {{i, j} : i, j \in DOMAIN Items}] : Compatible(r.items)}
    \cup [type : {"AAXX", "BBXX"}, known : BOOLEAN, iw : {0, 1, 3, 4}, wind : Winds,
          items : {{i} : i \in DOMAIN Items}, cut : {FALSE}]

ItemsOf(r, s) == SetToSortSeq({i \in r.items : Items[i].section = s}, <)
GroupsOf(r, s) == FlattenSeq([k \in DOMAIN ItemsOf(r, s) |-> Items[ItemsOf(r, s)[k]].groups])
SectionOf(r, s) ==
    IF ItemsOf(r, s) = <<>> THEN <<>>
    ELSE (IF s = 2 THEN <<>> ELSE <<<<s, s, s>>>>) \o GroupsOf(r, s)
Written(r) ==
    <<<<0, 5, 1, 2, r.iw>>, <<0, 7, 1, 4, 9>>>> \o Mandatory(r.wind) \o GroupsOf(r, 1)
    \o SectionOf(r, 2) \o SectionOf(r, 3) \o SectionOf(r, 4) \o SectionOf(r, 5)
\* All of the message, or all but its last group.
Received(r) == IF r.cut THEN SubSeq(Written(r), 1, Len(Written(r)) - 1) ELSE Written(r)

SynopInit ==
    /\ report \in Reports
    /\ groups = Received(report)
    /\ it = 1 /\ section = 0 /\ indicative = 0
    /\ decoded = <<>> /\ outcome = "parsing" /\ stored = <<>>
SynopIdle ==
    /\ report = NoReport /\ groups = <<>> /\ it = 1 /\ section = 0 /\ indicative = 0
    /\ decoded = <<>> /\ outcome = "stored" /\ stored = <<>>
SynopNext ==
    \/ ParseSection0 \/ ParseMandatoryGroups \/ ParseGroup1 \/ NextSection
    \/ ParseGroup3 \/ ParseSection4 \/ ParseGroup5
    \/ DownloadGroup \/ SynopStandalone

-----------------------------------------------------------------------------
(* Properties                                                               *)

SynopFields == FieldsOfSection1 \cup FieldsOfSection3
\* What the report says of a field, its items in the order of the message.
Said(r, f) ==
    LET saying == {i \in r.items : f \in DOMAIN Items[i].means}
    IN  IF f \in Lists
        THEN [k \in 1..Cardinality(saying) |-> Items[SetToSortSeq(saying, <)[k]].means[f]]
        ELSE IF saying # {} THEN Items[Min(saying)].means[f]
        ELSE Read(r.wind.means, f)
InMandatory == {"withAnemometer", "windSpeedUnit", "phenomena", "hBaseLowestCloud", "cloudCover"}

\* The fields that are not read as their comments say, see the README.
MisreadFields == {"manned", "horizVisibility", "snowDepth", "netRadiationLastHour"}
\* The messages that are not read to their end as reported: those with a section
\* 2, which hides the next ones; those with several radiations after the
\* duration of sunshine, which are refused; and those where no radiation follows
\* it, for which the next group is taken.
HasSection2(r) == \E i \in r.items : Items[i].section = 2
HasRadiations(r) == \E i \in r.items : Len(Items[i].groups) > 2 /\ IsPair(Items[i].groups[1])
HasLoneSunshine(r) == \E i \in r.items : Len(Items[i].groups) = 1 /\ IsPair(Items[i].groups[1])
ReadToTheEnd(r) ==
    /\ ~r.cut /\ ~HasSection2(r) /\ ~HasRadiations(r)
    /\ HasLoneSunshine(r) => Cardinality(r.items) = 1

\* Every field of a SYNOP message is read as the station has reported it, but for
\* the exceptions above; of a message that is cut nothing is read that is not in
\* it; and only what is not a SYNOP message of a station on land, or has several
\* radiations, is refused.
SynopReadAsReported ==
    report # NoReport =>
        /\ outcome \in {"decoded", "stored"} =>
            \A f \in SynopFields \ (MisreadFields \cup InMandatory) :
                \/ Read(decoded, f) = Said(report, f)
                \/ ~ReadToTheEnd(report) /\ (Read(decoded, f) = None \/ f \in Lists)
                \/ HasLoneSunshine(report)
        /\ outcome = "refused" => report.type # "AAXX" \/ HasRadiations(report) \/ report.cut
                                  \/ HasLoneSunshine(report)
        /\ outcome = "overrun" => report.cut

\* What is stored is what the station has reported, in the units of the database:
\* the wind and the gust of one hour in the unit the header gives, the rain of one
\* hour and that of one day from whatever section they are in.
SynopStoredAsReported ==
    report # NoReport /\ outcome = "stored" /\ report.known /\ ReadToTheEnd(report)
        /\ ~HasLoneSunshine(report) =>
        LET unit == IF report.iw \in {3, 4} THEN 1852 ELSE 3600
            RainOf(hours) == {p.amount : p \in {q \in Range(Said(report, "precipitation")) : q.duration = hours}}
            Gusts == {g[1] * unit : g \in {h \in Range(Said(report, "gustObservations")) : h[2] = 60}}
            Among(value, set) == IF set = {} THEN value = None ELSE value \in set
        IN  /\ stored.outsidetemp = Said(report, "meanTemperature")
            /\ stored.barometer = Said(report, "pressureAtSeaLevel")
            /\ stored.tn = Said(report, "minTemperature")
            /\ stored.tx = Said(report, "maxTemperature")
            /\ Among(stored.rainfall, RainOf(1)) /\ Among(stored.rainfall24, RainOf(24))
            /\ IF Gusts = {} THEN stored.windgust = None ELSE stored.windgust \div 1000 \in Gusts
            /\ IF Said(report, "meanWindSpeed") = None THEN stored.windspeed = None
               ELSE stored.windspeed \div 1000
                    \in (Said(report, "meanWindSpeed") * unit - 5)..(Said(report, "meanWindSpeed") * unit)

\* The report of a station reaches the database as the station has sent it, from any
\* sections and in any groups, but for the exceptions above.
SynopFollowsReport == SynopReadAsReported /\ SynopStoredAsReported
=============================================================================
