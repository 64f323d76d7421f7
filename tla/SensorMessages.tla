--------------------------- MODULE SensorMessages ---------------------------
(***************************************************************************)
(* The messages of the connected sensors, from the network to the          *)
(* observation stored: LiveobjectsMessage::parseMessage picks the decoder  *)
(* of the sensor, which refuses the payload or reads it.  One message is   *)
(* received after the other: each is a background (every bit 0, every bit  *)
(* 1, or one documented field all ones) of which one bit is flipped, one   *)
(* character is not hexadecimal, or the last character is missing.  (The   *)
(* counters of the rain gauges relate a message to the ones before it: see *)
(* RainGauges.)                                                            *)
(***************************************************************************)
EXTENDS BaraniMessages, DraginoMessages, FiniteSetsExt, TLC

CONSTANTS
    Sensors,        \* the sensors whose payloads are read: a subset of AllSensors
    Environments,   \* what ingest() finds in the cache, see BaraniMessages
    NoMessage       \* a behaviour about something else

VARIABLES
    sensor,
    env,        \* what ingest() reads besides the payload
    field,      \* the documented field that is all ones, NoField or AllFields
    flip,       \* the bit that is flipped, from 0; the last three stand for none,
                \* a character that is not hexadecimal, and one that is missing
    payload     \* the digits
msgVars == <<sensor, env, field, flip, payload>>

-----------------------------------------------------------------------------
(* The decoders                                                             *)

\* instantiateMessage: the port each sensor sends its measures on, 0 for any.
InstantiateMessage ==
    [s \in {"barani-meteowind", "barani-meteowind-v2023", "barani-meteowind-v2026",
            "barani-meteorain", "barani-meteohelix", "barani-meteohelix-v2026",
            "barani-meteoag-2022"} |-> 1]
    @@ [s \in {"dragino-cpl01-pluviometer", "dragino-lsn50v2", "dragino-thpllora",
               "dragino-thwlora", "dragino-llms01", "dragino-lse01", "dragino-probe6470",
               "dragino-d2x", "dragino-sn50v3-probe6470"} |-> 2]
    @@ [s \in {"lorain-pluviometer", "thlora-thermohygrometer", "talkpool-oy1110",
               "oseren-soil-station"} |-> 0]
AllSensors == DOMAIN InstantiateMessage
\* The two sensors on NB-IoT do not go through parseMessage.
Nbiot == {"thplnbiot", "thwnbiot"}

\* The sizes in digits each ingest() gives validateInput.
Sizes(s) ==
    CASE s = "barani-meteowind" -> {20} [] s = "barani-meteowind-v2023" -> {24}
      [] s = "barani-meteowind-v2026" -> {28} [] s = "barani-meteorain" -> {12}
      [] s = "barani-meteohelix" -> {22} [] s = "barani-meteohelix-v2026" -> {32}
      [] s = "barani-meteoag-2022" -> {26}
      [] s \in {"dragino-lsn50v2", "dragino-llms01", "dragino-d2x", "dragino-sn50v3-probe6470",
                "dragino-cpl01-pluviometer", "dragino-lse01", "dragino-probe6470"} -> {22}
      [] s = "dragino-thpllora" -> {24, 32, 34} [] s = "dragino-thwlora" -> {24}
      [] s = "lorain-pluviometer" -> {94} [] s = "thlora-thermohygrometer" -> {18}
      [] s = "talkpool-oy1110" -> {6} [] s = "oseren-soil-station" -> {84}
      [] OTHER -> {28 + 28 + 28 + 64}
Valid(s, digits) ==
    CASE s = "talkpool-oy1110" -> Oy1110ValidateInput(digits)
      [] s \in Nbiot -> NbiotValidateInput(digits)
      [] OTHER -> ValidateInput(digits, Sizes(s))

\* What ingest() makes of a valid payload.
Ingest(s, digits) ==
    CASE s = "barani-meteowind" -> AnemometerIngest(digits)
      [] s = "barani-meteowind-v2023" -> Anemometer2023Ingest(digits, env)
      [] s = "barani-meteowind-v2026" -> Anemometer2026Ingest(digits, env)
      [] s = "barani-meteorain" -> RainGaugeIngest(digits)
      [] s = "barani-meteohelix" -> ThermohygroIngest(digits)
      [] s = "barani-meteohelix-v2026" -> Thermohygro2026Ingest(digits, env)
      [] s = "barani-meteoag-2022" -> MeteoAgIngest(digits)
      [] s = "dragino-cpl01-pluviometer" -> Cpl01Ingest(digits)
      [] s = "dragino-lsn50v2" -> Lsn50v2Ingest(digits)
      [] s = "dragino-thpllora" -> ThplloraIngest(digits)
      [] s = "dragino-thwlora" -> ThwloraIngest(digits, env)
      [] s = "dragino-llms01" -> Llms01Ingest(digits)
      [] s = "dragino-lse01" -> Lse01Ingest(digits)
      [] s = "dragino-probe6470" -> Lsn50v2Probe6470Ingest(digits)
      [] s = "dragino-d2x" -> Lsn50v2D2xIngest(digits)
      [] s = "dragino-sn50v3-probe6470" -> Sn50v3Probe6470Ingest(digits)
      [] s = "lorain-pluviometer" -> LorainIngest(digits)
      [] s = "thlora-thermohygrometer" -> ThloraIngest(digits)
      [] s = "talkpool-oy1110" -> Oy1110Ingest(digits)
      [] s = "oseren-soil-station" -> OserenIngest(digits)
      [] s = "thplnbiot" -> ThplnbiotIngest(digits)[1]
      [] s = "thwnbiot" -> ThwnbiotIngest(digits, env)[1]

\* getObservation, when the message looks valid: the measures that are stored.
Observe(s, o) ==
    CASE s = "barani-meteowind" -> AnemometerObservation(o)
      [] s = "barani-meteowind-v2023" -> Anemometer2023Observation(o)
      [] s = "barani-meteowind-v2026" -> Anemometer2026Observation(o)
      [] s = "barani-meteorain" -> RainGaugeObservation(o)
      [] s = "barani-meteohelix" -> IF o.type = 1 THEN ThermohygroObservation(o) ELSE <<>>
      [] s = "barani-meteohelix-v2026" -> Thermohygro2026Observation(o)
      [] s = "barani-meteoag-2022" -> IF MeteoAgValid(o) THEN MeteoAgObservation(o) ELSE <<>>
      [] s = "dragino-cpl01-pluviometer" -> [clicks |-> o.clicks]
      [] s = "dragino-lsn50v2" -> Lsn50v2Observation(o)
      [] s = "dragino-thpllora" -> ThplloraObservation(o)
      [] s = "dragino-thwlora" -> ThwloraObservation(o)
      [] s = "dragino-llms01" -> Llms01Observation(o)
      [] s = "dragino-lse01" -> Lse01Observation(o)
      [] s = "dragino-probe6470" -> IF o.valid THEN Lsn50v2Probe6470Observation(o) ELSE <<>>
      [] s = "dragino-d2x" -> Lsn50v2D2xObservation(o)
      [] s = "dragino-sn50v3-probe6470" -> IF o.valid THEN Sn50v3Probe6470Observation(o) ELSE <<>>
      [] s = "lorain-pluviometer" -> LorainObservation(o)
      [] s = "thlora-thermohygrometer" -> ThloraObservation(o)
      [] s = "talkpool-oy1110" -> Oy1110Observation(o)
      [] s = "oseren-soil-station" -> OserenObservation(o)
      [] s = "thplnbiot" -> ThplnbiotObservation(o)
      [] s = "thwnbiot" -> ThwnbiotObservation(o)

\* parseMessage: nothing is stored for an unknown sensor, another port, or a
\* payload that is refused; nor for the payloads whose packets ingest() reads for
\* ever, and nothing else is done any more then.
ParseMessage(s, port, digits) ==
    IF s \notin Nbiot /\ InstantiateMessage[s] \notin {0, port} THEN <<>>
    ELSE IF ~Valid(s, digits) THEN <<>>
    ELSE IF s = "talkpool-oy1110" /\ ~Oy1110Terminates(digits) THEN <<>>
    ELSE Observe(s, Ingest(s, digits))

-----------------------------------------------------------------------------
(* The layouts: the fields, from the first bit, with their widths, as the   *)
(* comments of each ingest() list them ("bytes 8-10: battery, resolution    *)
(* 0.2V, offset 3V").  A field named Skip is not compared.                  *)

Skip == "skip"
Layout ==
    "barani-meteowind" :>
        <<<<"index", 8>>, <<"battery", 3>>, <<"avgSpeed", 9>>, <<"gustSpeed", 9>>,
          <<"minSpeed", 9>>, <<"speedStdev", 8>>, <<"avgDirection", 9>>,
          <<"gustDirection", 9>>, <<"directionStdev", 7>>, <<"maxTime", 7>>,
          <<Skip, 1>>, <<"alarm", 1>>>>
    @@ "barani-meteowind-v2023" :>
        <<<<"index", 8>>, <<Skip, 1>>, <<"avgSpeed", 12>>, <<"gustSpeed", 9>>,
          <<"gust1sSpeed", 8>>, <<"minSpeed", 9>>, <<"speedStdev", 8>>,
          <<"avgDirection", 9>>, <<"gustDirection", 9>>, <<"directionStdev", 8>>,
          <<"maxTime", 7>>, <<"alarm", 1>>, <<"debugFlags", 7>>>>
    @@ "barani-meteowind-v2026" :>
        <<<<"index", 8>>, <<Skip, 1>>, <<"avgSpeed", 12>>, <<"gustSpeed", 9>>,
          <<"gust1sSpeed", 8>>, <<"minSpeed", 9>>, <<"speedStdev", 8>>,
          <<"avgDirection", 9>>, <<"gustDirection", 9>>, <<"directionStdev", 8>>,
          <<"ccwMin", 9>>, <<"cwMax", 9>>, <<"maxTime", 7>>, <<"alarm", 1>>,
          <<"debugFlags", 5>>>>
    @@ "barani-meteohelix" :>
        <<<<"type", 2>>, <<"battery", 5>>, <<"temperature", 11>>, <<"minTemperature", 6>>,
          <<"maxTemperature", 6>>, <<"humidity", 9>>, <<"pressure", 14>>,
          <<"radiation", 10>>, <<"maxRadiation", 9>>, <<"rainfallClicks", 8>>,
          <<"minTimeBetweenClicks", 8>>>>
    @@ "barani-meteohelix-v2026" :>
        <<<<"index", 8>>, <<Skip, 1>>, <<"temperature", 14>>, <<"minTemperature", 8>>,
          <<"maxTemperature", 8>>, <<"humidity", 9>>, <<"pressure", 15>>,
          <<"radiation", 11>>, <<"minRadiation", 10>>, <<"maxRadiation", 10>>,
          <<"rainfallClicks", 12>>, <<"minTimeBetweenClicks", 10>>,
          <<"intensityCorrection", 10>>, <<"heaterActivated", 1>>, <<"alarm", 1>>>>
    @@ "barani-meteorain" :>
        <<<<"index", 8>>, <<"battery", 5>>, <<"rainfallClicks", 12>>,
          <<"minTimeBetweenClicks", 8>>, <<"tempOver2C", 1>>, <<"heater", 1>>,
          <<"correction", 12>>, <<Skip, 1>>>>
    @@ "barani-meteoag-2022" :>
        <<<<"index", 8>>, <<"battery", 3>>, <<"selectorE", 3>>, <<"selectorF", 3>>,
          <<"selectorG", 3>>, <<"sensorE1", 12>>, <<"sensorE2", 12>>, <<"sensorE3", 12>>,
          <<"sensorF1", 12>>, <<"sensorF2", 12>>, <<"sensorF3", 12>>, <<"sensorG", 12>>>>
\* The numbers of the other sensors that may be missing, which are then all ones; no
\* comment lists theirs.  A temperature is missing with its humidity only.
Numbers ==
    "dragino-llms01" :> <<<<Skip, 32>>, <<"wetness", 16>>, <<"temperature", 16>>>>
    @@ "dragino-lse01" :>
        <<<<Skip, 32>>, <<"moisture", 16>>, <<"temperature", 16>>, <<"conductivity", 16>>>>
    @@ "dragino-d2x" :>
        <<<<Skip, 16>>, <<"temperature1", 16>>, <<Skip, 24>>, <<"temperature2", 16>>,
          <<"temperature3", 16>>>>
    @@ "dragino-lsn50v2" :> <<<<Skip, 56>>, <<"reading", 32>>>>
    @@ "dragino-thpllora" :> <<<<Skip, 64>>, <<"reading", 32>>, <<Skip, 24>>, <<"windDir", 16>>>>
    @@ "dragino-thwlora" :> <<<<Skip, 16>>, <<"reading", 32>>, <<Skip, 32>>, <<"windDir", 16>>>>
    @@ "thplnbiot" :> <<<<Skip, 224>>, <<"reading", 32>>>>
    @@ "thwnbiot" :> <<<<Skip, 224>>, <<"reading", 32>>, <<Skip, 32>>, <<"windDir", 16>>>>

AllLayouts == Layout @@ Numbers
Fields(s) == IF s \in DOMAIN AllLayouts THEN DOMAIN AllLayouts[s] ELSE {}
\* The bits of each field, from 0.
FieldBits ==
    [s \in DOMAIN AllLayouts |-> [k \in Fields(s) |->
        LET first == MapThenSumSet(LAMBDA j : AllLayouts[s][j][2], 1..(k - 1))
        IN  first..(first + AllLayouts[s][k][2] - 1)]]

\* Fields sent as a difference with other ones.
Base(s) ==
    CASE s = "barani-meteowind" -> [gustSpeed |-> {"avgSpeed"}, minSpeed |-> {"avgSpeed"}]
      [] s \in {"barani-meteowind-v2023", "barani-meteowind-v2026"} ->
            [gustSpeed |-> {"avgSpeed"}, gust1sSpeed |-> {"avgSpeed", "gustSpeed"}]
      [] s = "barani-meteohelix" ->
            [minTemperature |-> {"temperature"}, maxTemperature |-> {"temperature"},
             maxRadiation |-> {"radiation"}]
      [] s = "barani-meteohelix-v2026" ->
            [minTemperature |-> {"temperature"}, maxTemperature |-> {"temperature"}]
      [] OTHER -> <<>>
\* The sensor whose differences are added to the value of the other field, which may be
\* missing; for the others it is to its bits, which are a number when they are all ones.
AddsToValue(s) == s = "barani-meteohelix-v2026"
\* Fields that are numbers without an offset nor a missing value.
Plain == {"index", "type", "alarm", "debugFlags", "rainfallClicks", "minTimeBetweenClicks",
          "tempOver2C", "heater", "correction", "intensityCorrection", "heaterActivated",
          "selectorE", "selectorF", "selectorG", "sensorE1", "sensorE2", "sensorE3",
          "sensorF1", "sensorF2", "sensorF3", "sensorG"}

-----------------------------------------------------------------------------
(* The payloads                                                             *)

NoField == 0
AllFields == -1
Size == Max(Sizes(sensor))
NoFlip == 4 * Size
BadDigit == NoFlip + 1
MissingDigit == NoFlip + 2

\* The payload with no flip, and the one with its bit flipped.  The messages of
\* barani-meteohelix are of the type that is decoded (bits 01), but where the type is
\* the field that is all ones.
TypeBits == IF sensor = "barani-meteohelix" /\ field # 1 THEN {0, 1} ELSE {}
Background ==
    [d \in 1..Size |->
        LET One(b) == IF b \in TypeBits THEN b = 1
                      ELSE \/ field = AllFields
                           \/ field # NoField /\ b \in FieldBits[sensor][field]
        IN  MapThenSumSet(LAMBDA i : IF One(4 * (d - 1) + i) THEN 2^(3 - i) ELSE 0, 0..3)]
BitAt(digits, i) == (digits[i \div 4 + 1] \div 2^(3 - (i % 4))) % 2
Flipped(digits, i) ==
    [digits EXCEPT ![i \div 4 + 1] = @ + (1 - 2 * BitAt(digits, i)) * 2^(3 - (i % 4))]
Payload(i) ==
    CASE i < NoFlip -> Flipped(Background, i)
      [] i = NoFlip -> Background
      [] i = BadDigit -> [Background EXCEPT ![1] = 16]
      [] i = MissingDigit -> SubSeq(Background, 1, Size - 1)
\* Over a single field only its own bits are flipped.
Flips == IF field \in {NoField, AllFields} THEN 0..MissingDigit
         ELSE FieldBits[sensor][field] \cup {NoFlip}
Port == IF sensor \in Nbiot THEN 0 ELSE InstantiateMessage[sensor]

\* The next message differs from the last one by the bit that is flipped.
NextMessage ==
    /\ sensor # NoMessage
    /\ LET after == {i \in Flips : i > flip}
       IN  flip' = Min(IF after = {} THEN Flips ELSE after)
    /\ payload' = Payload(flip')
    /\ UNCHANGED <<sensor, env, field>>

SensorInit ==
    /\ sensor \in Sensors
    /\ env \in Environments
    /\ field \in {NoField, AllFields} \cup Fields(sensor)
    /\ flip = NoFlip
    /\ payload = Payload(flip)
SensorIdle == sensor = NoMessage /\ env = <<>> /\ field = NoField /\ flip = 0 /\ payload = <<>>
SensorNext == NextMessage

-----------------------------------------------------------------------------
(* Properties                                                               *)

DocumentedFields == {k \in Fields(sensor) : Layout[sensor][k][1] # Skip}
Value(o, name) ==
    CASE name = "sensorE1" -> o.sensorE[1] [] name = "sensorE2" -> o.sensorE[2]
      [] name = "sensorE3" -> o.sensorE[3] [] name = "sensorF1" -> o.sensorF[1]
      [] name = "sensorF2" -> o.sensorF[2] [] name = "sensorF3" -> o.sensorF[3]
      [] OTHER -> o[name]
IsMissing(value) == value \in {NaN, -1}

AllOnes(k) == \A i \in FieldBits[sensor][k] : BitAt(payload, i) = 1

\* The value of field k follows its documented bits: it is the number they write, or is
\* missing when they are all ones and only then, or when those of the field it is added
\* to are (AddsToValue); and it changes with them, or those of the fields it is relative
\* to, and with nothing else.
FollowsLayout(k, reference, reading) ==
    LET name == Layout[sensor][k][1]
        bits == FieldBits[sensor][k]
        before == Value(reference, name)
        now == Value(reading, name)
        number == MapThenSumSet(LAMBDA i : BitAt(payload, i) * 2^(Max(bits) - i), bits)
        bases == IF name \in DOMAIN Base(sensor)
                 THEN {j \in DocumentedFields : Layout[sensor][j][1] \in Base(sensor)[name]} ELSE {}
        baseless == AddsToValue(sensor) /\ \E j \in bases : AllOnes(j)
    IN  IF name \in Plain THEN now = number
        ELSE /\ name # "maxTime" => (IsMissing(now) <=> AllOnes(k) \/ baseless)
             /\ flip \in bits => now # before \/ baseless
             /\ flip \notin bits \cup UNION {FieldBits[sensor][j] : j \in bases} => now = before

\* The fields that are not read as the comments say: the README tells of each.
Misread ==
    "barani-meteowind" :> {"avgDirection"} @@ "barani-meteowind-v2023" :> {}
    @@ "barani-meteowind-v2026" :> {"cwMax", "debugFlags"}
    @@ "barani-meteohelix" :> {"humidity", "minTimeBetweenClicks"}
    @@ "barani-meteohelix-v2026" :>
        {"maxTemperature", "minRadiation", "maxRadiation", "rainfallClicks",
         "minTimeBetweenClicks", "intensityCorrection", "heaterActivated", "alarm"}
    @@ "barani-meteorain" :> {"rainfallClicks", "correction"} @@ "barani-meteoag-2022" :> {}
Decoded(o) == sensor = "barani-meteohelix" => o.type = 1
Misreadings ==
    LET reference == Ingest(sensor, Background)
        reading == Ingest(sensor, payload)
    IN  {Layout[sensor][k][1] : k \in {j \in DocumentedFields :
            Decoded(reference) /\ Decoded(reading) /\ ~FollowsLayout(j, reference, reading)}}

\* Every field of the Barani payloads is read where, and as, the comments of
\* its decoder say, but for the fields of Misread.
ReadAsDocumented ==
    sensor \in DOMAIN Layout /\ Valid(sensor, payload) => Misreadings \subseteq Misread[sensor]

\* The fields a stored measure is computed from, each of which may be missing.
ComputedFrom ==
    [outsidetemp |-> {"temperature", "temperature1", "reading"},
     min_outside_temperature |-> {"minTemperature", "temperature"},
     max_outside_temperature |-> {"maxTemperature", "temperature"},
     outsidehum |-> {"humidity", "reading"},
     dewpoint |-> {"temperature", "humidity", "reading"},
     barometer |-> {"pressure", "temperature"}, solarrad |-> {"radiation"},
     windspeed |-> {"avgSpeed"}, min_windspeed |-> {"minSpeed"},
     windgust |-> {"gustSpeed", "avgSpeed"},
     max_windgust |-> {"gust1sSpeed", "gustSpeed", "avgSpeed"},
     winddir |-> {"avgDirection", "windDir"}, voltage_battery |-> {"battery"},
     leaftemp |-> {"temperature"}, leafwetness_percent1 |-> {"wetness"},
     leafwetnesses |-> {"wetness"}, soiltemp |-> {"temperature"},
     soilmoistures |-> {"moisture"}, soil_conductivity1 |-> {"conductivity"},
     extratemp1 |-> {"temperature2"}, extratemp2 |-> {"temperature3"}]

\* The measures that are stored though a field they are computed from is all ones.
StoredThoughMissing ==
    LET o == ParseMessage(sensor, Port, payload)
        missing == {AllLayouts[sensor][k][1] : k \in {j \in Fields(sensor) : AllOnes(j)}}
        stored == {m \in DOMAIN o \cap DOMAIN ComputedFrom :
                       IF m = "dewpoint" THEN o[m] ELSE o[m] # NaN}
    IN  UNION {{m} \X (ComputedFrom[m] \cap missing) : m \in stored}

\* But these are, with the numbers that the ones make: the directions and humidities
\* compared with the ones of a narrower field (511 degrees, 102.2 % and its dew point),
\* the highest temperature of the 2026 version likewise, and what is added to a missing
\* speed or temperature.
TakenForNumbers(s) ==
    CASE s = "barani-meteowind" -> {<<"winddir", "avgDirection">>, <<"windgust", "avgSpeed">>}
      [] s \in {"barani-meteowind-v2023", "barani-meteowind-v2026"} ->
            {<<"windgust", "avgSpeed">>, <<"max_windgust", "avgSpeed">>, <<"max_windgust", "gustSpeed">>}
      [] s = "barani-meteohelix" ->
            {<<"outsidehum", "humidity">>, <<"dewpoint", "humidity">>,
             <<"min_outside_temperature", "temperature">>, <<"max_outside_temperature", "temperature">>}
      [] s = "barani-meteohelix-v2026" -> {<<"max_outside_temperature", "maxTemperature">>}
      [] OTHER -> {}

\* A missing number is not stored, nor what is computed from it, whatever the width of
\* its field and whichever other fields are there, but for TakenForNumbers.
MissingIsNotStored ==
    sensor \in DOMAIN AllLayouts /\ flip # MissingDigit =>
        StoredThoughMissing \subseteq TakenForNumbers(sensor)

\* What is stored of a message is what the documentation of its sensor says is there:
\* no field is read where another one lies, nor is a missing value taken for a number,
\* but for the fields that Misread and TakenForNumbers name.
SensorsReadAsDocumented == ReadAsDocumented /\ MissingIsNotStored
=============================================================================
