--------------------------- MODULE BaraniMessages ---------------------------
(***************************************************************************)
(* The decoders of the Barani sensors (barani/*.cpp).  Each one reads the  *)
(* payload into a vector of bytes, cuts it into fields, and keeps what     *)
(* getObservation stores.  Voltages and speeds are in hundredths of V and  *)
(* km/h (millionths of km/h for the sensors that count pulses).            *)
(*                                                                         *)
(* env: what the message reads besides the payload: offset, the cached     *)
(* correction of the wind direction; battery, the cached one; junk, the    *)
(* bytes after the vector; voltage, whether the voltage, a float that is   *)
(* not initialised, is different from 0.                                   *)
(***************************************************************************)
EXTENDS HexPayload, FiniteSetsExt

\* getObservation: a direction below 0 is not stored.
Direction(d) == IF d < 0 THEN NaN ELSE d
\* The dew point and the heat index are stored when both values are there.
Both(a, b) == Has(a) /\ Has(b)

-----------------------------------------------------------------------------
(* BaraniAnemometerMessage                                                  *)

AnemometerIngest(payload) ==
    LET raw == Bytes(payload, 10, 10, 0)
        battery == High(raw[1], 3)
        avg == Low(raw[1], 5) * 2^4 + High(raw[2], 4)
        gust == Low(raw[2], 4) * 2^5 + High(raw[3], 5)
        min == Low(raw[3], 3) * 2^6 + High(raw[4], 6)
        stdev == Low(raw[4], 2) * 2^6 + High(raw[5], 6)
        dir == Low(raw[5], 2) * 2^7 + High(raw[6], 7)
        gustDir == Low(raw[6], 1) * 2^8 + raw[7]
        dirStdev == High(raw[8], 7)
    IN  [index |-> raw[0],
         battery |-> Unless(Ones(3), battery, 300 + 20 * battery),
         avgSpeed |-> Unless(Ones(9), avg, 36 * avg),
         gustSpeed |-> Unless(Ones(9), gust, 36 * (avg + gust)),
         minSpeed |-> Unless(Ones(9), min, 36 * (avg - min)),
         speedStdev |-> Unless(Ones(8), stdev, 36 * stdev),
         avgDirection |-> IF dir = Ones(7) THEN -1 ELSE dir,
         gustDirection |-> IF gustDir = Ones(9) THEN -1 ELSE gustDir,
         directionStdev |-> IF dirStdev = Ones(7) THEN -1 ELSE dirStdev,
         maxTime |-> 5 * (Low(raw[8], 1) * 2^6 + High(raw[9], 6)),
         alarm |-> Low(raw[9], 1)]

AnemometerObservation(o) ==
    [windspeed |-> o.avgSpeed, windgust |-> o.gustSpeed,
     winddir |-> Direction(o.avgDirection)]

-----------------------------------------------------------------------------
(* BaraniAnemometer2023Message and BaraniAnemometer2026Message              *)

\* The voltage the index stands for, and the one remembered, in tenths of V.
\* (The comparisons use the float _obs.batteryVoltage, not the bit read.)
NewBattery(index) == 33 + (index % 10) * 2 - (IF index % 10 > 4 THEN 10 ELSE 0)
KnownBattery(index, env) ==
    LET new == NewBattery(index)
    IN  IF env.voltage /\ new > env.battery THEN new + 1
        ELSE IF ~env.voltage /\ new < env.battery THEN new - 1
        ELSE env.battery
Clamp(n, low, high) == Min({high, Max({low, n})})

Anemometer2023Ingest(payload, env) ==
    LET raw == Bytes(payload, 12, 12, 0)
        avg == Low(raw[1], 7) * 2^5 + High(raw[2], 5)
        gust == Low(raw[2], 3) * 2^6 + High(raw[3], 6)
        gust1s == Low(raw[3], 2) * 2^6 + High(raw[4], 6)
        min == Low(raw[4], 2) * 2^7 + High(raw[5], 7)
        stdev == Low(raw[5], 1) * 2^7 + High(raw[6], 7)
        dir == Low(raw[6], 1) * 2^8 + raw[7]
        gustDir == raw[8] * 2 + High(raw[9], 1)
        dirStdev == Low(raw[9], 7) * 2 + High(raw[10], 1)
        \* (hundredths of Hz * 0.6335 + 0.3582) * 3.6
        Speed(hz) == 22806 * hz + 1289520
    IN  [index |-> raw[0],
         battery |-> Clamp(KnownBattery(raw[0], env), 32, 42) * 10,
         avgSpeed |-> Unless(Ones(12), avg, IF avg = 0 THEN 0 ELSE Speed(2 * avg)),
         gustSpeed |-> Unless(Ones(9), gust, Speed(2 * avg + 10 * gust)),
         gust1sSpeed |-> Unless(Ones(8), gust1s, Speed(2 * avg + 10 * gust + 10 * gust1s)),
         minSpeed |-> Unless(Ones(9), min, IF min = 0 THEN 0 ELSE Speed(10 * min)),
         speedStdev |-> Unless(Ones(8), stdev, IF stdev = 0 THEN 0 ELSE Speed(10 * stdev)),
         avgDirection |-> IF dir = Ones(9) THEN -1 ELSE Remainder(dir + env.offset, 360),
         gustDirection |-> IF gustDir = Ones(9) THEN -1
                           ELSE Remainder(gustDir + env.offset, 360),
         directionStdev |-> IF dirStdev = Ones(8) THEN -1 ELSE dirStdev,
         maxTime |-> 5 * Low(raw[10], 7),
         alarm |-> High(raw[11], 1),
         debugFlags |-> Low(raw[11], 7)]

\* pulsesToKmh of n hundredths of Hz: -0.00065 p^2 + 0.675 p + 0.2 m/s, in
\* millionths of km/h.
PulsesToKmh(n) ==
    LET speed == -((65 * ((n * n) \div 100)) \div 10) + 6750 * n + 200000
    IN  IF speed <= 0 THEN 0 ELSE 36 * (speed \div 10)

Anemometer2026Ingest(payload, env) ==
    LET raw == Bytes(payload, 14, 14, 0)
        avg == Low(raw[1], 7) * 2^5 + High(raw[2], 5)
        gust == Low(raw[2], 3) * 2^6 + High(raw[3], 6)
        gust1s == Low(raw[3], 2) * 2^6 + High(raw[4], 6)
        min == Low(raw[4], 2) * 2^7 + High(raw[5], 7)
        stdev == Low(raw[5], 1) * 2^7 + High(raw[6], 7)
        dir == Low(raw[6], 1) * 2^8 + raw[7]
        gustDir == raw[8] * 2 + High(raw[9], 1)
        dirStdev == Low(raw[9], 7) * 2 + High(raw[10], 1)
        minCcw == Low(raw[10], 7) * 2^2 + High(raw[11], 2)
        maxCw == Low(raw[11], 6) * 2^3 + High(raw[12], 3)
    IN  [index |-> raw[0],
         battery |-> Clamp(KnownBattery(raw[0], env), 32, 42) * 10,
         avgSpeed |-> Unless(Ones(12), avg, IF avg = 0 THEN 0 ELSE PulsesToKmh(2 * avg)),
         gustSpeed |-> Unless(Ones(9), gust, PulsesToKmh(2 * avg + 10 * gust)),
         gust1sSpeed |-> Unless(Ones(8), gust1s,
                                PulsesToKmh(2 * avg + 10 * gust + 10 * gust1s)),
         minSpeed |-> Unless(Ones(9), min, IF min = 0 THEN 0 ELSE PulsesToKmh(10 * min)),
         speedStdev |-> Unless(Ones(8), stdev,
                               IF stdev = 0 THEN 0 ELSE PulsesToKmh(100 * stdev)),
         avgDirection |-> IF dir = Ones(9) THEN -1 ELSE Remainder(dir + env.offset, 360),
         gustDirection |-> IF gustDir = Ones(9) THEN -1
                           ELSE Remainder(gustDir + env.offset, 360),
         directionStdev |-> IF dirStdev = Ones(8) THEN -1 ELSE dirStdev,
         ccwMin |-> IF minCcw = Ones(9) THEN -1 ELSE minCcw,
         cwMax |-> IF minCcw = Ones(9) THEN -1 ELSE maxCw,
         maxTime |-> 5 * (Low(raw[12], 5) * 2^2 + High(raw[13], 2)),
         alarm |-> Middle(raw[13], 5, 1),
         debugFlags |-> Low(raw[11], 6)]

\* getObservation of both.
Anemometer2023Observation(o) ==
    [windspeed |-> o.avgSpeed, min_windspeed |-> o.minSpeed, windgust |-> o.gustSpeed,
     max_windgust |-> o.gust1sSpeed, winddir |-> Direction(o.avgDirection),
     voltage_battery |-> o.battery]
Anemometer2026Observation(o) ==
    [windspeed |-> o.avgSpeed, min_windspeed |-> o.minSpeed, windgust |-> o.gustSpeed,
     max_windgust |-> o.gust1sSpeed, winddir |-> Direction(o.avgDirection),
     voltage_battery |-> o.battery]

-----------------------------------------------------------------------------
(* BaraniThermohygroMessage and BaraniThermohygro2026Message.  The pressure *)
(* is the one read, in tenths of Pa: reduced to the sea level, which needs  *)
(* the temperature, it is the one stored.  Temperatures in hundredths of a  *)
(* degree, humidity in tenths of %.                                         *)

AtSeaLevel(o) == IF Has(o.temperature) THEN o.pressure ELSE NaN

ThermohygroIngest(payload) ==
    LET raw == Bytes(payload, 10, 11, 0)
        battery == Middle(raw[0], 1, 5)
        temp == Low(raw[0], 1) * 2^10 + raw[1] * 2^2 + High(raw[2], 2)
        minTemp == Low(raw[2], 6)
        maxTemp == High(raw[3], 6)
        hum == Low(raw[3], 2) * 2^7 + High(raw[4], 7)
        pressure == Low(raw[4], 1) * 2^13 + raw[5] * 2^5 + High(raw[6], 5)
        rad == Low(raw[6], 3) * 2^7 + High(raw[7], 7)
        maxRad == Low(raw[7], 1) * 2^8 + raw[8]
    IN  [type |-> High(raw[0], 2),
         battery |-> Unless(Ones(5), battery, 300 + 5 * battery),
         temperature |-> Unless(Ones(11), temp, 10 * temp - 10000),
         minTemperature |-> Unless(Ones(6), minTemp, 10 * (temp - minTemp) - 10000),
         maxTemperature |-> Unless(Ones(6), maxTemp, 10 * (temp + maxTemp) - 10000),
         humidity |-> Unless(Ones(7), hum, 2 * hum),
         pressure |-> Unless(Ones(14), pressure, 50 * pressure + 500000),
         radiation |-> Unless(Ones(10), rad, 2 * rad),
         maxRadiation |-> Unless(Ones(9), maxRad, 2 * (rad + maxRad)),
         rainfallClicks |-> raw[9],
         minTimeBetweenClicks |-> raw[10]]

\* Only the messages of type 1 are decoded.  The rate of the rain is 0 when
\* the time between two clicks is 0, else 0.2 mm per that time.
ThermohygroObservation(o) ==
    [outsidetemp |-> o.temperature, max_outside_temperature |-> o.maxTemperature,
     min_outside_temperature |-> o.minTemperature, outsidehum |-> o.humidity,
     dewpoint |-> Both(o.temperature, o.humidity), barometer |-> AtSeaLevel(o),
     solarrad |-> o.radiation, voltage_battery |-> o.battery,
     rainrate |-> IF o.minTimeBetweenClicks = 0 THEN 0 ELSE 720 \div o.minTimeBetweenClicks]

\* Ten bytes are parsed in a vector of eleven; six more are read.
Thermohygro2026Ingest(payload, env) ==
    LET raw == Bytes(payload, 10, 11, env.junk)
        battery == High(raw[1], 1)
        temp == Low(raw[1], 7) * 2^7 + High(raw[2], 7)
        minTemp == Low(raw[2], 1) * 2^7 + High(raw[3], 7)
        maxTemp == Low(raw[3], 1) * 2^7 + High(raw[4], 7)
        hum == Low(raw[4], 1) * 2^8 + raw[5]
        pressure == raw[6] * 2^7 + High(raw[7], 7)
        rad == Low(raw[7], 1) * 2^10 + raw[8] * 2^2 + High(raw[9], 2)
        minRad == Low(raw[9], 6) * 2^4 + High(raw[10], 4)
        maxRad == Low(raw[10], 4) * 2^6 + High(raw[11], 6)
        clicks == Low(raw[11], 2) * 2^10 + raw[12] * 2^2 + High(raw[13], 2)
        temperature == Unless(Ones(14), temp, temp - 5000)
        Sum(a, b) == IF Has(a) THEN a + b ELSE NaN
    IN  [index |-> raw[0],
         battery |-> Unless(Ones(5), battery, 300 + 5 * battery),
         temperature |-> temperature,
         minTemperature |-> Unless(Ones(8), minTemp, Sum(temperature, -5 * minTemp)),
         maxTemperature |-> Unless(Ones(6), maxTemp, Sum(temperature, 5 * maxTemp)),
         humidity |-> Unless(Ones(9), hum, 2 * hum),
         pressure |-> Unless(Ones(15), pressure, 25 * pressure + 300000),
         radiation |-> Unless(Ones(11), rad, rad),
         minRadiation |-> Unless(Ones(10), minRad, 2 * minRad),
         maxRadiation |-> Unless(Ones(10), maxRad, 2 * maxRad),
         rainfallClicks |-> clicks,
         minTimeBetweenClicks |-> Low(raw[13], 6) * 2^4 + High(raw[14], 4),
         intensityCorrection |-> Low(raw[14], 4) * 2^6 + High(raw[15], 6),
         heaterActivated |-> Middle(raw[15], 1, 1),
         alarm |-> Low(raw[15], 1)]

\* The rate is proportional to the square of the number sent (728 / n)^2 s.
Thermohygro2026Observation(o) ==
    [outsidetemp |-> o.temperature, max_outside_temperature |-> o.maxTemperature,
     min_outside_temperature |-> o.minTemperature, outsidehum |-> o.humidity,
     dewpoint |-> Both(o.temperature, o.humidity), barometer |-> AtSeaLevel(o),
     solarrad |-> o.radiation, voltage_battery |-> o.battery,
     rainrate |-> IF o.minTimeBetweenClicks = 0 THEN 0
                  ELSE (720 * o.minTimeBetweenClicks * o.minTimeBetweenClicks) \div 529984]

-----------------------------------------------------------------------------
(* BaraniRainGaugeMessage.  Only six bytes are sent, ten are parsed.        *)

RainGaugeIngest(payload) ==
    LET raw == Bytes(payload, 10, 10, 0)
        battery == High(raw[1], 5)
    IN  [index |-> raw[0],
         battery |-> Unless(Ones(5), battery, 300 + 5 * battery),
         rainfallClicks |-> Low(raw[1], 3) * 2^11 + raw[2] * 2 + High(raw[3], 1),
         minTimeBetweenClicks |-> Low(raw[3], 7) * 2 + High(raw[4], 1),
         tempOver2C |-> Middle(raw[4], 6, 1),
         heater |-> Middle(raw[4], 5, 1),
         correction |-> Low(raw[4], 5) * 2^5 + High(raw[5], 7)]

\* 0.2 mm / (182 / n), in thousandths; the rainfall is in RainGauges.
RainGaugeObservation(o) ==
    [rainrate |-> (200 * o.minTimeBetweenClicks) \div 182, voltage_battery |-> o.battery]

-----------------------------------------------------------------------------
(* BaraniMeteoAg2022Message: seven analog sensors of types chosen by three  *)
(* selectors.                                                               *)

MeteoAgIngest(payload) ==
    LET raw == Bytes(payload, 13, 13, 0)
        battery == High(raw[1], 3)
        First12(i) == raw[i] * 2^4 + High(raw[i + 1], 4)
        Last12(i) == Low(raw[i], 4) * 2^8 + raw[i + 1]
    IN  [index |-> raw[0],
         battery |-> Unless(Ones(3), battery, 320 + 15 * battery),
         selectorE |-> Middle(raw[1], 2, 3),
         selectorF |-> Low(raw[1], 2) * 2 + High(raw[2], 1),
         selectorG |-> Middle(raw[2], 4, 3),
         sensorE |-> <<Last12(2), First12(4), Last12(5)>>,
         sensorF |-> <<First12(7), Last12(8), First12(10)>>,
         sensorG |-> Last12(11)]

MeteoAgValid(o) ==
    /\ o.selectorE \notin 3..5
    /\ o.selectorF \notin 3..6
    /\ o.selectorG \notin 4..5
    /\ ~(o.selectorE = 7 /\ o.selectorF = 7)

\* parse6470 and parseSS200 convert a voltage into a temperature and a
\* moisture: the first one refuses 0; the second one always answers.
Parse6470(v) == IF v = 0 THEN NaN ELSE v
ParseSS200(v) == v

\* The depths, from the surface, each sensor is stored at.
MeteoAgObservation(o) ==
    LET temps == (IF o.selectorF = 2 THEN [i \in 1..3 |-> Parse6470(o.sensorF[i])] ELSE <<>>)
                 \o (IF o.selectorF = 2 /\ o.selectorE = 7
                     THEN [i \in 1..3 |-> Parse6470(o.sensorE[i])] ELSE <<>>)
        moistures == (IF o.selectorE = 0 THEN [i \in 1..3 |-> ParseSS200(o.sensorE[i])] ELSE <<>>)
                 \o (IF o.selectorE = 0 /\ o.selectorF = 7
                     THEN [i \in 1..3 |-> ParseSS200(o.sensorF[i])] ELSE <<>>)
    IN  [soiltemp |-> temps, soilmoistures |-> moistures]
=============================================================================
