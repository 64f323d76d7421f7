-------------------------- MODULE DraginoMessages ---------------------------
(***************************************************************************)
(* The decoders of the sensors whose payload is a succession of big-endian *)
(* numbers: dragino/*.cpp, and of the three other makers of custom/*.cpp,  *)
(* talkpool/*.cpp and pessl/lorain_message.cpp.  Temperatures and          *)
(* humidities are in tenths unless said otherwise, as in the payloads.     *)
(*                                                                         *)
(* env: offset, the cached correction of the wind direction.  The rainfall *)
(* of the gauges is in RainGauges: here is only the counter they read.     *)
(***************************************************************************)
EXTENDS HexPayload

LOCAL Both(a, b) == Has(a) /\ Has(b)
\* int(std::round(tenths))
Rounded(tenths) == IF Has(tenths) THEN (tenths + 5) \div 10 ELSE NaN
Part(payload, i, length) == BigEndian(payload, i, length)

\* Cpl01PluviometerMessage: six digits are parsed in the uint16_t of the clicks.
\* The timestamp of the message (its low half here) is used when it is after the
\* last cached one, else the one of the network.
Cpl01Ingest(payload) ==
    [alarm |-> Middle(Part(payload, 0, 2), 1, 1),
     open |-> Low(Part(payload, 0, 2), 1),
     clicks |-> Part(payload, 4, 4),
     timestamp |-> Part(payload, 18, 4)]

\* Llms01LeafSensorMessage, with its observation.
Llms01Ingest(payload) ==
    [battery |-> Part(payload, 0, 4),
     wetness |-> Unless(65535, Part(payload, 8, 4), Part(payload, 8, 4)),
     temperature |-> Sentinel16(Part(payload, 12, 4))]
Llms01Observation(o) ==
    [leaftemp |-> o.temperature, leafwetness_percent1 |-> o.wetness,
     leafwetnesses |-> o.wetness, voltage_battery |-> o.battery]

\* Lse01SoilSensorMessage, in hundredths.
Lse01Ingest(payload) ==
    LET Value(i) == Unless(65535, Part(payload, i, 4), Part(payload, i, 4))
    IN  [battery |-> Part(payload, 0, 4),
         moisture |-> Value(8),
         temperature |-> Sentinel16(Part(payload, 12, 4)),
         conductivity |-> Value(16)]
Lse01Observation(o) ==
    [soiltemp |-> o.temperature, soilmoistures |-> o.moisture,
     soil_conductivity1 |-> o.conductivity, voltage_battery |-> o.battery]

\* Lsn50v2D2xMessage: three probes.
Lsn50v2D2xIngest(payload) ==
    [battery |-> Part(payload, 0, 4),
     alarm |-> Part(payload, 12, 2),
     temperature |-> [i \in 1..3 |-> Sentinel16(Part(payload, <<4, 14, 18>>[i], 4))]]
Lsn50v2D2xObservation(o) ==
    [outsidetemp |-> o.temperature[1], extratemp1 |-> o.temperature[2],
     extratemp2 |-> o.temperature[3], voltage_battery |-> o.battery]

\* The two probes of type 6470: the temperature is a function of the resistance
\* that a bridge deduces from two tensions.  The logarithm of 0 is -infinity and
\* gives -273.15 degrees: it is a value, here the lowest one.
AbsoluteZero == -2732
Measured == 0           \* whatever another resistance gives
\* Does adc0 * resistance / d, an integer division, give 0?
Shorted(adc0, resistance, d) == adc0 = 0 \/ resistance <= (d - 1) \div adc0

Lsn50v2Probe6470Ingest(payload) ==
    LET bat == Part(payload, 0, 4)
        adc0 == Part(payload, 8, 4)
    IN  [valid |-> bat > adc0,
         battery |-> bat,
         temperature |-> IF bat <= adc0 THEN NaN
                         ELSE IF Shorted(adc0, Part(payload, 4, 4), bat - adc0) THEN AbsoluteZero
                         ELSE Measured]

\* Above 1200 mV the probe is taken as absent.
Sn50v3Probe6470Ingest(payload) ==
    LET bat == Part(payload, 0, 4)
        adc0 == Part(payload, 8, 4)
    IN  [valid |-> bat > adc0,
         battery |-> bat,
         temperature |-> IF bat <= adc0 \/ adc0 >= 1200 THEN NaN
                         ELSE IF Shorted(adc0, 100 * Part(payload, 4, 4), 5000 - adc0)
                              THEN AbsoluteZero
                         ELSE Measured]
Lsn50v2Probe6470Observation(o) ==
    [outsidetemp |-> o.temperature, voltage_battery |-> o.battery]
Sn50v3Probe6470Observation(o) ==
    [outsidetemp |-> o.temperature, voltage_battery |-> o.battery]

\* The thermohygrometers: a temperature is missing when both numbers are.
TempHum(temp, hum) ==
    IF temp = 65535 /\ hum = 65535 THEN [temperature |-> NaN, humidity |-> NaN]
    ELSE [temperature |-> Signed16(temp), humidity |-> hum]

Lsn50v2Ingest(payload) ==
    [reading |-> TempHum(Part(payload, 14, 4), Part(payload, 18, 4)),
     battery |-> Part(payload, 0, 4)]
Lsn50v2Observation(o) ==
    [outsidetemp |-> o.reading.temperature, outsidehum |-> Rounded(o.reading.humidity),
     dewpoint |-> Both(o.reading.temperature, o.reading.humidity),
     voltage_battery |-> o.battery]

\* ThplloraMessage: the wind is there from 32 digits, its direction with 34.
\* The eight digits of the counter are parsed in an uint16_t.
ThplloraIngest(payload) ==
    LET rate == Part(payload, 4, 4)
        dir == IF Len(payload) = 34 THEN Part(payload, 30, 4) ELSE 65535
        wind == Len(payload) >= 32
    IN  [battery |-> Part(payload, 0, 4),
         rainrate |-> Unless(32767, rate, rate),
         totalPulses |-> Part(payload, 12, 4),
         reading |-> TempHum(Part(payload, 16, 4), Part(payload, 20, 4)),
         windPulses |-> IF wind THEN Part(payload, 24, 4) ELSE NaN,
         gustPulses |-> IF wind THEN Part(payload, 28, 2) ELSE NaN,
         windDir |-> Unless(65535, dir, dir)]
ThplloraObservation(o) ==
    [rainrate |-> o.rainrate,
     outsidetemp |-> o.reading.temperature, outsidehum |-> Rounded(o.reading.humidity),
     dewpoint |-> Both(o.reading.temperature, o.reading.humidity),
     windspeed |-> o.windPulses, windgust |-> o.gustPulses, winddir |-> o.windDir,
     voltage_battery |-> o.battery]

\* ThwloraMessage: the direction is turned by the cached offset.
ThwloraIngest(payload, env) ==
    LET dir == Part(payload, 20, 4)
    IN  [battery |-> Part(payload, 0, 4),
         reading |-> TempHum(Part(payload, 4, 4), Part(payload, 8, 4)),
         windPulses |-> Part(payload, 12, 4),
         gustPulses |-> Part(payload, 16, 2),
         minPulses |-> Part(payload, 18, 2),
         windDir |-> Unless(65535, dir, Remainder(dir + env.offset, 360))]
ThwloraObservation(o) ==
    [outsidetemp |-> o.reading.temperature, outsidehum |-> Rounded(o.reading.humidity),
     dewpoint |-> Both(o.reading.temperature, o.reading.humidity),
     windspeed |-> o.windPulses, windgust |-> o.gustPulses, min_windspeed |-> o.minPulses,
     winddir |-> o.windDir, voltage_battery |-> o.battery]

-----------------------------------------------------------------------------
(* The two sensors on NB-IoT send a header (28 digits), a current reading,  *)
(* the archives from the newest to the oldest, 28 digits each, and a footer *)
(* (64 digits).  They are stored from the oldest; only the newest one gets  *)
(* the voltage of the battery.                                              *)

Archives(payload) == (Len(payload) - 28 - 64 - 28) \div 28
NbiotValidateInput(payload) == (Len(payload) - 28 - 64) % 28 = 0 /\ IsHex(payload)
\* The digit before the i-th oldest archive of n.
ArchiveAt(i, n) == 28 + 28 + 28 * (n - i)
Battery(payload, i, n) == IF i = n THEN Part(payload, 20, 4) ELSE NaN

ThplnbiotIngest(payload) ==
    LET n == Archives(payload)
    IN  [i \in 1..n |->
            LET at == ArchiveAt(i, n)
                rate == Part(payload, at + 16, 4)
            IN  [reading |-> TempHum(Part(payload, at, 4), Part(payload, at + 4, 4)),
                 count |-> Part(payload, at + 12, 4),
                 intensity |-> Unless(32767, rate, rate),
                 time |-> Part(payload, at + 24, 4),
                 battery |-> Battery(payload, i, n)]]
ThplnbiotObservation(o) ==
    [outsidetemp |-> o.reading.temperature, outsidehum |-> Rounded(o.reading.humidity),
     dewpoint |-> Both(o.reading.temperature, o.reading.humidity),
     rainrate |-> o.intensity, voltage_battery |-> o.battery]

ThwnbiotIngest(payload, env) ==
    LET n == Archives(payload)
    IN  [i \in 1..n |->
            LET at == ArchiveAt(i, n)
                dir == Part(payload, at + 16, 4)
            IN  [reading |-> TempHum(Part(payload, at, 4), Part(payload, at + 4, 4)),
                 windPulses |-> Part(payload, at + 8, 4),
                 gustPulses |-> Part(payload, at + 12, 2),
                 minPulses |-> Part(payload, at + 14, 2),
                 windDir |-> Unless(65535, dir, Remainder(dir + env.offset, 360)),
                 time |-> Part(payload, at + 24, 4),
                 battery |-> Battery(payload, i, n)]]
ThwnbiotObservation(o) ==
    [outsidetemp |-> o.reading.temperature, outsidehum |-> Rounded(o.reading.humidity),
     dewpoint |-> Both(o.reading.temperature, o.reading.humidity),
     windspeed |-> o.windPulses, windgust |-> o.gustPulses, min_windspeed |-> o.minPulses,
     winddir |-> o.windDir, voltage_battery |-> o.battery]

-----------------------------------------------------------------------------
(* The other makers                                                         *)

\* OserenSoilStationMessage: 21 words, in the units of the payload, unsigned.
OserenIngest(payload) ==
    LET Word(i) == Part(payload, 4 * i, 4)
    IN  [header |-> Word(0), year |-> Word(1), month |-> Word(2), day |-> Word(3),
         hours |-> Word(4), minutes |-> Word(5),
         temperature |-> Word(6), humidity |-> Word(7), pressure |-> Word(8),
         rainfall |-> Word(9), windspeed |-> Word(10), winddir |-> Word(11),
         soilVWC10 |-> Word(12), soilTemp10 |-> Word(13),
         soilVWC50 |-> Word(14), soilTemp50 |-> Word(15),
         soilVWC100 |-> Word(16), soilTemp100 |-> Word(17),
         enclosureTemp |-> Word(18), battery |-> Word(19), enclosureHum |-> Word(20)]
OserenObservation(o) ==
    [outsidetemp |-> o.temperature, outsidehum |-> o.humidity, barometer |-> o.pressure,
     rainfall |-> o.rainfall, windspeed |-> o.windspeed, winddir |-> o.winddir,
     soiltemp |-> <<o.soilTemp10, o.soilTemp50, o.soilTemp100>>,
     soilmoistures |-> <<o.soilVWC10, o.soilVWC50, o.soilVWC100>>,
     insidetemp |-> o.enclosureTemp, insidehum |-> o.enclosureHum,
     voltage_battery |-> o.battery]

\* ThloraThermohygrometerMessage: little-endian pairs of bytes; the temperature
\* in hundredths, the signal in quarters of dB.
ThloraIngest(payload) ==
    LET raw == Bytes(payload, 9, 9, 0)
        temp == raw[1] + raw[2] * 256
        rssi == raw[6]
        snr == raw[7]
    IN  [header |-> raw[0],
         temperature |-> (17572 * temp) \div 65536 - 4685,
         humidity |-> (125 * raw[3]) \div 256 - 6,
         period |-> 2 * (raw[4] + raw[5] * 256),
         rssi |-> IF rssi = 255 THEN -180 ELSE rssi - 180,
         snr |-> IF snr >= 240 THEN -(255 - snr + 1) ELSE snr,
         battery |-> raw[8] + 150]
ThloraObservation(o) ==
    [outsidetemp |-> o.temperature, outsidehum |-> o.humidity]

\* Oy1110ThermohygrometerMessage: packets of three bytes, after one byte of
\* header when there are several.  The loop counts the header for one digit:
\* it ends only when the digits left are a multiple of 6.
Oy1110ValidateInput(payload) ==
    (Len(payload) = 6 \/ (Len(payload) - 1) % 6 # 0) /\ IsHex(payload)
Oy1110Left(payload) == IF Len(payload) > 6 THEN Len(payload) - 1 ELSE Len(payload)
\* The digits left, unsigned, are 0 after a whole number of packets.
Oy1110Terminates(payload) == Oy1110Left(payload) % 6 = 0

Oy1110Ingest(payload) ==
    LET grouped == Len(payload) > 6
        header == Part(payload, 0, 2)
        start == IF grouped THEN 2 ELSE 0
    IN  [offset |-> IF ~grouped THEN NaN
                    ELSE Low(header, 7) * (IF High(header, 1) = 0 THEN 1 ELSE 60),
         packets |-> [i \in 1..(Oy1110Left(payload) \div 6) |->
            LET at == start + 6 * (i - 1)
            IN  [temperature |-> Part(payload, at, 2) * 16 + Part(payload, at + 4, 1) - 800,
                 humidity |-> Part(payload, at + 2, 2) * 16 + Part(payload, at + 5, 1) - 250]]]
Oy1110Observation(o) ==
    [outsidetemp |-> o.packets[1].temperature, outsidehum |-> Rounded(o.packets[1].humidity)]

\* LorainMessage: little-endian words after 28 digits, unsigned.
LorainIngest(payload) ==
    LET Word(i) == LittleEndian(payload, 28 + 4 * i, 4)
    IN  [batteryVoltage |-> Word(0), solarPanelVoltage |-> Word(1), rainfallClicks |-> Word(2),
         temperature |-> Word(3), minTemperature |-> Word(4), maxTemperature |-> Word(5),
         humidity |-> Word(6), minHumidity |-> Word(7), maxHumidity |-> Word(8),
         deltaT |-> Word(9), minDeltaT |-> Word(10), maxDeltaT |-> Word(11),
         dewPoint |-> Word(12), minDewPoint |-> Word(13),
         vaporPressureDeficit |-> Word(14), minVaporPressureDeficit |-> Word(15),
         leafWetnessTimeRatio |-> LittleEndian(payload, 92, 2)]
LorainObservation(o) ==
    [dewpoint |-> o.dewPoint, outsidehum |-> Rounded(o.humidity),
     outsidetemp |-> o.temperature, min_outside_temperature |-> o.minTemperature,
     max_outside_temperature |-> o.maxTemperature,
     leafwetness_timeratio1 |-> o.leafWetnessTimeRatio]
=============================================================================
