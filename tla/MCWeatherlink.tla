---------------------------- MODULE MCWeatherlink ----------------------------
EXTENDS WeatherlinkMessages

Reading(sensor, device, times, sends, rain) ==
    [sensor |-> sensor, device |-> device, times |-> times, sends |-> sends, rain |-> rain,
     here |-> TRUE, variables |-> <<>>]
With(r, variables) == [r EXCEPT !.variables = variables]
Elsewhere(r) == [r EXCEPT !.here = FALSE]
SentOutside == Outside \ {"uvIndex"}

MCReadings ==
    <<Reading("iss", "live", <<1, 2>>, SentOutside, 2),
      Reading("iss", "console", <<1>>, Wind \cup {"rainFall"}, 1),
      Reading("iss", "ip", <<1>>, SentOutside \cup {"pressure", "extraTemperature", "soilMoisture"}, 0),
      Reading("suite", "live", <<1, 2>>, {"temperature", "solarRad", "uvIndex", "rainFall"}, 1),
      With(Reading("suite", "console", <<1>>, Outside, 4),
           [temperature |-> "extraTemperature", humidity |-> "extraHumidity", wind |-> "windDir",
            solarRad |-> "solarRad", uvIndex |-> "uvIndex"]),
      Elsewhere(Reading("barometer", "live", <<1, 2>>, {"pressure"}, 0)),
      Reading("leafsoil", "console", <<1>>, {"leafTemperature", "soilTemperature"}, 0),
      Reading("anemometer", "enviromonitor", <<2>>, Wind, 0),
      With(Reading("thermohygro", "live", <<1>>, {"temperature", "humidity"}, 0),
           [temperature |-> "temperature", humidity |-> "humidity"]),
      With(Reading("soilprobe", "live", <<1>>, {"soilMoisture"}, 0), [soilMoisture |-> "soilMoisture"]),
      With(Reading("sentek", "live", <<2>>, {"soilProfile"}, 0), [soilProfile |-> "soilProfile"]),
      Elsewhere(Reading("iss", "live", <<1>>, SentOutside, 5)),
      Reading("noaa", "ip", <<1>>, SentOutside \ {"rainFall"}, 0)>>
=============================================================================
