------------------------------- MODULE MCSynop -------------------------------
EXTENDS SynopParser

\* The digits of a number, and the sign groups of the temperatures.
Digits(n, width) == [i \in 1..width |-> (n \div 10^(width - i)) % 10]
Signed(n) == IF n < 0 THEN <<1>> \o Digits(-n, 3) ELSE <<0>> \o Digits(n, 3)
Item(s, written, meaning) == [section |-> s, groups |-> written, means |-> meaning]
RainItem(amount, hours) ==
    "precipitation" :> [amount |-> amount, trace |-> FALSE, duration |-> hours]
S == Slash

MCWinds ==
    {[groups |-> <<<<8, 2, 7, 1, 2>>>>, means |-> [meanWindDirection |-> 270, meanWindSpeed |-> 12]],
     [groups |-> <<<<S, 0, 9, 9, 9>>, <<0, 0, 1, 0, 4>>>>,
      means |-> [meanWindDirection |-> 90, meanWindSpeed |-> 104]],
     [groups |-> <<<<0, S, S, S, S>>>>, means |-> <<>>]}

MCItems ==
    <<Item(1, <<<<1>> \o Signed(-52)>>, "meanTemperature" :> -52),
      Item(1, <<<<1>> \o Signed(213)>>, "meanTemperature" :> 213),
      Item(1, <<<<1, S, S, S, S>>>>, <<>>),
      Item(1, <<<<2>> \o Signed(-101)>>, "dewPoint" :> -101),
      Item(1, <<<<2, 9, 0, 8, 5>>>>, "relativeHumidity" :> 85),
      Item(1, <<<<3, 9, 8, 7, 6>>>>, "pressureAtStation" :> 9876),
      Item(1, <<<<4, 0, 1, 3, 2>>>>, "pressureAtSeaLevel" :> 10132),
      Item(1, <<<<4, 8, 5, 1, 2>>>>, "isobaricSurfacePotential" :> <<8, 512>>),
      Item(1, <<<<5, 3, 0, 1, 4>>>>, "pressureTendency" :> <<3, 14>>),
      Item(1, <<<<6, 0, 1, 2, 5>>>>, RainItem(120, 1)),
      Item(1, <<<<6, 9, 9, 4, 1>>>>, RainItem(4, 6)),
      Item(1, <<<<7, 6, 1, 6, 2>>>>, <<>>),
      Item(1, <<<<8, 3, 5, 7, 0>>>>,
           [lowOrMediumCloudCover |-> 3, lowClouds |-> 5, mediumClouds |-> 7, highClouds |-> 0]),
      Item(2, <<<<2, 2, 2, 0, 0>>, <<0, 0, 1, 2, 3>>>>, <<>>),
      Item(3, <<<<1>> \o Signed(310)>>, "maxTemperature" :> 310),
      Item(3, <<<<2>> \o Signed(-7)>>, "minTemperature" :> -7),
      Item(3, <<<<3, 1, 1, 0, 4>>>>,
           [groundStateWithoutSnowOrIce |-> 1, minSoilTemperature |-> -4]),
      Item(3, <<<<4, 7, 0, 1, 5>>>>, [groundStateWithSnowOrIce |-> 7, snowDepth |-> 15]),
      Item(3, <<<<5, 0, 4, 1, 1>>>>, "evapoMaybeTranspiRation" :> 41),
      Item(3, <<<<5, 5, 3, 0, 4>>, <<2, 0, 9, 0, 1>>>>,
           [minutesOfSunshineLastHour |-> 24, globalSolarRadiationLastHour |-> 901]),
      Item(3, <<<<5, 5, 3, 1, 0>>, <<2, 1, 9, 0, 1>>, <<3, 0, 4, 0, 0>>>>,
           [minutesOfSunshineLastHour |-> 60, globalSolarRadiationLastHour |-> 1901,
            diffusedSolarRadiationLastHour |-> 400]),
      Item(3, <<<<5, 5, 3, 0, 1>>, <<1, 0, 0, 3, 0>>>>,
           [minutesOfSunshineLastHour |-> 6, netRadiationLastHour |-> -30]),
      Item(3, <<<<5, 5, 0, 4, 5>>, <<1, 0, 1, 5, 0>>>>,
           [minutesOfSunshineLastDay |-> 270, netRadiationLast24Hours |-> -150]),
      Item(3, <<<<5, 5, 1, 0, 2>>>>, "minutesOfSunshineLastDay" :> 612),
      Item(3, <<<<5, 5, 4, 0, 7>>, <<4, 0, 5, 1, 0>>>>, "shortWaveRadiationLastHour" :> 510),
      Item(3, <<<<5, 6, 9, 0, 2>>>>,
           [lowCloudsDrift |-> 9, mediumCloudsDrift |-> 0, highCloudsDrift |-> 2]),
      Item(3, <<<<5, 7, 1, 3, 4>>>>, "clouds" :> <<1, 3, 4>>),
      Item(3, <<<<6, 0, 0, 3, 5>>>>, RainItem(30, 1)),
      Item(3, <<<<7, 0, 1, 3, 7>>>>, RainItem(137, 24)),
      Item(3, <<<<8, 4, 6, 1, 8>>>>, "heightOfBaseOfClouds" :> <<6, 540, 4>>),
      Item(3, <<<<8, 2, 0, 6, 5>>>>, "heightOfBaseOfClouds" :> <<0, 4500, 2>>),
      Item(3, <<<<9, 0, 2, 0, 3>>, <<9, 3, 1, 1, 2>>>>, <<>>),
      Item(3, <<<<9, 0, 7, 1, 0>>, <<9, 1, 1, 2, 3>>>>, "gustObservations" :> <<23, 60>>),
      Item(3, <<<<9, 0, 7, 1, 0>>, <<9, 1, 1, 9, 9>>, <<0, 0, 1, 1, 5>>>>,
           "gustObservations" :> <<115, 60>>),
      Item(3, <<<<9, 1, 0, 1, 9>>>>, "gustObservations" :> <<19, 10>>),
      Item(4, <<<<0, 1, 2, 3, 4>>>>, <<>>),
      Item(5, <<<<6, 0, 0, 2, 4>>>>, RainItem(20, 24)),
      Item(5, <<<<9, 0, 7, 3, 0>>, <<9, 1, 1, 3, 1>>>>, "gustObservations" :> <<31, 180>>),
      Item(5, <<<<9, 0, 4, 1, 0>>, <<9, 1, 1, 4, 1>>>>, <<>>)>>
=============================================================================
