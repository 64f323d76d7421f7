------------------------------ MODULE Rainfall ------------------------------
(***************************************************************************)
(* The rain, of which a value that is stored says what fell since another: *)
(* the clicks of the gauges, the totals of the files since midnight or over*)
(* an hour, and the sums over a month and a year of the climatology.  A    *)
(* behaviour is about one of the three.                                    *)
(***************************************************************************)
EXTENDS RainGauges, DayRain, Climatology

Init ==
    \/ RainInit /\ DayRainIdle /\ ClimIdle
    \/ RainIdle /\ DayRainInit /\ ClimIdle
    \/ RainIdle /\ DayRainIdle /\ ClimInit
Next ==
    \/ RainNext /\ UNCHANGED <<rainFileVars, climVars>>
    \/ DayRainNext /\ UNCHANGED <<rainVars, climVars>>
    \/ ClimNext /\ UNCHANGED <<rainVars, rainFileVars>>
Spec == Init /\ [][Next]_<<rainVars, rainFileVars, climVars>>
=============================================================================
