---------------------------- MODULE Observations ----------------------------
(***************************************************************************)
(* What becomes an observation: the payloads of the sensors, the SYNOP     *)
(* reports, the pages of the Weatherlink and FieldClimate APIs, the        *)
(* records of the VantagePro2 consoles and the text files each have their  *)
(* decoder, and the decoders share nothing but the observation they fill.  *)
(* A behaviour is that of one of them; the others are idle.                *)
(***************************************************************************)
EXTENDS SensorMessages, SynopParser, WeatherlinkMessages, TextFiles, ArchiveRecords,
        FieldClimateMessages

Init ==
    \/ SensorInit /\ SynopIdle /\ WlIdle /\ TextIdle /\ RecordsIdle /\ FcIdle
    \/ SensorIdle /\ SynopInit /\ WlIdle /\ TextIdle /\ RecordsIdle /\ FcIdle
    \/ SensorIdle /\ SynopIdle /\ WlInit /\ TextIdle /\ RecordsIdle /\ FcIdle
    \/ SensorIdle /\ SynopIdle /\ WlIdle /\ TextInit /\ RecordsIdle /\ FcIdle
    \/ SensorIdle /\ SynopIdle /\ WlIdle /\ TextIdle /\ RecordsInit /\ FcIdle
    \/ SensorIdle /\ SynopIdle /\ WlIdle /\ TextIdle /\ RecordsIdle /\ FcInit
Next ==
    \/ SensorNext /\ UNCHANGED <<synopVars, wlVars, textVars, recordVars, fcVars>>
    \/ SynopNext /\ UNCHANGED <<msgVars, wlVars, textVars, recordVars, fcVars>>
    \/ WlNext /\ UNCHANGED <<msgVars, synopVars, textVars, recordVars, fcVars>>
    \/ TextNext /\ UNCHANGED <<msgVars, synopVars, wlVars, recordVars, fcVars>>
    \/ RecordsNext /\ UNCHANGED <<msgVars, synopVars, wlVars, textVars, fcVars>>
    \/ FcNext /\ UNCHANGED <<msgVars, synopVars, wlVars, textVars, recordVars>>
Spec == Init /\ [][Next]_<<msgVars, synopVars, wlVars, textVars, recordVars, fcVars>>

\* A record of a station and a date of a page become the observation of that time,
\* of what the station has measured: RecordsFollowConsole for the consoles, and
\* FieldClimateFollowsSensors for the API, with the exceptions they name.
ArchivesFollowStations == RecordsFollowConsole /\ FieldClimateFollowsSensors
=============================================================================
