------------------------------ MODULE TextFiles ------------------------------
(***************************************************************************)
(* What is read of the text files of the stations.  Most formats are a     *)
(* line of columns, of which the last ones are optional; two of them are   *)
(* lines of a name and a value.  Each value is written the way the         *)
(* station's software does it: a number, one with a decimal comma, nothing,*)
(* a placeholder for a missing value, or something else.                   *)
(***************************************************************************)
EXTENDS Integers, Sequences

CONSTANTS
    Formats,        \* the formats, a subset of AllFormats
    NoFormat        \* a behaviour about something else

ColumnFormats == {"weatherlink", "weathercat", "meteohub", "wswin", "weatherdisplay"}
LineFormats == {"meteobridge", "static"}
AllFormats == ColumnFormats \cup LineFormats
ASSUME TextAssumption == Formats \subseteq AllFormats

VARIABLES
    format,
    columns,    \* the writing of each value, see Writings
    fate,    \* "downloaded", "stored", "failed" or "thrown"
    observation \* measure -> what is stored of it, see Readings
textVars == <<format, columns, fate, observation>>

\* A placeholder is what cleanInput() removes: "---", "-99", "%name%".
Writings == {"number", "comma", "empty", "placeholder", "text", "huge"}

\* The columns, as the comments of the regular expressions name them, and the
\* lines of the two other formats.
Columns ==
    <<"temperature", "humidity", "dewpoint", "pressure", "tendency", "rainfall", "wind",
      "winddir", "gust", "windchill", "heatindex", "tx", "tn", "rainrate", "solarrad",
      "tx_hour", "tn_hour">>
Lines ==
    <<"temperature", "humidity", "dewpoint", "pressure", "winddir", "wind", "gust",
      "rainrate", "rainfall", "solarrad", "uv", "date">>
MeasuresOfFiles == {"temperature", "humidity", "dewpoint", "pressure", "rainfall", "wind", "winddir",
             "gust", "rainrate", "solarrad", "uv"}
Integral == {"humidity", "winddir", "solarrad", "uv"}

-----------------------------------------------------------------------------
(* The lines of columns                                                     *)

\* The columns the regular expression cannot do without.
MandatoryColumns == IF format \in {"weatherlink", "weathercat"} THEN 15 ELSE 11
OptionalColumns == CASE format \in {"weatherlink", "weathercat"} -> 0
              [] format = "weatherdisplay" -> 6 [] OTHER -> 4
HasOptionalPart == OptionalColumns > 0 /\ Len(columns) >= MandatoryColumns + OptionalColumns

\* The groups of the match that are read.
FromMandatoryPart ==
    [temperature |-> 1, humidity |-> 2, dewpoint |-> 3, pressure |-> 4, rainfall |-> 6,
     wind |-> 7, winddir |-> 8, gust |-> 9]
FromWholeMatch ==
    [temperature |-> 1, humidity |-> 2, dewpoint |-> 3, pressure |-> 4, rainfall |-> 6,
     wind |-> 7, winddir |-> 8, gust |-> 9, rainrate |-> 14, solarrad |-> 15]
ShiftedOptionalPart == [rainrate |-> 2, solarrad |-> 3]
FromOptionalPart == [rainrate |-> 3, solarrad |-> 4]

\* cleanInput
CleanInput(writing) ==
    CASE writing = "comma" -> "number" [] writing = "placeholder" -> "empty" [] OTHER -> writing
\* stof() and stoi() after cleanInput, in a try block or not.
ConvertOrThrow(writing) ==
    CASE CleanInput(writing) = "number" -> "value"
      [] CleanInput(writing) = "empty" -> "none"
      [] OTHER -> "exception"
Convert(writing) == IF CleanInput(writing) = "number" THEN "value" ELSE "none"

\* The others are left at their missing value.
ReadWhole ==
    [m \in MeasuresOfFiles |->
        IF m \in DOMAIN FromWholeMatch THEN Convert(columns[FromWholeMatch[m]]) ELSE "none"]
\* The optional part is converted in a try block, or throws.
ReadParts(throws) ==
    [m \in MeasuresOfFiles |->
        IF m \in DOMAIN FromMandatoryPart THEN Convert(columns[FromMandatoryPart[m]])
        ELSE IF HasOptionalPart /\ m \in DOMAIN FromOptionalPart
        THEN LET writing == columns[MandatoryColumns + FromOptionalPart[m]]
             IN  IF throws THEN ConvertOrThrow(writing) ELSE Convert(writing)
        ELSE "none"]
MBDataWeatherlinkMessage == ReadWhole
MBDataWeathercatMessage == ReadWhole
MBDataWsWinMessage == ReadParts(FALSE)
MBDataMeteohubMessage == ReadParts(TRUE)
MBDataWeatherDisplayMessage == ReadParts(TRUE)

-----------------------------------------------------------------------------
(* The lines of a name and a value                                          *)

LineOf(m) == columns[CHOOSE k \in DOMAIN Lines : Lines[k] = m]
\* A number is read up to its comma; only the rain's exceptions are all caught.
MBDataMeteobridgeMessage ==
    [m \in MeasuresOfFiles |->
        CASE LineOf(m) = "number" -> "value"
          [] LineOf(m) = "comma" -> IF m \in Integral THEN "value" ELSE "truncated"
          [] LineOf(m) = "huge" /\ m # "rainfall" -> "exception"
          [] OTHER -> "none"]
\* "empty values are equal to zero"; commas are replaced.
StatICMessage ==
    [m \in MeasuresOfFiles |->
        CASE LineOf(m) \in {"number", "comma"} -> "value"
          [] LineOf(m) = "empty" -> "zero"
          [] LineOf(m) = "huge" -> "exception"
          [] OTHER -> "none"]

-----------------------------------------------------------------------------
\* MBDataMessageFactory::chose
Chose ==
    CASE format = "weatherlink" -> MBDataWeatherlinkMessage
      [] format = "weathercat" -> MBDataWeathercatMessage
      [] format = "meteohub" -> MBDataMeteohubMessage
      [] format = "wswin" -> MBDataWsWinMessage
      [] format = "weatherdisplay" -> MBDataWeatherDisplayMessage
      [] format = "meteobridge" -> MBDataMeteobridgeMessage
      [] OTHER -> StatICMessage
IsValid ==
    IF format \in LineFormats THEN LineOf("date") = "number" ELSE Len(columns) >= MandatoryColumns
Throws(message) == \E m \in MeasuresOfFiles : message[m] = "exception"

\* getObservation: the measures, and what is computed from them if they are all there.
HasValue(message, m) == message[m] \notin {"none", "exception"}
HasAll(message, measures) == \A m \in measures : HasValue(message, m)
GetFileObservation(message) ==
    [m \in MeasuresOfFiles \cup {"insolation_time", "et"} |->
        CASE m = "dewpoint" ->
                IF ~HasValue(message, "dewpoint") /\ HasAll(message, {"temperature", "humidity"})
                THEN "computed" ELSE message["dewpoint"]
          [] m = "insolation_time" -> IF HasValue(message, "solarrad") THEN "computed" ELSE "none"
          [] m = "et" ->
                IF HasAll(message, {"temperature", "wind", "humidity", "solarrad"})
                THEN "computed" ELSE "none"
          [] OTHER -> message[m]]

\* doProcess: the exceptions of the conversions are not the ones that are caught.
ProcessFile ==
    /\ fate = "downloaded"
    /\ IF ~IsValid
       THEN fate' = "failed" /\ UNCHANGED observation
       ELSE IF Throws(Chose)
       THEN fate' = "thrown" /\ UNCHANGED observation
       ELSE fate' = "stored" /\ observation' = GetFileObservation(Chose)
    /\ UNCHANGED <<format, columns>>

\* Files of any length with one or two values that are not plain numbers.
Widths == IF format \in LineFormats THEN {Len(Lines)} ELSE 10..Len(Columns)
FileWritten(width, i, j, first, second) ==
    [k \in 1..width |-> IF k = i THEN first ELSE IF k = j THEN second ELSE "number"]
TextInit ==
    /\ format \in Formats
    /\ \E width \in Widths : \E i \in 1..width, j \in {1, width} :
        \E first \in Writings, second \in {"number", "empty"} :
            columns = FileWritten(width, i, j, first, second)
    /\ fate = "downloaded" /\ observation = <<>>
TextIdle == format = NoFormat /\ columns = <<>> /\ fate = "stored" /\ observation = <<>>
TextNext == ProcessFile

-----------------------------------------------------------------------------
(* Properties                                                               *)

Names == IF format \in LineFormats THEN Lines ELSE Columns
WritingOf(m) ==
    IF \E k \in DOMAIN columns : Names[k] = m
    THEN columns[CHOOSE k \in DOMAIN columns : Names[k] = m] ELSE "empty"

\* The optional columns are all read or none.
Unread(m) == format \in ColumnFormats /\ OptionalColumns > 0 /\ ~HasOptionalPart /\ m \in {"rainrate", "solarrad"}

\* What the value of a measure is, as it is written.
ReadAs(m) ==
    CASE WritingOf(m) = "number" -> "value"
      [] WritingOf(m) = "comma" ->
            IF format = "meteobridge" /\ m \notin Integral THEN "truncated" ELSE "value"
      [] WritingOf(m) = "empty" /\ format = "static" -> "zero"
      [] OTHER -> "none"

\* Each measure of a file that is stored is the one of the column, or line, of its
\* name, and a value that is missing or that is not a number is not stored: but
\* StatIC writes zeros that way, and a decimal comma cuts the numbers of the
\* Meteobridge.  A missing dew point is computed, where it can be.
FilesReadAsNamed ==
    format # NoFormat /\ fate = "stored" =>
        \A m \in MeasuresOfFiles :
            observation[m] =
                IF Unread(m) THEN "none"
                ELSE IF /\ m = "dewpoint" /\ ReadAs(m) = "none"
                        /\ observation["temperature"] # "none" /\ observation["humidity"] # "none"
                THEN "computed" ELSE ReadAs(m)

\* A value that cannot be read costs that value only, and not the other measures of
\* its file nor the files after it: but for the optional columns of two formats,
\* and the numbers out of range of the two others.
IllegibleCostsItself ==
    format # NoFormat /\ fate = "thrown" =>
        \/ format \in {"meteohub", "weatherdisplay"}
           /\ \E m \in {"rainrate", "solarrad"} : WritingOf(m) \in {"text", "huge"}
        \/ format \in LineFormats /\ \E m \in MeasuresOfFiles : WritingOf(m) = "huge"

\* A file is stored as it is written, however much of it is illegible, but for the
\* exceptions above.
FilesFollowWritings == FilesReadAsNamed /\ IllegibleCostsItself
=============================================================================
