-------------------------- MODULE Observations_proofs --------------------------
(***************************************************************************)
(* Proofs about the decoders, for any consoles, dates, files and sensors.  *)
(*                                                                         *)
(* A record of a console is what the console has measured, written as      *)
(* words: the words are read back one field at a time (FieldIsRead), the   *)
(* time through the changes of the year (TimeIsReadBack), and both stay    *)
(* true of the records in the memory and of those stored, RecordsInv.  A   *)
(* page of the FieldClimate API, FcInv, and a file, TextInv, are read in   *)
(* one step.  Those of the Weatherlink APIs, WlInv, are parsed in one and  *)
(* inserted in another: the last message that has a measure prevails, and  *)
(* the sort says which one is the last.  Numbers of 16 bits are for the    *)
(* SMT solver only.                                                        *)
(***************************************************************************)
EXTENDS Observations, NumberSets

-----------------------------------------------------------------------------
(* The clock of a console                                                   *)

LEMMA OffsetsAreIntegers ==
  ASSUME NEW s \in Settings, NEW t \in Int
  PROVE  TimeOffset(s) \in Int /\ ZoneOffset(s, t) \in Int
<1>1. s.timeZone \in 0..46 /\ s.gmtOffset \in Int
  BY RecordsAssumption
<1>2. TimeOffsets[s.timeZone + 1] \in Int
  BY <1>1 DEF TimeOffsets
<1>3. Hours(s.gmtOffset) \in Int /\ Minutes(s.gmtOffset) \div 30 \in Int
  BY <1>1 DEF Hours, Minutes
<1> QED
  BY <1>2, <1>3 DEF TimeOffset, ZoneOffset, VantageTimezoneIndex2Offset

\* The clock of a console that the server has set shows the local time, and goes on
\* showing it through the changes of the year.
LEMMA ClockFollows ==
  ASSUME NEW s \in Settings, NEW t \in Int
  PROVE  ConvertToLocalTime(s, t + 1) - (t + 1)
         = ConvertToLocalTime(s, t) - t + (IF ByTimezone(s) THEN Change(t + 1) ELSE 0)
<1>1. Spring \in Int /\ Autumn \in Int /\ Spring < Autumn
  BY RecordsAssumption
<1>2. TimeOffset(s) \in Int /\ VantageTimezoneIndex2Offset(s.timeZone) \in Int
  <2>1. s.timeZone \in 0..46
    BY RecordsAssumption
  <2> QED
    BY <2>1, OffsetsAreIntegers DEF TimeOffsets, VantageTimezoneIndex2Offset
<1>3. CASE ByTimezone(s)
  BY <1>1, <1>2, <1>3 DEF ConvertToLocalTime, ZoneOffset, Change
<1>4. CASE ~ByTimezone(s)
  BY <1>2, <1>4 DEF ConvertToLocalTime
<1> QED
  BY <1>3, <1>4

\* Max, where there is one.
LEMMA GreatestIs ==
  ASSUME NEW S, S \subseteq Int, NEW m \in S, \A n \in S : n <= m
  PROVE  Max(S) = m
<1>1. Max(S) \in S /\ \A n \in S : Max(S) >= n
  BY DEF Max
<1>2. Max(S) \in Int /\ m \in Int /\ Max(S) >= m /\ m >= Max(S)
  BY <1>1
<1> QED
  BY <1>2

\* The local time is read back as the time it was made of, or an hour after it when the
\* clock was to show it again.
LEMMA TimeIsReadBack ==
  ASSUME NEW s \in Settings, NEW t \in 1..LastTime
  PROVE  ConvertFromLocalTime(s, ConvertToLocalTime(s, t))
         = t + (IF ByTimezone(s) /\ t >= Autumn - 2 /\ t < Autumn THEN 2 ELSE 0)
<1>1. /\ Spring \in Int /\ Autumn \in Int /\ LastTime \in Int
      /\ 0 < Spring /\ Spring + 2 <= Autumn /\ Autumn < LastTime
  BY RecordsAssumption
<1>2. TimeOffset(s) \in Int /\ VantageTimezoneIndex2Offset(s.timeZone) \in Int
  <2>1. s.timeZone \in 0..46
    BY RecordsAssumption
  <2> QED
    BY <2>1, OffsetsAreIntegers DEF TimeOffsets, VantageTimezoneIndex2Offset
<1>3. CASE ~ByTimezone(s)
  BY <1>2, <1>3 DEF ConvertToLocalTime, ConvertFromLocalTime
<1>4. CASE ByTimezone(s)
  <2> DEFINE local == ConvertToLocalTime(s, t)
             read == t + (IF t >= Autumn - 2 /\ t < Autumn THEN 2 ELSE 0)
  <2>1. local = t + ZoneOffset(s, t)
    BY <1>4 DEF ConvertToLocalTime
  <2>2. t \in TimesShown(s, local) /\ read \in TimesShown(s, local)
    BY <1>1, <1>2, <2>1 DEF TimesShown, ZoneOffset
  <2>3. ASSUME NEW n \in TimesShown(s, local) PROVE n <= read
    BY <1>1, <1>2, <2>1 DEF TimesShown, ZoneOffset
  <2>4. TimesShown(s, local) \subseteq Int
    BY <1>1 DEF TimesShown
  <2>5. Max(TimesShown(s, local)) = read
    <3> HIDE DEF read, local
    <3> QED
      BY <2>2, <2>3, <2>4, GreatestIs
  <2> QED
    BY <1>4, <2>2, <2>5 DEF ConvertFromLocalTime
<1> QED
  BY <1>3, <1>4

-----------------------------------------------------------------------------
(* The words of a record                                                    *)

LEMMA BytesApart ==
  ASSUME NEW q \in Bytes255
  PROVE  /\ q # "leafWetness" /\ q # "barometer" /\ q # "maxOutsideTemp" /\ q # "maxRainRate"
         /\ q # "minOutsideTemp" /\ q # "outsideTemp" /\ q # "insideTemp" /\ q # "solarRad"
         /\ q # "rainfall" /\ q # "et" /\ q \notin Words32767
BY SMT DEF Bytes255, ByteTemperatures, Words32767

LEMMA PositiveWord == ASSUME NEW v \in Int, v >= 0, v <= 65535 PROVE Uint16(v) = v
BY SMT DEF Uint16
LEMMA NegativeWord == ASSUME NEW v \in Int, v < 0, v >= -32767 PROVE Uint16(v) = v + 65536
BY SMT DEF Uint16
LEMMA SignedWord ==
  ASSUME NEW v \in Int, v >= -32767, v <= 32766
  PROVE  Uint16(v) \in Int /\ Int16(Uint16(v)) = v /\ Uint16(v) # 32767
<1>1. CASE v < 0
  BY SMT, <1>1, NegativeWord DEF Int16
<1>2. CASE v >= 0
  BY SMT, <1>2, PositiveWord DEF Int16
<1> QED
  BY SMT, <1>1, <1>2

LEMMA ByteTemperatureIsRead ==
  ASSUME NEW q \in ByteTemperatures, NEW v \in Int, v <= 164
  PROVE  IsMeasured(q, v + 90) /\ Field(q, v + 90) = v
<1>1. q \in Bytes255
  BY SMT DEF Bytes255
<1>2. v + 90 # 255
  BY SMT
<1>4. Field(q, v + 90) = v
  <2>1. ASSUME NEW w \in Int PROVE Field(q, w) = w - 90
    BY SMT, <1>1, BytesApart DEF Field
  <2>2. Field(q, v + 90) = (v + 90) - 90
    BY SMT, <2>1
  <2> QED
    BY SMT, <2>2
<1>5. IsMeasured(q, v + 90)
  BY SMT, <1>1, <1>2, BytesApart DEF IsMeasured
<1> QED
  BY SMT, <1>4, <1>5

LEMMA SignedIsRead ==
  ASSUME NEW q \in {"minOutsideTemp", "maxOutsideTemp"}, NEW v \in Int, v >= -32767, v <= 32766
  PROVE  IsMeasured(q, Uint16(v)) /\ Field(q, Uint16(v)) = v
<1>1. q \notin Bytes255 /\ q \notin ByteTemperatures
  BY SMT, BytesApart DEF Bytes255
<1>2. Uint16(v) \in Int /\ Int16(Uint16(v)) = v /\ Uint16(v) # 32767
  BY SMT, SignedWord
<1>3. IsMeasured(q, Uint16(v))
  BY SMT, <1>1, <1>2 DEF IsMeasured, Words32767
<1>4. Field(q, Uint16(v)) = Int16(Uint16(v))
  BY SMT, <1>1 DEF Field
<1> QED
  BY SMT, <1>2, <1>3, <1>4

LEMMA UnsignedIsRead ==
  ASSUME NEW q \in ArchiveDataPoint, NEW v \in Int, v >= 0, CanMeasure(q, v),
         q \notin ByteTemperatures, q # "minOutsideTemp", q # "maxOutsideTemp"
  PROVE  IsMeasured(q, Uint16(v)) /\ Field(q, Uint16(v)) = v
<1>0. v <= 65535
  BY SMT DEF CanMeasure
<1>1. Uint16(v) = v
  BY SMT, <1>0, PositiveWord
<1>2. Field(q, v) = v
  BY SMT DEF Field
<1>3. q \in Words32767 => v # 32767
  BY SMT DEF CanMeasure, Words32767, Temperatures
<1>4. q \in Bytes255 => v # 255
  BY SMT DEF CanMeasure
<1>5. q # "maxOutsideTemp" /\ (q = "leafWetness" => v >= 0 /\ v <= 15)
      /\ (q = "barometer" => v # 0) /\ (q = "maxRainRate" => v # 65535)
  BY SMT DEF CanMeasure
<1>6. IsMeasured(q, v)
  BY SMT, <1>3, <1>4, <1>5 DEF IsMeasured
<1> QED
  BY SMT, <1>1, <1>2, <1>6

\* What is not measured.
LEMMA DashIsRead ==
  ASSUME NEW q \in ArchiveDataPoint \ {"rainfall", "et"}
  PROVE  ~IsMeasured(q, Word(q, Dash))
<1>1. Word(q, Dash) = DashWord(q)
  BY SMT DEF Word
<1>2. CASE q \in Bytes255
  <2>1. DashWord(q) = 255
    BY SMT, <1>2, BytesApart DEF DashWord
  <2> QED
    BY SMT, <1>1, <1>2, <2>1 DEF IsMeasured
<1>3. CASE q = "leafWetness"
  <2>1. DashWord(q) = 255
    BY SMT, <1>3, BytesApart DEF DashWord
  <2> QED
    BY SMT, <1>1, <1>3, <2>1 DEF IsMeasured
<1>4. CASE q \in Words32767
  <2>1. q \notin Bytes255 /\ q \notin {"leafWetness", "barometer", "maxOutsideTemp", "maxRainRate"}
    BY SMT, <1>4, BytesApart DEF Words32767
  <2>2. DashWord(q) = 32767
    BY SMT, <2>1 DEF DashWord
  <2> QED
    BY SMT, <1>1, <1>4, <2>2 DEF IsMeasured
<1>5. CASE q = "barometer"
  <2>1. DashWord(q) = 0
    BY SMT, <1>5, BytesApart DEF DashWord
  <2> QED
    BY SMT, <1>1, <1>5, <2>1 DEF IsMeasured
<1>6. CASE q = "maxOutsideTemp"
  <2>1. DashWord(q) = 32768
    BY SMT, <1>6, BytesApart DEF DashWord
  <2>2. Int16(32768) = -32768
    BY SMT DEF Int16
  <2> QED
    BY SMT, <1>1, <1>6, <2>1, <2>2 DEF IsMeasured
<1>7. CASE q = "maxRainRate"
  <2>1. DashWord(q) = 65535
    BY SMT, <1>7, BytesApart DEF DashWord
  <2> QED
    BY SMT, <1>1, <1>7, <2>1 DEF IsMeasured
<1>8. \/ q \in Bytes255 \/ q = "leafWetness" \/ q \in Words32767 \/ q = "barometer"
      \/ q = "maxOutsideTemp" \/ q = "maxRainRate"
  BY SMT DEF ArchiveDataPoint, Temperatures, Words32767
<1> QED
  BY <1>2, <1>3, <1>4, <1>5, <1>6, <1>7, <1>8


LEMMA FieldIsRead ==
  ASSUME NEW q \in ArchiveDataPoint, NEW v,
         CanMeasure(q, v) \/ (v = Dash /\ q \notin {"rainfall", "et"}),
         ~(q \in {"outsideTemp", "insideTemp"} /\ v # Dash /\ v < 0)
  PROVE  /\ IsMeasured(q, Word(q, v)) <=> v # Dash
         /\ v # Dash => Field(q, Word(q, v)) = v
<1>1. CASE v = Dash
  <2>1. Dash \notin Int
    BY SMT, RecordsAssumption DEF RecordsAssumption
  <2>2. CanMeasure(q, v) => v \in Int
    BY SMT DEF CanMeasure
  <2>3. q \in ArchiveDataPoint \ {"rainfall", "et"}
    BY SMT, <1>1, <2>1, <2>2
  <2> QED
    BY SMT, <1>1, <2>3, DashIsRead
<1>2. CASE v # Dash
  <2>1. CanMeasure(q, v) /\ v \in Int
    BY SMT, <1>2 DEF CanMeasure
  <2>2. CASE q \in ByteTemperatures
    <3>1. v <= 164
      BY SMT, <2>1, <2>2 DEF CanMeasure
    <3>2. Word(q, v) = v + 90
      BY SMT, <1>2, <2>2 DEF Word
    <3> QED
      BY SMT, <1>2, <2>1, <2>2, <3>1, <3>2, ByteTemperatureIsRead
  <2>3. CASE q \notin ByteTemperatures
    <3>1. Word(q, v) = Uint16(v)
      BY SMT, <1>2, <2>3 DEF Word
    <3>2. CASE q \in {"minOutsideTemp", "maxOutsideTemp"}
      <4>1. v >= -32767 /\ v <= 32766
        BY SMT, <2>1, <3>2 DEF CanMeasure, Temperatures
      <4> QED
        BY SMT, <1>2, <2>1, <3>1, <3>2, <4>1, SignedIsRead
    <3>3. CASE q # "minOutsideTemp" /\ q # "maxOutsideTemp"
      <4>1. v >= 0
        <5>1. q \in {"outsideTemp", "insideTemp"} \/ q \in Bytes255 \ ByteTemperatures
              \/ q \in {"leafWetness", "barometer", "rainfall", "et", "maxRainRate", "solarRad"}
          BY SMT, <2>3, <3>3 DEF ArchiveDataPoint, Temperatures
        <5> QED
          BY SMT, <1>2, <2>1, <5>1 DEF CanMeasure
      <4> QED
        BY SMT, <1>2, <2>1, <2>3, <3>1, <3>3, <4>1, UnsignedIsRead
    <3> QED
      BY SMT, <3>2, <3>3
  <2> QED
    BY SMT, <2>2, <2>3
<1> QED
  BY SMT, <1>1, <1>2
LEMMA SourcesAreFields ==
  ASSUME NEW m, NEW c \in DOMAIN RecordColumns
  PROVE  SourcesOf(m, c) \subseteq ArchiveDataPoint
<1>1. RecordColumns[c] \subseteq ArchiveDataPoint
  BY SMT DEF RecordColumns, ArchiveDataPoint, Temperatures, Bytes255, ByteTemperatures
<1>2. "insideTemp" \in ArchiveDataPoint
  BY SMT DEF ArchiveDataPoint, Temperatures
<1>3. SourcesOf(m, c) \in {{}, {"insideTemp"}, RecordColumns[c]}
  BY Zenon DEF SourcesOf
<1> QED
  BY SMT, <1>1, <1>2, <1>3

\* A column is computed from the fields as they were measured, or is absent.
LEMMA ColumnIsMeasured ==
  ASSUME NEW m \in ConsoleMeasures, NEW c \in DOMAIN RecordColumns, ~Unfaithful(m, c)
  PROVE  GetRecord(m, [q \in ArchiveDataPoint |-> Word(q, m.values[q])])[c] = MeasuredColumn(m, c)
<1> DEFINE words == [q \in ArchiveDataPoint |-> Word(q, m.values[q])]
           sources == SourcesOf(m, c)
<1>1. sources \subseteq ArchiveDataPoint
  BY SourcesAreFields
<1>2. ASSUME NEW q \in sources
      PROVE  /\ IsMeasured(q, words[q]) <=> m.values[q] # Dash
             /\ m.values[q] # Dash => Field(q, words[q]) = m.values[q]
  <2>1. words[q] = Word(q, m.values[q]) /\ q \in ArchiveDataPoint
    BY <1>1
  <2>2. CanMeasure(q, m.values[q]) \/ (m.values[q] = Dash /\ q \notin {"rainfall", "et"})
    BY <2>1, RecordsAssumption DEF RecordsAssumption
  <2>3. ~(q \in {"outsideTemp", "insideTemp"} /\ m.values[q] # Dash /\ m.values[q] < 0)
    BY DEF Unfaithful
  <2> QED
    BY <2>1, <2>2, <2>3, FieldIsRead
<1>3. GetRecord(m, words)[c] =
        IF sources # {} /\ \A q \in sources : IsMeasured(q, words[q])
        THEN [q \in sources |-> Field(q, words[q])] ELSE Absent
  BY DEF GetRecord
<1> HIDE DEF words, sources
<1>4. CASE sources # {} /\ \A q \in sources : m.values[q] # Dash
  <2>1. GetRecord(m, words)[c] = [q \in sources |-> Field(q, words[q])]
    BY <1>2, <1>3, <1>4
  <2>2. [q \in sources |-> Field(q, words[q])] = [q \in sources |-> m.values[q]]
    BY <1>2, <1>4
  <2>3. MeasuredColumn(m, c) = [q \in sources |-> m.values[q]]
    BY <1>4 DEF MeasuredColumn, sources
  <2> QED
    BY <2>1, <2>2, <2>3 DEF words
<1>5. CASE ~(sources # {} /\ \A q \in sources : m.values[q] # Dash)
  <2>1. GetRecord(m, words)[c] = Absent
    BY <1>2, <1>3, <1>5
  <2>2. MeasuredColumn(m, c) = Absent
    BY <1>5 DEF MeasuredColumn, sources
  <2> QED
    BY <2>1, <2>2 DEF words
<1> QED
  BY <1>4, <1>5

-----------------------------------------------------------------------------
(* The consoles                                                             *)

\* What the console in place has written, or may write.
ConsoleRecords ==
    {r \in [at : 1..LastTime, wall : Int, agreed : BOOLEAN,
            words : {[q \in ArchiveDataPoint |-> Word(q, measure.values[q])]}] :
        r.agreed => r.wall = ConvertToLocalTime(setting, r.at)}
ConsoleInv ==
    /\ setting \in Settings /\ measure \in ConsoleMeasures
    /\ utc \in 1..LastTime /\ clock \in Int /\ agreed \in BOOLEAN
    /\ agreed => clock = ConvertToLocalTime(setting, utc) - utc
    /\ memory \in Seq(ConsoleRecords)
    /\ \A t \in DOMAIN archived :
          \E r \in ConsoleRecords : archived[t] = Stored(r) /\ t = TimeOf(r)
RecordsInv == (setting = NoConsole /\ archived = <<>>) \/ ConsoleInv

LEMMA LocalTimeIsInteger ==
  ASSUME NEW s \in Settings, NEW t \in Int
  PROVE  ConvertToLocalTime(s, t) \in Int
BY OffsetsAreIntegers DEF ConvertToLocalTime

LEMMA RecordsStart == RecordsInit \/ RecordsIdle => RecordsInv
<1>1. CASE RecordsIdle
  BY <1>1 DEF RecordsIdle, RecordsInv
<1>2. CASE RecordsInit
  <2>1. LastTime \in Nat /\ LastTime >= 3
    BY RecordsAssumption DEF RecordsAssumption
  <2>2. utc \in 1..LastTime
    BY <1>2, <2>1 DEF RecordsInit
  <2>3. clock \in Int
    <3>1. PICK error \in {0, 2} : clock = ConvertToLocalTime(setting, utc) - utc + error
      BY <1>2 DEF RecordsInit
    <3>2. setting \in Settings /\ utc \in Int /\ error \in Int
      BY <1>2, <2>2 DEF RecordsInit
    <3> QED
      BY <3>1, <3>2, LocalTimeIsInteger
  <2>4. memory \in Seq(ConsoleRecords)
    BY <1>2 DEF RecordsInit
  <2>5. DOMAIN archived = {} /\ agreed = FALSE /\ setting \in Settings /\ measure \in ConsoleMeasures
    BY <1>2 DEF RecordsInit
  <2>6. ConsoleInv
    BY <2>2, <2>3, <2>4, <2>5 DEF ConsoleInv
  <2> QED
    BY <2>6 DEF RecordsInv
<1> QED
  BY <1>1, <1>2

\* What the console is made of does not change.
LEMMA SameConsole ==
  ASSUME UNCHANGED <<setting, measure>>
  PROVE  /\ ConsoleRecords' = ConsoleRecords
         /\ \A r : Stored(r)' = Stored(r) /\ TimeOf(r)' = TimeOf(r)
BY DEF ConsoleRecords, Stored, TimeOf

LEMMA DownloadKeeps ==
  ASSUME ConsoleInv, DownloadRecords
  PROVE  ConsoleInv'
<1>1. UNCHANGED <<setting, measure, utc, clock, agreed, memory>>
  BY DEF DownloadRecords
<1>2. /\ ConsoleRecords' = ConsoleRecords
      /\ \A r : Stored(r)' = Stored(r) /\ TimeOf(r)' = TimeOf(r)
  BY <1>1, SameConsole
<1>3. PICK inserted \in SUBSET (DOMAIN memory) : InsertRecords(inserted)
  BY DEF DownloadRecords, AskedRecords
<1> DEFINE Of(t) == {i \in inserted : TimeOf(memory[i]) = t}
           new == {TimeOf(memory[i]) : i \in inserted}
<1>4. archived' = [t \in DOMAIN archived \cup new |->
                      IF t \in new THEN Stored(memory[Max(Of(t))]) ELSE archived[t]]
  BY <1>3 DEF InsertRecords
<1>5. ASSUME NEW t \in new PROVE Max(Of(t)) \in Of(t)
  <2>1. Of(t) \subseteq 0..Len(memory) /\ Of(t) # {} /\ Len(memory) \in Nat
    BY DEF ConsoleInv
  <2>2. PICK m \in Of(t) : \A n \in Of(t) : n <= m
    <3> HIDE DEF Of
    <3> QED
      BY <2>1, GreatestNumber
  <2>3. Of(t) \subseteq Int
    BY <2>1
  <2> HIDE DEF Of
  <2> QED
    BY <2>2, <2>3, GreatestIs
<1>6. ASSUME NEW t \in DOMAIN archived'
      PROVE  \E r \in ConsoleRecords : archived'[t] = Stored(r) /\ t = TimeOf(r)
  <2>1. t \in DOMAIN archived \cup new
    BY <1>4
  <2>2. CASE t \in new
    <3>1. archived'[t] = Stored(memory[Max(Of(t))])
      BY <1>4, <2>2
    <3>2. Max(Of(t)) \in DOMAIN memory /\ TimeOf(memory[Max(Of(t))]) = t
      BY <1>5, <2>2
    <3>3. memory[Max(Of(t))] \in ConsoleRecords
      BY <3>2 DEF ConsoleInv
    <3> QED
      BY <3>1, <3>2, <3>3
  <2>3. CASE t \notin new
    <3>1. archived'[t] = archived[t] /\ t \in DOMAIN archived
      BY <1>4, <2>1, <2>3
    <3> QED
      BY <3>1 DEF ConsoleInv
  <2> QED
    BY <2>2, <2>3
<1> HIDE DEF new, Of
<1> QED
  BY <1>1, <1>2, <1>6 DEF ConsoleInv

LEMMA RecordsStep == RecordsInv /\ [RecordsNext]_recordVars => RecordsInv'
<1> SUFFICES ASSUME RecordsInv, [RecordsNext]_recordVars PROVE RecordsInv'
  OBVIOUS
<1>1. CASE UNCHANGED recordVars
  <2>1. ConsoleInv => ConsoleInv'
    <3>1. /\ ConsoleRecords' = ConsoleRecords
          /\ \A r : Stored(r)' = Stored(r) /\ TimeOf(r)' = TimeOf(r)
      BY <1>1, SameConsole DEF recordVars
    <3> QED
      BY <1>1, <3>1 DEF ConsoleInv, recordVars
  <2> QED
    BY <1>1, <2>1 DEF RecordsInv, recordVars
<1>2. CASE RecordsNext
  <2>1. ConsoleInv
    BY <1>2 DEF RecordsInv, RecordsNext
  <2>2. CASE ConsoleTick
    <3>1. /\ ConsoleRecords' = ConsoleRecords
          /\ \A r : Stored(r)' = Stored(r) /\ TimeOf(r)' = TimeOf(r)
      BY <2>2, SameConsole DEF ConsoleTick
    <3>2. utc' \in 1..LastTime /\ utc' = utc + 1
      BY <2>1, <2>2, RecordsAssumption DEF ConsoleInv, ConsoleTick, RecordsAssumption
    <3>3. clock' = clock + IF ByTimezone(setting) THEN Change(utc + 1) ELSE 0
      BY <2>2, <3>2 DEF ConsoleTick
    <3>4. clock' \in Int
      BY <2>1, <3>3 DEF ConsoleInv, Change
    <3>5. agreed' => clock' = ConvertToLocalTime(setting, utc') - utc'
      <4>1. setting \in Settings /\ utc \in Int /\ setting' = setting /\ agreed' = agreed
        BY <2>1, <2>2 DEF ConsoleInv, ConsoleTick
      <4>2. ConvertToLocalTime(setting', utc') - utc'
            = ConvertToLocalTime(setting, utc) - utc
              + (IF ByTimezone(setting) THEN Change(utc + 1) ELSE 0)
        BY <3>2, <4>1, ClockFollows
      <4>3. agreed => clock = ConvertToLocalTime(setting, utc) - utc
        BY <2>1 DEF ConsoleInv
      <4> QED
        BY <3>3, <4>1, <4>2, <4>3
    <3> QED
      BY <2>1, <2>2, <3>1, <3>2, <3>4, <3>5 DEF ConsoleInv, RecordsInv, ConsoleTick
  <2>3. CASE WriteRecord
    <3>1. /\ ConsoleRecords' = ConsoleRecords
          /\ \A r : Stored(r)' = Stored(r) /\ TimeOf(r)' = TimeOf(r)
      BY <2>3, SameConsole DEF WriteRecord
    <3> DEFINE words == [q \in ArchiveDataPoint |-> Word(q, measure.values[q])]
               record == [at |-> utc, wall |-> utc + clock, agreed |-> agreed, words |-> words]
    <3>2. memory' = Append(memory, record)
      BY <2>3 DEF WriteRecord
    <3>3. record \in ConsoleRecords
      <4>1. agreed => utc + clock = ConvertToLocalTime(setting, utc)
        BY <2>1, LocalTimeIsInteger DEF ConsoleInv
      <4>2. utc + clock \in Int
        BY <2>1 DEF ConsoleInv
      <4> HIDE DEF words
      <4>3. record \in [at : 1..LastTime, wall : Int, agreed : BOOLEAN, words : {words}]
        BY <2>1, <4>2 DEF ConsoleInv
      <4> QED
        BY <4>1, <4>3 DEF ConsoleRecords, words
    <3>4. memory' \in Seq(ConsoleRecords)
      <4> HIDE DEF record
      <4> QED
        BY <2>1, <3>2, <3>3 DEF ConsoleInv
    <3> QED
      BY <2>1, <2>3, <3>1, <3>4 DEF ConsoleInv, RecordsInv, WriteRecord
  <2>4. CASE SetTime
    <3>1. /\ ConsoleRecords' = ConsoleRecords
          /\ \A r : Stored(r)' = Stored(r) /\ TimeOf(r)' = TimeOf(r)
      BY <2>4, SameConsole DEF SetTime
    <3>2. clock' \in Int
      BY <2>1, <2>4, LocalTimeIsInteger DEF ConsoleInv, SetTime
    <3> QED
      BY <2>1, <2>4, <3>1, <3>2 DEF ConsoleInv, RecordsInv, SetTime
  <2>5. CASE DownloadRecords
    BY <2>1, <2>5, DownloadKeeps DEF RecordsInv
  <2> QED
    BY <1>2, <2>2, <2>3, <2>4, <2>5 DEF RecordsNext
<1> QED
  BY <1>1, <1>2

LEMMA RecordsImply == RecordsInv => RecordsFollowConsole
<1> SUFFICES ASSUME RecordsInv, NEW t \in DOMAIN archived
             PROVE  LET r == archived[t].record
                    IN  /\ r.agreed => t = r.at + (IF ShownAgain(r) THEN 2 ELSE 0)
                        /\ \A c \in DOMAIN RecordColumns :
                              ~Unfaithful(measure, c) =>
                                  archived[t].columns[c] = MeasuredColumn(measure, c)
  BY DEF RecordsFollowConsole
<1>1. ConsoleInv
  BY DEF RecordsInv
<1>2. PICK r \in ConsoleRecords : archived[t] = Stored(r) /\ t = TimeOf(r)
  BY <1>1 DEF ConsoleInv
<1>3. archived[t].record = r /\ archived[t].columns = GetRecord(measure, r.words)
  BY <1>2 DEF Stored
<1>4. r.agreed => t = r.at + (IF ShownAgain(r) THEN 2 ELSE 0)
  BY <1>1, <1>2, TimeIsReadBack DEF ConsoleInv, ConsoleRecords, TimeOf, ShownAgain
<1>5. ASSUME NEW c \in DOMAIN RecordColumns, ~Unfaithful(measure, c)
      PROVE  archived[t].columns[c] = MeasuredColumn(measure, c)
  <2>1. r.words = [q \in ArchiveDataPoint |-> Word(q, measure.values[q])]
    BY <1>2 DEF ConsoleRecords
  <2> QED
    BY <1>1, <1>3, <1>5, <2>1, ColumnIsMeasured DEF ConsoleInv
<1> QED
  BY <1>3, <1>4, <1>5

-----------------------------------------------------------------------------
(* The pages of the FieldClimate API                                        *)

LEMMA NeededAreMembers ==
  ASSUME NEW c \in DOMAIN MessageColumns
  PROVE  MessageColumns[c] \subseteq Members
BY SMT DEF MessageColumns, Members, Lookups

LEMMA SolarRadIsMember == "solarRad" \in Members
BY SMT DEF Members, Lookups

\* A member has its value, at its date, or its default.
LEMMA MemberIsRead ==
  ASSUME NEW m \in Members, NEW i \in 1..NbDates
  PROVE  LET obs == IngestDate(i)
             lost == m \in IntegerMembers /\ decimals
         IN  /\ obs[m] = InvalidDefault <=> lost \/ ~Known(m, i)
             /\ obs[m] # InvalidDefault => obs[m] = Output(m, i)
             /\ obs[m] # InvalidDefault => obs[m] \in AllValues(NbDates)
<1>1. Output(m, i) \in AllValues(NbDates)
  BY DEF AllValues
<1>2. Output(m, i) # InvalidDefault
  BY <1>1, FieldClimateAssumption DEF FieldClimateAssumption
<1>3. Output(m, i)[1] = Lookups[m][1]
  BY DEF Output
<1>4. IngestDate(i)[m] = ValueOf(m, Output(m, i))
  BY DEF IngestDate, ValueForSensor
<1>5. ValueOf(m, Output(m, i)) =
        IF ~Known(m, i) \/ (m \in IntegerMembers /\ decimals) THEN InvalidDefault ELSE Output(m, i)
  BY <1>3 DEF ValueOf, Known
<1> HIDE DEF IntegerMembers
<1> QED
  BY <1>1, <1>2, <1>4, <1>5

\* A column is made of the values of all its members, or is the default.
LEMMA ColumnIsComputed ==
  ASSUME NEW c \in DOMAIN MessageColumns, NEW radiation \in SUBSET {"solarRad"},
         NEW i \in 1..NbDates
  PROVE  LET obs == IngestDate(i)
             members == MessageColumns[c] \cup radiation
         IN  /\ MessageColumn(obs, members) = InvalidDefault
                <=> \E m \in members : obs[m] = InvalidDefault
             /\ MessageColumn(obs, members) # InvalidDefault =>
                   /\ DOMAIN MessageColumn(obs, members) = members
                   /\ \A m \in members :
                         Known(m, i) /\ MessageColumn(obs, members)[m] = Output(m, i)
<1> DEFINE obs == IngestDate(i)
           members == MessageColumns[c] \cup radiation
<1>1. members \subseteq Members
  BY NeededAreMembers, SolarRadIsMember
<1>2. InvalidDefault \notin [members -> AllValues(NbDates)]
  BY FieldClimateAssumption DEF FieldClimateAssumption
<1>3. \A m \in members : /\ obs[m] # InvalidDefault => Known(m, i) /\ obs[m] = Output(m, i)
                         /\ obs[m] # InvalidDefault => obs[m] \in AllValues(NbDates)
  BY <1>1, MemberIsRead
<1> HIDE DEF obs, members
<1>4. CASE \E m \in members : obs[m] = InvalidDefault
  <2>1. MessageColumn(obs, members) = InvalidDefault
    BY <1>4 DEF MessageColumn
  <2> QED
    BY <1>4, <2>1 DEF obs, members
<1>5. CASE \A m \in members : obs[m] # InvalidDefault
  <2>1. MessageColumn(obs, members) = [m \in members |-> obs[m]]
    BY <1>5 DEF MessageColumn
  <2>2. MessageColumn(obs, members) \in [members -> AllValues(NbDates)]
    BY <1>3, <1>5, <2>1
  <2>3. MessageColumn(obs, members) # InvalidDefault
    BY <1>2, <2>2
  <2>4. /\ DOMAIN MessageColumn(obs, members) = members
        /\ \A m \in members : Known(m, i) /\ MessageColumn(obs, members)[m] = Output(m, i)
    BY <1>3, <1>5, <2>1
  <2> QED
    BY <1>5, <2>3, <2>4 DEF obs, members
<1> QED
  BY <1>4, <1>5

\* A page with its dates, and its collection once it is parsed.
PageDates == \E n \in 0..NbDates : dates = [i \in 1..n |-> i]
FcInv ==
    /\ dates # NoFieldClimate => PageDates
    /\ collected # NoFieldClimate =>
          /\ dates # NoFieldClimate
          /\ collected = [i \in DOMAIN dates |->
                             [time |-> dates[i], columns |-> FieldClimateObservation(i)]]

LEMMA FcStart == FcInit \/ FcIdle => FcInv
BY DEF FcInit, FcIdle, FcInv, PageDates

LEMMA FcStep == FcInv /\ [FcNext]_fcVars => FcInv'
<1> SUFFICES ASSUME FcInv, [FcNext]_fcVars PROVE FcInv'
  OBVIOUS
<1>1. UNCHANGED <<dates, sensors, data, decimals>>
  BY DEF FcNext, ParseCollection, fcVars
<1>2. PageDates' = PageDates /\ \A i : FieldClimateObservation(i)' = FieldClimateObservation(i)
  BY <1>1 DEF PageDates, FieldClimateObservation, IngestDate, ValueForSensor, ValueOf, Output
<1>3. CASE ParseCollection
  <2>1. /\ dates # NoFieldClimate
        /\ collected' = [i \in DOMAIN dates |->
                            [time |-> dates[i], columns |-> FieldClimateObservation(i)]]
    BY <1>3 DEF ParseCollection
  <2> QED
    BY <1>1, <1>2, <2>1 DEF FcInv
<1>4. CASE UNCHANGED fcVars
  BY <1>1, <1>2, <1>4 DEF FcInv, fcVars
<1> QED
  BY <1>3, <1>4 DEF FcNext

\* The sources of a column.
LEMMA ObservationColumn ==
  ASSUME NEW i \in 1..NbDates, NEW c \in DOMAIN MessageColumns
  PROVE  \E radiation \in SUBSET {"solarRad"} :
            /\ FieldClimateObservation(i)[c]
               = MessageColumn(IngestDate(i), MessageColumns[c] \cup radiation)
            /\ \A m \in radiation : IngestDate(i)[m] # InvalidDefault
<1>1. FieldClimateObservation(i)[c] =
        MessageColumn(IngestDate(i),
                      IF c = "thswindex" THEN ThswSources(IngestDate(i)) ELSE MessageColumns[c])
  BY DEF FieldClimateObservation
<1>2. CASE c = "thswindex" /\ IngestDate(i)["solarRad"] # InvalidDefault
  <2>1. ThswSources(IngestDate(i)) = MessageColumns[c] \cup {"solarRad"}
    BY <1>2 DEF ThswSources
  <2>2. FieldClimateObservation(i)[c] = MessageColumn(IngestDate(i), MessageColumns[c] \cup {"solarRad"})
    BY <1>1, <1>2, <2>1
  <2>3. {"solarRad"} \in SUBSET {"solarRad"}
    OBVIOUS
  <2> QED
    BY Zenon, <1>2, <2>2, <2>3
<1>3. CASE ~(c = "thswindex" /\ IngestDate(i)["solarRad"] # InvalidDefault)
  <2>1. (IF c = "thswindex" THEN ThswSources(IngestDate(i)) ELSE MessageColumns[c])
        = MessageColumns[c] \cup {}
    <3>1. CASE c = "thswindex"
      BY <1>3, <3>1 DEF ThswSources
    <3>2. CASE c # "thswindex"
      BY <3>2
    <3> QED
      BY <3>1, <3>2
  <2>2. FieldClimateObservation(i)[c] = MessageColumn(IngestDate(i), MessageColumns[c] \cup {})
    BY <1>1, <2>1
  <2>3. {} \in SUBSET {"solarRad"}
    OBVIOUS
  <2> QED
    BY Zenon, <2>2, <2>3
<1> QED
  BY <1>2, <1>3

LEMMA FcImply == FcInv => FieldClimateFollowsSensors
<1> SUFFICES ASSUME FcInv, collected # NoFieldClimate PROVE FieldClimateFollowsSensors
  BY DEF FieldClimateFollowsSensors
<1>1. PICK n \in 0..NbDates : dates = [i \in 1..n |-> i]
  BY DEF FcInv, PageDates
<1>2. NbDates \in Nat
  BY FieldClimateAssumption DEF FieldClimateAssumption
<1>3. /\ DOMAIN collected = DOMAIN dates
      /\ \A i \in DOMAIN dates : /\ i \in 1..NbDates
                                 /\ collected[i].time = dates[i]
                                 /\ collected[i].columns = FieldClimateObservation(i)
  BY <1>1, <1>2 DEF FcInv
<1>4. ASSUME NEW i \in DOMAIN dates, NEW c \in DOMAIN MessageColumns
      PROVE  LET column == collected[i].columns[c]
                 needed == MessageColumns[c]
                 lost == decimals /\ needed \cap IntegerMembers # {}
             IN  /\ column = InvalidDefault <=> lost \/ \E m \in needed : ~Known(m, i)
                 /\ column # InvalidDefault =>
                       /\ needed \subseteq DOMAIN column
                       /\ \A m \in DOMAIN column : Known(m, i) /\ column[m] = Output(m, i)
  <2> DEFINE column == collected[i].columns[c]
             obs == IngestDate(i)
             needed == MessageColumns[c]
  <2>1. PICK radiation \in SUBSET {"solarRad"} :
          /\ column = MessageColumn(obs, needed \cup radiation)
          /\ \A m \in radiation : obs[m] # InvalidDefault
    BY <1>3, ObservationColumn
  <2>2. /\ column = InvalidDefault <=> \E m \in needed \cup radiation : obs[m] = InvalidDefault
        /\ column # InvalidDefault =>
              /\ DOMAIN column = needed \cup radiation
              /\ \A m \in needed \cup radiation : Known(m, i) /\ column[m] = Output(m, i)
    <3>1. /\ MessageColumn(obs, needed \cup radiation) = InvalidDefault
             <=> \E m \in needed \cup radiation : obs[m] = InvalidDefault
          /\ MessageColumn(obs, needed \cup radiation) # InvalidDefault =>
                /\ DOMAIN MessageColumn(obs, needed \cup radiation) = needed \cup radiation
                /\ \A m \in needed \cup radiation :
                      Known(m, i) /\ MessageColumn(obs, needed \cup radiation)[m] = Output(m, i)
      <4>1. i \in 1..NbDates
        BY <1>3
      <4> QED
        BY <4>1, ColumnIsComputed
    <3> HIDE DEF column, obs, needed
    <3> QED
      BY Zenon, <2>1, <3>1
  <2>3. \A m \in needed : obs[m] = InvalidDefault <=> (m \in IntegerMembers /\ decimals) \/ ~Known(m, i)
    BY <1>3, NeededAreMembers, MemberIsRead
  <2> HIDE DEF column, obs, needed
  <2>4. column = InvalidDefault
        <=> (decimals /\ needed \cap IntegerMembers # {}) \/ \E m \in needed : ~Known(m, i)
    BY <2>1, <2>2, <2>3
  <2>5. column # InvalidDefault =>
          /\ needed \subseteq DOMAIN column
          /\ \A m \in DOMAIN column : Known(m, i) /\ column[m] = Output(m, i)
    BY <2>2
  <2> QED
    BY <2>4, <2>5 DEF column, needed
<1> QED
  BY <1>3, <1>4 DEF FieldClimateFollowsSensors

-----------------------------------------------------------------------------
(* The text files                                                           *)

LEMMA ColumnNames ==
  /\ \A j, k \in 1..17 : Columns[j] = Columns[k] => j = k
  /\ DOMAIN Columns = 1..17
BY SMT DEF Columns

LEMMA LineNames ==
  /\ \A j, k \in 1..12 : Lines[j] = Lines[k] => j = k
  /\ DOMAIN Lines = 1..12 /\ Len(Lines) = 12
  /\ \A m \in MeasuresOfFiles : \E k \in 1..12 : Lines[k] = m
BY SMT DEF Lines, MeasuresOfFiles

\* A file, and what has become of it.
File ==
    /\ format \in Formats
    /\ \E width \in Widths : columns \in [1..width -> Writings]
FileInv ==
    /\ File
    /\ fate = "stored" => IsValid /\ ~Throws(Chose) /\ observation = GetFileObservation(Chose)
    /\ fate = "thrown" => IsValid /\ Throws(Chose)
TextInv == format = NoFormat \/ FileInv

LEMMA FormatsApart ==
  /\ "weatherlink" \notin LineFormats /\ "weathercat" \notin LineFormats
  /\ "meteohub" \notin LineFormats /\ "wswin" \notin LineFormats
  /\ "weatherdisplay" \notin LineFormats
BY SMT DEF LineFormats

\* The length of a file.
LEMMA Lengths ==
  ASSUME File
  PROVE  /\ Len(columns) \in Nat /\ DOMAIN columns = 1..Len(columns) /\ Len(columns) <= 17
         /\ format \in LineFormats => Len(columns) = 12
         /\ \A k \in DOMAIN columns : /\ k \in 1..17 /\ (format \in LineFormats => k \in 1..12)
                                     /\ columns[k] \in Writings
         /\ \A k \in 1..17 : k <= Len(columns) => k \in DOMAIN columns
<1>1. PICK width \in Widths : columns \in [1..width -> Writings]
  BY DEF File
<1>2. width \in Nat /\ width <= 17 /\ (format \in LineFormats => width = 12)
  BY <1>1, LineNames DEF Widths, Columns
<1>3. columns \in Seq(Writings) /\ Len(columns) = width /\ DOMAIN columns = 1..width
  BY <1>1, <1>2
<1>4. \A k \in DOMAIN columns : /\ k \in 1..17 /\ (format \in LineFormats => k \in 1..12)
                               /\ columns[k] \in Writings
  <2>1. SUFFICES ASSUME NEW k \in 1..width
                 PROVE  /\ k \in 1..17 /\ (format \in LineFormats => k \in 1..12)
                        /\ columns[k] \in Writings
    BY <1>3
  <2> QED
    BY <1>1, <1>2, <2>1
<1> QED
  BY <1>2, <1>3, <1>4

\* The writing of a measure is that of the place which has its name.
LEMMA PlaceOf ==
  ASSUME File, NEW k \in DOMAIN columns, NEW m, Names[k] = m
  PROVE  WritingOf(m) = columns[k] /\ WritingOf(m) \in Writings
<1>1. k \in 1..17 /\ (format \in LineFormats => k \in 1..12)
  BY Lengths
<1>2. \A j \in DOMAIN columns : Names[j] = m => j = k
  <2>1. \A j \in DOMAIN columns : j \in 1..17 /\ (format \in LineFormats => j \in 1..12)
    BY Lengths
  <2> QED
    BY <1>1, <2>1, ColumnNames, LineNames DEF Names
<1>3. (CHOOSE j \in DOMAIN columns : Names[j] = m) = k
  BY <1>2
<1> QED
  BY <1>3, Lengths DEF WritingOf

LEMMA PlaceMissing ==
  ASSUME NEW m, \A k \in DOMAIN columns : Names[k] # m
  PROVE  WritingOf(m) = "empty"
BY DEF WritingOf

\* The lines.
LEMMA LineIsWriting ==
  ASSUME File, format \in LineFormats, NEW m \in MeasuresOfFiles
  PROVE  LineOf(m) = WritingOf(m) /\ WritingOf(m) \in Writings
<1>1. PICK k \in 1..12 : Lines[k] = m
  BY LineNames
<1>2. DOMAIN columns = 1..12
  BY Lengths
<1>3. WritingOf(m) = columns[k] /\ WritingOf(m) \in Writings
  BY <1>1, <1>2, PlaceOf DEF Names
<1>4. (CHOOSE j \in DOMAIN Lines : Lines[j] = m) = k
  BY <1>1, LineNames
<1> QED
  BY <1>3, <1>4 DEF LineOf

LEMMA LinesAreRead ==
  ASSUME File, format \in LineFormats, NEW m \in MeasuresOfFiles
  PROVE  /\ Chose[m] = "exception" => WritingOf(m) = "huge"
         /\ Chose[m] # "exception" => Chose[m] = ReadAs(m)
<1>1. LineOf(m) = WritingOf(m) /\ WritingOf(m) \in Writings
  BY LineIsWriting
<1>2. CASE format = "meteobridge"
  <2>1. Chose = MBDataMeteobridgeMessage
    BY <1>2 DEF Chose
  <2>2. Chose[m] = CASE LineOf(m) = "number" -> "value"
                     [] LineOf(m) = "comma" -> IF m \in Integral THEN "value" ELSE "truncated"
                     [] LineOf(m) = "huge" /\ m # "rainfall" -> "exception"
                     [] OTHER -> "none"
    BY <2>1 DEF MBDataMeteobridgeMessage
  <2> QED
    BY <1>1, <1>2, <2>2 DEF ReadAs, Writings
<1>3. CASE format = "static"
  <2>1. Chose = StatICMessage
    BY <1>3 DEF Chose
  <2>2. Chose[m] = CASE LineOf(m) \in {"number", "comma"} -> "value"
                     [] LineOf(m) = "empty" -> "zero"
                     [] LineOf(m) = "huge" -> "exception"
                     [] OTHER -> "none"
    BY <2>1 DEF StatICMessage
  <2> QED
    BY <1>1, <1>3, <2>2 DEF ReadAs, Writings
<1> QED
  BY <1>2, <1>3 DEF LineFormats

\* The columns.
LEMMA ConvertReads ==
  ASSUME NEW m, format \in ColumnFormats, WritingOf(m) \in Writings
  PROVE  /\ Convert(WritingOf(m)) = ReadAs(m) /\ ReadAs(m) # "exception"
         /\ ConvertOrThrow(WritingOf(m)) # "exception" => ConvertOrThrow(WritingOf(m)) = ReadAs(m)
         /\ ConvertOrThrow(WritingOf(m)) = "exception" => WritingOf(m) \in {"text", "huge"}
<1>1. format # "static" /\ format # "meteobridge"
  BY DEF ColumnFormats
<1> QED
  BY <1>1 DEF Convert, ConvertOrThrow, CleanInput, ReadAs, Writings

LEMMA ColumnAt ==
  /\ Columns[1] = "temperature" /\ Columns[2] = "humidity" /\ Columns[3] = "dewpoint"
  /\ Columns[4] = "pressure" /\ Columns[5] = "tendency" /\ Columns[6] = "rainfall"
  /\ Columns[7] = "wind" /\ Columns[8] = "winddir" /\ Columns[9] = "gust"
  /\ Columns[10] = "windchill" /\ Columns[11] = "heatindex" /\ Columns[12] = "tx"
  /\ Columns[13] = "tn" /\ Columns[14] = "rainrate" /\ Columns[15] = "solarrad"
  /\ Columns[16] = "tx_hour" /\ Columns[17] = "tn_hour"
BY SMT DEF Columns

LEMMA PlacesAreNamed ==
  /\ \A m \in DOMAIN FromMandatoryPart : FromMandatoryPart[m] \in 1..9 /\ Columns[FromMandatoryPart[m]] = m
  /\ \A m \in DOMAIN FromWholeMatch : FromWholeMatch[m] \in 1..15 /\ Columns[FromWholeMatch[m]] = m
  /\ \A m \in DOMAIN FromOptionalPart :
        FromOptionalPart[m] \in 3..4 /\ Columns[11 + FromOptionalPart[m]] = m
  /\ MeasuresOfFiles = DOMAIN FromMandatoryPart \cup {"rainrate", "solarrad", "uv"}
  /\ DOMAIN FromWholeMatch = DOMAIN FromMandatoryPart \cup {"rainrate", "solarrad"}
  /\ DOMAIN FromOptionalPart = {"rainrate", "solarrad"}
  /\ \A k \in 1..17 : Columns[k] # "uv"
<1>1. \A m \in DOMAIN FromMandatoryPart :
         FromMandatoryPart[m] \in 1..9 /\ Columns[FromMandatoryPart[m]] = m
  <2>1. /\ DOMAIN FromMandatoryPart = {"temperature", "humidity", "dewpoint", "pressure",
                                       "rainfall", "wind", "winddir", "gust"}
        /\ FromMandatoryPart["temperature"] = 1 /\ FromMandatoryPart["humidity"] = 2
        /\ FromMandatoryPart["dewpoint"] = 3 /\ FromMandatoryPart["pressure"] = 4
        /\ FromMandatoryPart["rainfall"] = 6 /\ FromMandatoryPart["wind"] = 7
        /\ FromMandatoryPart["winddir"] = 8 /\ FromMandatoryPart["gust"] = 9
    BY SMT DEF FromMandatoryPart
  <2> QED
    BY Z3, <2>1, ColumnAt
<1>2. \A m \in DOMAIN FromWholeMatch :
         FromWholeMatch[m] \in 1..15 /\ Columns[FromWholeMatch[m]] = m
  <2>1. /\ DOMAIN FromWholeMatch = {"temperature", "humidity", "dewpoint", "pressure", "rainfall",
                                    "wind", "winddir", "gust", "rainrate", "solarrad"}
        /\ FromWholeMatch["temperature"] = 1 /\ FromWholeMatch["humidity"] = 2
        /\ FromWholeMatch["dewpoint"] = 3 /\ FromWholeMatch["pressure"] = 4
        /\ FromWholeMatch["rainfall"] = 6 /\ FromWholeMatch["wind"] = 7
        /\ FromWholeMatch["winddir"] = 8 /\ FromWholeMatch["gust"] = 9
        /\ FromWholeMatch["rainrate"] = 14 /\ FromWholeMatch["solarrad"] = 15
    BY SMT DEF FromWholeMatch
  <2> QED
    BY Z3, <2>1, ColumnAt
<1>3. \A m \in DOMAIN FromOptionalPart :
         FromOptionalPart[m] \in 3..4 /\ Columns[11 + FromOptionalPart[m]] = m
  <2>1. /\ DOMAIN FromOptionalPart = {"rainrate", "solarrad"}
        /\ FromOptionalPart["rainrate"] = 3 /\ FromOptionalPart["solarrad"] = 4
    BY SMT DEF FromOptionalPart
  <2> QED
    BY Z3, <2>1, ColumnAt
<1>4. /\ MeasuresOfFiles = DOMAIN FromMandatoryPart \cup {"rainrate", "solarrad", "uv"}
      /\ DOMAIN FromWholeMatch = DOMAIN FromMandatoryPart \cup {"rainrate", "solarrad"}
      /\ DOMAIN FromOptionalPart = {"rainrate", "solarrad"}
  BY SMT DEF FromMandatoryPart, FromWholeMatch, FromOptionalPart, MeasuresOfFiles
<1>5. \A k \in 1..17 : Columns[k] # "uv"
  <2>1. ASSUME NEW k \in 1..17
        PROVE  \/ k = 1 \/ k = 2 \/ k = 3 \/ k = 4 \/ k = 5 \/ k = 6 \/ k = 7 \/ k = 8 \/ k = 9
               \/ k = 10 \/ k = 11 \/ k = 12 \/ k = 13 \/ k = 14 \/ k = 15 \/ k = 16 \/ k = 17
    BY SMT
  <2> QED
    BY Z3, <2>1, ColumnAt
<1> QED
  BY Zenon, <1>1, <1>2, <1>3, <1>4, <1>5

LEMMA WholeIsRead ==
  ASSUME File, IsValid, format \in {"weatherlink", "weathercat"}, NEW m \in MeasuresOfFiles
  PROVE  Chose[m] = ReadAs(m) /\ ~Unread(m) /\ ReadAs(m) # "exception"
<1>1. format \in ColumnFormats /\ format \notin LineFormats
  BY FormatsApart DEF ColumnFormats
<1>2. Len(columns) >= 15 /\ ~Unread(m)
  BY <1>1 DEF IsValid, MandatoryColumns, Unread, OptionalColumns
<1>3. Chose = ReadWhole
  BY DEF Chose, MBDataWeatherlinkMessage, MBDataWeathercatMessage
<1>4. CASE m \in DOMAIN FromWholeMatch
  <2>1. FromWholeMatch[m] \in DOMAIN columns /\ Names[FromWholeMatch[m]] = m
    <3>1. FromWholeMatch[m] \in 1..15 /\ Columns[FromWholeMatch[m]] = m
      BY <1>4, PlacesAreNamed
    <3>2. Len(columns) \in Nat /\ \A k \in 1..17 : k <= Len(columns) => k \in DOMAIN columns
      BY Lengths
    <3>3. FromWholeMatch[m] \in DOMAIN columns
      BY <1>2, <3>1, <3>2
    <3> QED
      BY <1>1, <3>1, <3>3 DEF Names
  <2>2. WritingOf(m) = columns[FromWholeMatch[m]] /\ WritingOf(m) \in Writings
    BY <2>1, PlaceOf
  <2>3. Chose[m] = Convert(WritingOf(m))
    BY <1>3, <1>4, <2>2 DEF ReadWhole
  <2> QED
    BY <1>1, <1>2, <2>2, <2>3, ConvertReads
<1>5. CASE m \notin DOMAIN FromWholeMatch
  <2>1. m = "uv"
    BY <1>5, PlacesAreNamed
  <2>2. WritingOf(m) = "empty"
    BY <1>1, <2>1, Lengths, PlacesAreNamed, PlaceMissing DEF Names
  <2>3. Chose[m] = "none"
    BY <1>3, <1>5 DEF ReadWhole
  <2>4. ReadAs(m) = "none"
    BY <1>1, <2>2 DEF ReadAs, ColumnFormats
  <2> QED
    BY <1>2, <2>3, <2>4
<1> QED
  BY <1>4, <1>5

LEMMA PartsAreRead ==
  ASSUME File, IsValid, format \in {"meteohub", "wswin", "weatherdisplay"}, NEW m \in MeasuresOfFiles
  PROVE  /\ Unread(m) => Chose[m] = "none"
         /\ Chose[m] # "exception" /\ ~Unread(m) => Chose[m] = ReadAs(m)
         /\ Chose[m] = "exception" =>
               /\ format \in {"meteohub", "weatherdisplay"} /\ m \in {"rainrate", "solarrad"}
               /\ WritingOf(m) \in {"text", "huge"}
<1> DEFINE optional(w) == IF format = "wswin" THEN Convert(w) ELSE ConvertOrThrow(w)
<1>1. format \in ColumnFormats /\ format \notin LineFormats
  BY FormatsApart DEF ColumnFormats
<1>2. /\ MandatoryColumns = 11 /\ Len(columns) >= 11
      /\ OptionalColumns > 0 /\ OptionalColumns >= 4 /\ OptionalColumns \in Nat
  BY <1>1 DEF IsValid, MandatoryColumns, OptionalColumns
<1>3. Chose[m] =
        IF m \in DOMAIN FromMandatoryPart THEN Convert(columns[FromMandatoryPart[m]])
        ELSE IF HasOptionalPart /\ m \in DOMAIN FromOptionalPart
        THEN optional(columns[MandatoryColumns + FromOptionalPart[m]]) ELSE "none"
  <2>1. CASE format = "wswin"
    BY <2>1 DEF Chose, MBDataWsWinMessage, ReadParts
  <2>2. CASE format = "meteohub"
    BY <2>2 DEF Chose, MBDataMeteohubMessage, ReadParts
  <2>3. CASE format = "weatherdisplay"
    BY <2>3 DEF Chose, MBDataWeatherDisplayMessage, ReadParts
  <2> QED
    BY <2>1, <2>2, <2>3
<1>4. Unread(m) <=> ~HasOptionalPart /\ m \in {"rainrate", "solarrad"}
  BY <1>1, <1>2 DEF Unread
<1>5. CASE m \in DOMAIN FromMandatoryPart
  <2>1. FromMandatoryPart[m] \in DOMAIN columns /\ Names[FromMandatoryPart[m]] = m
    <3>1. FromMandatoryPart[m] \in 1..9 /\ Columns[FromMandatoryPart[m]] = m
      BY Zenon, <1>5, PlacesAreNamed
    <3>2. FromMandatoryPart[m] \in 1..17 /\ FromMandatoryPart[m] <= Len(columns)
      BY <1>2, <3>1, Lengths
    <3>3. Names = Columns
      BY <1>1 DEF Names
    <3> QED
      BY <3>1, <3>2, <3>3, Lengths
  <2>2. WritingOf(m) = columns[FromMandatoryPart[m]] /\ WritingOf(m) \in Writings
    BY <2>1, PlaceOf
  <2>3. Chose[m] = Convert(WritingOf(m))
    BY <1>3, <1>5, <2>2
  <2>4. ~Unread(m)
    BY <1>4, <1>5 DEF FromMandatoryPart
  <2> QED
    BY <1>1, <2>2, <2>3, <2>4, ConvertReads
<1>6. CASE m \in {"rainrate", "solarrad"} /\ HasOptionalPart
  <2>1. Len(columns) >= 15
    BY <1>2, <1>6, Lengths DEF HasOptionalPart
  <2>2. m \notin DOMAIN FromMandatoryPart /\ m \in DOMAIN FromOptionalPart
    BY <1>6 DEF FromMandatoryPart, FromOptionalPart
  <2>3. 11 + FromOptionalPart[m] \in DOMAIN columns /\ Names[11 + FromOptionalPart[m]] = m
    BY <1>1, <2>1, <2>2, Lengths, PlacesAreNamed DEF Names
  <2>4. WritingOf(m) = columns[11 + FromOptionalPart[m]] /\ WritingOf(m) \in Writings
    BY <2>3, PlaceOf
  <2>5. Chose[m] = optional(WritingOf(m))
    BY <1>2, <1>3, <1>6, <2>2, <2>4
  <2>6. ~Unread(m)
    BY <1>4, <1>6
  <2> QED
    BY <1>1, <1>6, <2>4, <2>5, <2>6, ConvertReads
<1>7. CASE m \in {"rainrate", "solarrad"} /\ ~HasOptionalPart
  <2>1. Chose[m] = "none" /\ Unread(m)
    BY <1>3, <1>4, <1>7 DEF FromMandatoryPart
  <2> QED
    BY <2>1
<1>8. CASE m = "uv"
  <2>1. Chose[m] = "none" /\ ~Unread(m)
    BY <1>3, <1>4, <1>8 DEF FromMandatoryPart, FromOptionalPart
  <2>2. WritingOf(m) = "empty"
    BY <1>1, <1>8, Lengths, PlacesAreNamed, PlaceMissing DEF Names
  <2>3. ReadAs(m) = "none"
    BY <1>1, <2>2 DEF ReadAs, ColumnFormats
  <2> QED
    BY <2>1, <2>3
<1> QED
  BY <1>5, <1>6, <1>7, <1>8, PlacesAreNamed

\* What every format has in common.
LEMMA MeasureIsRead ==
  ASSUME File, IsValid, NEW m \in MeasuresOfFiles
  PROVE  /\ Unread(m) => Chose[m] = "none"
         /\ Chose[m] # "exception" /\ ~Unread(m) => Chose[m] = ReadAs(m)
         /\ Chose[m] = "exception" =>
               \/ /\ format \in {"meteohub", "weatherdisplay"} /\ m \in {"rainrate", "solarrad"}
                  /\ WritingOf(m) \in {"text", "huge"}
               \/ format \in LineFormats /\ WritingOf(m) = "huge"
<1>1. format \in AllFormats
  BY TextAssumption DEF File, TextAssumption
<1>2. CASE format \in {"weatherlink", "weathercat"}
  BY <1>2, WholeIsRead
<1>3. CASE format \in {"meteohub", "wswin", "weatherdisplay"}
  BY <1>3, PartsAreRead
<1>4. CASE format \in LineFormats
  <2>1. ~Unread(m)
    BY <1>4, FormatsApart DEF Unread, ColumnFormats
  <2> QED
    BY <1>4, <2>1, LinesAreRead
<1> QED
  BY <1>1, <1>2, <1>3, <1>4 DEF AllFormats, ColumnFormats

LEMMA TextStart == TextInit \/ TextIdle => TextInv
<1>1. CASE TextIdle
  BY <1>1 DEF TextIdle, TextInv
<1>2. CASE TextInit
  <2>1. PICK width \in Widths : \E i \in 1..width, j \in {1, width} :
          \E first \in Writings, second \in {"number", "empty"} :
            columns = FileWritten(width, i, j, first, second)
    BY <1>2 DEF TextInit
  <2>2. columns \in [1..width -> Writings]
    BY <2>1 DEF FileWritten, Writings
  <2> QED
    BY <1>2, <2>2 DEF TextInit, TextInv, FileInv, File
<1> QED
  BY <1>1, <1>2

\* What is made of a file does not change, as long as the file does not.
LEMMA SameFile ==
  ASSUME UNCHANGED <<format, columns>>
  PROVE  File' = File /\ IsValid' = IsValid /\ Chose' = Chose
<1>1. IsValid' = IsValid /\ File' = File
  BY DEF File, Widths, IsValid, LineOf, MandatoryColumns
<1>2. ReadWhole' = ReadWhole
  BY DEF ReadWhole
<1>3. MBDataWsWinMessage' = MBDataWsWinMessage
  BY DEF MBDataWsWinMessage, ReadParts, HasOptionalPart, OptionalColumns, MandatoryColumns
<1>4. MBDataMeteohubMessage' = MBDataMeteohubMessage
  BY DEF MBDataMeteohubMessage, ReadParts, HasOptionalPart, OptionalColumns, MandatoryColumns
<1>5. MBDataWeatherDisplayMessage' = MBDataWeatherDisplayMessage
  BY DEF MBDataWeatherDisplayMessage, ReadParts, HasOptionalPart, OptionalColumns, MandatoryColumns
<1>6. /\ MBDataMeteobridgeMessage' = MBDataMeteobridgeMessage
      /\ StatICMessage' = StatICMessage
  BY DEF MBDataMeteobridgeMessage, StatICMessage, LineOf
<1>7. Chose' = Chose
  BY <1>2, <1>3, <1>4, <1>5, <1>6 DEF Chose, MBDataWeatherlinkMessage, MBDataWeathercatMessage
<1> QED
  BY <1>1, <1>7

LEMMA TextStep == TextInv /\ [TextNext]_textVars => TextInv'
<1> SUFFICES ASSUME TextInv, [TextNext]_textVars PROVE TextInv'
  OBVIOUS
<1>1. UNCHANGED <<format, columns>>
  BY DEF TextNext, ProcessFile, textVars
<1>2. /\ File' = File /\ IsValid' = IsValid /\ Chose' = Chose
  BY <1>1, SameFile
<1>3. Throws(Chose)' = Throws(Chose) /\ GetFileObservation(Chose)' = GetFileObservation(Chose)
  BY <1>2 DEF Throws, GetFileObservation, HasValue, HasAll
<1>4. CASE ProcessFile
  BY <1>1, <1>2, <1>3, <1>4 DEF ProcessFile, TextInv, FileInv
<1>5. CASE UNCHANGED textVars
  BY <1>1, <1>2, <1>3, <1>5 DEF textVars, TextInv, FileInv
<1> QED
  BY <1>4, <1>5 DEF TextNext

LEMMA TextImply == TextInv => FilesFollowWritings
<1> SUFFICES ASSUME TextInv, format # NoFormat PROVE FilesReadAsNamed /\ IllegibleCostsItself
  BY DEF FilesFollowWritings, FilesReadAsNamed, IllegibleCostsItself
<1>1. FileInv /\ File
  BY DEF TextInv, FileInv
<1>2. ASSUME fate = "stored" PROVE FilesReadAsNamed
  <2>1. IsValid /\ ~Throws(Chose) /\ observation = GetFileObservation(Chose)
    BY <1>1, <1>2 DEF FileInv
  <2>2. \A m \in MeasuresOfFiles : Chose[m] = IF Unread(m) THEN "none" ELSE ReadAs(m)
    BY <1>1, <2>1, MeasureIsRead DEF Throws
  <2>3. \A m \in MeasuresOfFiles : HasValue(Chose, m) <=> Chose[m] # "none"
    BY <2>1 DEF Throws, HasValue
  <2>4. ASSUME NEW m \in MeasuresOfFiles, m # "dewpoint" PROVE observation[m] = Chose[m]
    BY <2>1, <2>4 DEF GetFileObservation, MeasuresOfFiles
  <2>5. /\ "temperature" \in MeasuresOfFiles /\ "humidity" \in MeasuresOfFiles
        /\ "dewpoint" \in MeasuresOfFiles
    BY DEF MeasuresOfFiles
  <2>6. observation["dewpoint"] =
          IF Chose["dewpoint"] = "none" /\ Chose["temperature"] # "none" /\ Chose["humidity"] # "none"
          THEN "computed" ELSE Chose["dewpoint"]
    <3>1. observation["dewpoint"] =
            IF ~HasValue(Chose, "dewpoint") /\ HasAll(Chose, {"temperature", "humidity"})
            THEN "computed" ELSE Chose["dewpoint"]
      BY <2>1, <2>5 DEF GetFileObservation
    <3> QED
      BY <2>3, <2>5, <3>1 DEF HasAll
  <2>7. ~Unread("dewpoint")
    BY DEF Unread
  <2> QED
    BY <2>2, <2>4, <2>5, <2>6, <2>7 DEF FilesReadAsNamed
<1>3. ASSUME fate = "thrown" PROVE IllegibleCostsItself
  <2>1. IsValid /\ Throws(Chose)
    BY <1>1, <1>3 DEF FileInv
  <2>2. PICK m \in MeasuresOfFiles : Chose[m] = "exception"
    BY <2>1 DEF Throws
  <2> QED
    BY <1>1, <2>1, <2>2, MeasureIsRead DEF IllegibleCostsItself
<1>4. fate # "stored" => FilesReadAsNamed
  BY DEF FilesReadAsNamed
<1>5. fate # "thrown" => IllegibleCostsItself
  BY DEF IllegibleCostsItself
<1> QED
  BY <1>2, <1>3, <1>4, <1>5

-----------------------------------------------------------------------------
(* The rows that messages make                                              *)

LEMMA InsertedOneByOne ==
  ASSUME NEW E, NEW list \in Seq(E)
  PROVE  \E f : /\ f[0] = <<>> /\ InsertAll(<<>>, list) = f[Len(list)]
                /\ \A k \in 1..Len(list) : f[k] = InsertDataPoint(f[k - 1], list[k])
<1> DEFINE n == Len(list)
           Times0 == {list[k].time : k \in 1..n}
           Values == {Invalid} \cup {GetObservation(list[k].members)[c] : k \in 1..n, c \in MeasuredColumns}
           S == UNION {[D -> [MeasuredColumns -> Values]] : D \in SUBSET Times0}
           g == [p \in (1..n) \X S |-> InsertDataPoint(p[2], list[p[1]])]
           F(f) == [k \in 0..n |-> IF k = 0 THEN <<>> ELSE InsertDataPoint(f[k - 1], list[k])]
<1>1. n \in Nat
  OBVIOUS
<1>2. <<>> \in S
  <2>1. <<>> \in [{} -> [MeasuredColumns -> Values]]
    OBVIOUS
  <2>2. {} \in SUBSET Times0
    OBVIOUS
  <2> HIDE DEF Values, Times0
  <2> QED
    BY <2>1, <2>2
<1>3. ASSUME NEW k \in 1..n, NEW rows \in S PROVE InsertDataPoint(rows, list[k]) \in S
  <2>1. PICK D \in SUBSET Times0 : rows \in [D -> [MeasuredColumns -> Values]]
    OBVIOUS
  <2>2. list[k].time \in Times0 /\ D \cup {list[k].time} \in SUBSET Times0
    OBVIOUS
  <2> DEFINE o == GetObservation(list[k].members)
             row == [c \in MeasuredColumns |-> IF o[c] = Invalid THEN Row(rows, list[k].time)[c] ELSE o[c]]
  <2>3. Row(rows, list[k].time) \in [MeasuredColumns -> Values]
    BY <2>1 DEF Row, NoRow
  <2>4. \A c \in MeasuredColumns : o[c] \in Values
    OBVIOUS
  <2>5. row \in [MeasuredColumns -> Values]
    <3> HIDE DEF Values
    <3> QED BY <2>3, <2>4
  <2>6. InsertDataPoint(rows, list[k]) = WithRow(rows, list[k].time, row)
    BY DEF InsertDataPoint
  <2> HIDE DEF row, Times0, Values, S
  <2>7. WithRow(rows, list[k].time, row) \in [D \cup {list[k].time} -> [MeasuredColumns -> Values]]
    BY <2>1, <2>5 DEF WithRow
  <2> QED
    BY <2>2, <2>6, <2>7 DEF S
<1>4. g \in [(1..n) \X S -> S]
  <2> HIDE DEF S, n
  <2> QED BY <1>3
<1>5. PICK f \in [0..n -> S] : StepByStep(f, <<>>, n, g)
  <2> HIDE DEF S, g, n, F
  <2> QED BY Zenon, <1>1, <1>2, <1>4, Recursion
<1>6. \A k \in 1..n : f[k] = InsertDataPoint(f[k - 1], list[k])
  <2> SUFFICES ASSUME NEW k \in 1..n PROVE f[k] = InsertDataPoint(f[k - 1], list[k])
    OBVIOUS
  <2>1. k - 1 \in 0..n
    OBVIOUS
  <2>2. <<k, f[k - 1]>> \in (1..n) \X S
    <3> HIDE DEF S
    <3> QED BY <2>1
  <2>3. g[<<k, f[k - 1]>>] = InsertDataPoint(f[k - 1], list[k])
    <3> HIDE DEF S
    <3> QED BY <2>2
  <2> HIDE DEF S, g
  <2> QED BY <1>5, <2>3 DEF StepByStep
<1>7. f = F(f)
  <2> HIDE DEF S
  <2>1. \A k \in 0..n : f[k] = F(f)[k]
    BY <1>5, <1>6 DEF StepByStep
  <2>2. DOMAIN F(f) = 0..n /\ F(f) = [k \in 0..n |-> F(f)[k]]
    OBVIOUS
  <2>3. f = [k \in 0..n |-> f[k]]
    BY <1>5
  <2> HIDE DEF F
  <2> QED BY <2>1, <2>2, <2>3
<1> DEFINE w == CHOOSE w : w = F(w)
<1>8. w = F(w)
  <2> HIDE DEF F
  <2> QED BY <1>7
<1>9. InsertAll(<<>>, list) = w[n]
  BY DEF InsertAll
<1>10. w[0] = <<>> /\ \A k \in 1..n : w[k] = InsertDataPoint(w[k - 1], list[k])
  <2> HIDE DEF w
  <2>1. \A k \in 0..n : F(w)[k] = IF k = 0 THEN <<>> ELSE InsertDataPoint(w[k - 1], list[k])
    OBVIOUS
  <2> HIDE DEF F
  <2> QED BY <1>8, <2>1, <1>1
<1> HIDE DEF w
<1> QED BY <1>9, <1>10

\* A message is of a time, and has some measures.
Writes(e, t, c) == e.time = t /\ e.members[c] # Invalid

LEMMA OneInsertion ==
  ASSUME NEW rows, NEW e, NEW t, NEW c \in DataPoint \ {"voltages"}
  PROVE  Row(InsertDataPoint(rows, e), t)[c]
         = IF Writes(e, t, c) THEN e.members[c] ELSE Row(rows, t)[c]
<1> DEFINE o == GetObservation(e.members)
           row == [d \in MeasuredColumns |-> IF o[d] = Invalid THEN Row(rows, e.time)[d] ELSE o[d]]
<1>1. c \in MeasuredColumns
  BY DEF MeasuredColumns
<1>2. o[c] = e.members[c]
  BY <1>1 DEF GetObservation
<1>3. InsertDataPoint(rows, e) = WithRow(rows, e.time, row)
  BY DEF InsertDataPoint
<1> HIDE DEF o
<1>4. row[c] = IF e.members[c] = Invalid THEN Row(rows, e.time)[c] ELSE e.members[c]
  BY <1>1, <1>2
<1> HIDE DEF row
<1>5. CASE e.time = t
  <2>1. Row(WithRow(rows, e.time, row), t) = row
    BY <1>5 DEF Row, WithRow
  <2> QED
    BY <1>3, <1>4, <1>5, <2>1 DEF Writes
<1>6. CASE e.time # t
  <2>1. Row(WithRow(rows, e.time, row), t) = Row(rows, t)
    BY <1>6 DEF Row, WithRow
  <2> QED
    BY <1>3, <1>6, <2>1 DEF Writes
<1> QED
  BY <1>5, <1>6

\* A row has of each column what the last message that has it says.
LEMMA LastMessagePrevails ==
  ASSUME NEW E, NEW list \in Seq(E), NEW t, NEW c \in DataPoint \ {"voltages"}
  PROVE  \/ /\ \A p \in 1..Len(list) : ~Writes(list[p], t, c)
            /\ Row(InsertAll(<<>>, list), t)[c] = Invalid
         \/ \E p \in 1..Len(list) :
              /\ Writes(list[p], t, c)
              /\ \A q \in (p + 1)..Len(list) : ~Writes(list[q], t, c)
              /\ Row(InsertAll(<<>>, list), t)[c] = list[p].members[c]
<1> DEFINE n == Len(list)
<1>1. PICK f : /\ f[0] = <<>> /\ InsertAll(<<>>, list) = f[n]
               /\ \A k \in 1..n : f[k] = InsertDataPoint(f[k - 1], list[k])
  BY InsertedOneByOne
<1> DEFINE LastSaid(k) ==
             \/ /\ \A p \in 1..k : ~Writes(list[p], t, c)
                /\ Row(f[k], t)[c] = Invalid
             \/ \E p \in 1..k :
                  /\ Writes(list[p], t, c)
                  /\ \A q \in (p + 1)..k : ~Writes(list[q], t, c)
                  /\ Row(f[k], t)[c] = list[p].members[c]
           T == {k \in Nat : k <= n => LastSaid(k)}
<1>2. n \in Nat
  OBVIOUS
<1> HIDE DEF n
<1>3. ASSUME NEW k \in Nat, \A i \in 0..(k - 1) : i \in T
      PROVE  k \in T
  <2>1. SUFFICES ASSUME k <= n PROVE LastSaid(k)
    OBVIOUS
  <2>2. CASE k = 0
    <3>1. Row(f[0], t)[c] = Invalid
      BY <1>1 DEF Row, NoRow, MeasuredColumns
    <3> QED
      BY <2>2, <3>1
  <2>3. CASE k # 0
    <3>1. k - 1 \in T /\ k - 1 \in Nat /\ k - 1 <= n /\ k \in 1..n
      BY <1>2, <1>3, <2>1, <2>3
    <3>2. LastSaid(k - 1)
      BY <3>1
    <3>3. Row(f[k], t)[c] = IF Writes(list[k], t, c) THEN list[k].members[c] ELSE Row(f[k - 1], t)[c]
      BY <1>1, <3>1, OneInsertion
    <3>4. CASE Writes(list[k], t, c)
      <4>1. k \in 1..k /\ \A q \in (k + 1)..k : ~Writes(list[q], t, c)
        BY <3>1
      <4> QED
        BY <3>3, <3>4, <4>1
    <3>5. CASE ~Writes(list[k], t, c)
      <4>1. Row(f[k], t)[c] = Row(f[k - 1], t)[c]
        BY <3>3, <3>5
      <4>2. 1..k = 1..(k - 1) \cup {k}
        BY <3>1
      <4>3. CASE \A p \in 1..(k - 1) : ~Writes(list[p], t, c)
        BY <3>2, <3>5, <4>1, <4>2, <4>3
      <4>4. CASE \E p \in 1..(k - 1) : Writes(list[p], t, c)
        <5>1. PICK p \in 1..(k - 1) :
                  /\ Writes(list[p], t, c)
                  /\ \A q \in (p + 1)..(k - 1) : ~Writes(list[q], t, c)
                  /\ Row(f[k - 1], t)[c] = list[p].members[c]
          BY <3>2, <4>4
        <5>2. p \in 1..k /\ (p + 1)..k \subseteq (p + 1)..(k - 1) \cup {k}
          BY <3>1
        <5> QED
          BY <3>5, <4>1, <5>1, <5>2
      <4> QED
        BY <4>3, <4>4
    <3> QED
      BY <3>4, <3>5
  <2> QED
    BY <2>2, <2>3
<1>4. Nat \subseteq T
  <2> HIDE DEF T
  <2> QED
    BY <1>3, NoFirstFailure
<1>5. LastSaid(n)
  <2>1. n \in T
    <3> HIDE DEF T
    <3> QED
      BY <1>2, <1>4
  <2> HIDE DEF LastSaid
  <2> QED
    BY <1>2, <2>1
<1> QED
  BY <1>1, <1>5 DEF n

-----------------------------------------------------------------------------
(* The order of the messages                                                *)

\* What is somewhere in a sequence.
Occurs(s, x) == \E p \in 1..Len(s) : s[p] = x

LEMMA OneAfterTheOther ==
  ASSUME NEW E, NEW a \in Seq(E), NEW b \in Seq(E)
  PROVE  /\ a \o b \in Seq(E) /\ Len(a \o b) = Len(a) + Len(b)
         /\ \A i \in 1..Len(a) : (a \o b)[i] = a[i]
         /\ \A i \in (Len(a) + 1)..(Len(a) + Len(b)) : (a \o b)[i] = b[i - Len(a)]
OBVIOUS

\* A sequence with one more element.
IsInserted(r, s, i, e) ==
    /\ Len(r) = Len(s) + 1
    /\ \A p \in 1..(Len(s) + 1) : r[p] = IF p < i THEN s[p] ELSE IF p = i THEN e ELSE s[p - 1]

LEMMA OneMore ==
  ASSUME NEW E, NEW s \in Seq(E), NEW e \in E, NEW i \in 1..(Len(s) + 1)
  PROVE  InsertAt(s, i, e) \in Seq(E) /\ IsInserted(InsertAt(s, i, e), s, i, e)
<1> DEFINE a == SubSeq(s, 1, i - 1)
           b == SubSeq(s, i, Len(s))
<1>1. a \in Seq(E) /\ Len(a) = i - 1 /\ \A p \in 1..(i - 1) : a[p] = s[p]
  OBVIOUS
<1>2. b \in Seq(E) /\ Len(b) = Len(s) + 1 - i /\ \A p \in 1..(Len(s) + 1 - i) : b[p] = s[i + p - 1]
  OBVIOUS
<1>3. <<e>> \in Seq(E) /\ Len(<<e>>) = 1 /\ <<e>>[1] = e
  OBVIOUS
<1>4. InsertAt(s, i, e) = (a \o <<e>>) \o b
  BY DEF InsertAt
<1> HIDE DEF a, b
<1>5. /\ a \o <<e>> \in Seq(E) /\ Len(a \o <<e>>) = i
      /\ \A p \in 1..(i - 1) : (a \o <<e>>)[p] = s[p]
      /\ (a \o <<e>>)[i] = e
  <2>1. /\ a \o <<e>> \in Seq(E) /\ Len(a \o <<e>>) = Len(a) + Len(<<e>>)
        /\ \A p \in 1..Len(a) : (a \o <<e>>)[p] = a[p]
        /\ \A p \in (Len(a) + 1)..(Len(a) + Len(<<e>>)) : (a \o <<e>>)[p] = <<e>>[p - Len(a)]
    BY <1>1, <1>3, OneAfterTheOther
  <2>2. (a \o <<e>>)[i] = <<e>>[i - (i - 1)] /\ i - (i - 1) = 1
    BY <1>1, <1>3, <2>1
  <2>3. Len(a \o <<e>>) = i /\ \A p \in 1..(i - 1) : (a \o <<e>>)[p] = s[p]
    <3>1. Len(a) = i - 1 /\ Len(<<e>>) = 1 /\ (i - 1) + 1 = i /\ \A p \in 1..(i - 1) : a[p] = s[p]
      BY <1>1, <1>3
    <3> QED
      BY <2>1, <3>1
  <2> QED
    BY <1>3, <2>1, <2>2, <2>3
<1> DEFINE c == a \o <<e>>
<1> HIDE DEF c
<1>6. /\ c \in Seq(E) /\ Len(c) = i
      /\ \A p \in 1..(i - 1) : c[p] = s[p]
      /\ c[i] = e
  BY <1>5 DEF c
<1>7. /\ c \o b \in Seq(E) /\ Len(c \o b) = Len(s) + 1
      /\ \A p \in 1..i : (c \o b)[p] = c[p]
      /\ \A p \in (i + 1)..(Len(s) + 1) : (c \o b)[p] = b[p - i]
  <2>1. Len(c) + Len(b) = Len(s) + 1
    BY <1>2, <1>6
  <2> QED
    BY <1>2, <1>6, <2>1, OneAfterTheOther
<1>8. \A p \in (i + 1)..(Len(s) + 1) : b[p - i] = s[p - 1]
  BY <1>2
<1>9. InsertAt(s, i, e) = c \o b
  BY <1>4 DEF c
<1>10. ASSUME NEW p \in 1..(Len(s) + 1)
       PROVE  (c \o b)[p] = IF p < i THEN s[p] ELSE IF p = i THEN e ELSE s[p - 1]
  <2>1. CASE p < i
    <3>1. p \in 1..(i - 1) /\ p \in 1..i
      BY <2>1
    <3> QED
      BY <1>6, <1>7, <2>1, <3>1
  <2>2. CASE p = i
    <3>1. p \in 1..i
      BY <2>2
    <3> QED
      BY <1>6, <1>7, <2>2, <3>1
  <2>3. CASE p > i
    <3>1. p \in (i + 1)..(Len(s) + 1) /\ ~(p < i) /\ p # i
      BY <2>3
    <3> QED
      BY <1>7, <1>8, <3>1
  <2>4. p < i \/ p = i \/ p > i
    OBVIOUS
  <2> QED
    BY Zenon, <2>1, <2>2, <2>3, <2>4
<1>11. c \o b \in Seq(E) /\ Len(c \o b) = Len(s) + 1
  BY <1>7
<1> QED
  BY <1>9, <1>10, <1>11 DEF IsInserted

\* The place in the page of the reading a message is of.
At(e) == CHOOSE k \in DOMAIN page : page[k] = e.reading
OfPage(E) == \A e \in E : e.reading \in Range(page)

\* A page: each reading once.
PageKnown ==
    \E n \in Nat : n >= 1 /\ page \in [1..n -> DOMAIN Readings] /\ IsInjective(page)

LEMMA PlaceInPage ==
  ASSUME PageKnown, NEW e, e.reading \in Range(page)
  PROVE  At(e) \in DOMAIN page /\ page[At(e)] = e.reading /\ At(e) \in Nat
<1>1. \E k \in DOMAIN page : page[k] = e.reading
  BY DEF Range
<1>2. At(e) \in DOMAIN page /\ page[At(e)] = e.reading
  BY <1>1 DEF At
<1> QED
  BY <1>2 DEF PageKnown

LEMMA PlaceIs ==
  ASSUME PageKnown, NEW e, NEW k \in DOMAIN page, page[k] = e.reading
  PROVE  At(e) = k
<1>1. At(e) \in DOMAIN page /\ page[At(e)] = e.reading
  BY DEF At
<1> QED
  BY <1>1 DEF PageKnown, IsInjective

\* The lists of the readings, one after the other, in the order of the page.
Sorted(list) == \A p, q \in 1..Len(list) : p < q => At(list[p]) <= At(list[q])
ListsOfPage(lists, E) ==
    /\ lists \in [DOMAIN page -> Seq(E)]
    /\ \A k \in DOMAIN page : \A p \in 1..Len(lists[k]) : lists[k][p].reading = page[k]

LEMMA ListsInOrder ==
  ASSUME PageKnown, NEW E, NEW lists, ListsOfPage(lists, E)
  PROVE  /\ FlattenSeq(lists) \in Seq(E)
         /\ Sorted(FlattenSeq(lists))
         /\ \A x : Occurs(FlattenSeq(lists), x) <=> \E k \in DOMAIN page : Occurs(lists[k], x)
<1>1. PICK n \in Nat : n >= 1 /\ page \in [1..n -> DOMAIN Readings]
  BY DEF PageKnown
<1>2. DOMAIN page = 1..n /\ lists \in [1..n -> Seq(E)] /\ Len(lists) = n
  <2>1. lists \in [1..n -> Seq(E)]
    BY <1>1 DEF ListsOfPage
  <2>2. lists \in Seq(Seq(E))
    BY <2>1
  <2> QED
    BY <1>1, <2>1, <2>2
<1> DEFINE S == Seq(E)
           g == [p \in (1..(n - 1)) \X S |-> p[2] \o lists[p[1] + 1]]
           F(f) == [i \in 1..n |-> IF i = 1 THEN lists[i] ELSE f[i - 1] \o lists[i]]
<1>3. g \in [(1..(n - 1)) \X S -> S]
  <2>1. ASSUME NEW k \in 1..(n - 1), NEW s \in S PROVE s \o lists[k + 1] \in S
    <3>1. lists[k + 1] \in Seq(E)
      BY <1>1, <1>2
    <3> QED
      BY <3>1, OneAfterTheOther
  <2> HIDE DEF S
  <2> QED
    BY <2>1
<1>4. n - 1 \in Nat /\ lists[1] \in S
  BY <1>1, <1>2
<1>5. PICK f \in [0..(n - 1) -> S] : StepByStep(f, lists[1], n - 1, g)
  <2> HIDE DEF S, g, F
  <2> QED BY Zenon, <1>3, <1>4, Recursion
<1> DEFINE h == [i \in 1..n |-> f[i - 1]]
<1>6. h = F(h)
  <2>1. ASSUME NEW i \in 1..n PROVE h[i] = IF i = 1 THEN lists[i] ELSE h[i - 1] \o lists[i]
    <3>1. CASE i = 1
      BY <1>5, <3>1 DEF StepByStep
    <3>2. CASE i # 1
      <4>1. i - 1 \in 1..(n - 1) /\ i - 1 \in 1..n /\ (i - 1) - 1 \in 0..(n - 1) /\ (i - 1) + 1 = i
        BY <3>2
      <4>2. f[i - 1] = g[<<i - 1, f[(i - 1) - 1]>>]
        <5> HIDE DEF g, S
        <5> QED BY <1>5, <4>1 DEF StepByStep
      <4>3. <<i - 1, f[(i - 1) - 1]>> \in (1..(n - 1)) \X S
        <5> HIDE DEF S
        <5> QED BY <1>5, <4>1
      <4>4. g[<<i - 1, f[(i - 1) - 1]>>] = f[(i - 1) - 1] \o lists[i]
        <5> HIDE DEF S
        <5> QED BY <4>1, <4>3
      <4>5. h[i] = f[i - 1] /\ h[i - 1] = f[(i - 1) - 1]
        BY <4>1
      <4> HIDE DEF h, g
      <4> QED
        BY <3>2, <4>2, <4>4, <4>5
    <3> QED
      BY <3>1, <3>2
  <2>2. h = [i \in 1..n |-> h[i]]
    OBVIOUS
  <2> HIDE DEF h
  <2> QED
    BY <2>1, <2>2
<1> HIDE DEF h
<1> DEFINE w == CHOOSE w : w = F(w)
<1>7. w = F(w)
  <2> HIDE DEF F
  <2> QED BY <1>6
<1>8. FlattenSeq(lists) = w[n]
  BY <1>1, <1>2 DEF FlattenSeq
<1> HIDE DEF w
<1>9. \A i \in 1..n : w[i] = IF i = 1 THEN lists[i] ELSE w[i - 1] \o lists[i]
  BY <1>7
<1> DEFINE Holds(s, x) == \E p \in 1..Len(s) : s[p] = x
           Good(s, i) == /\ s \in Seq(E) /\ Sorted(s)
                         /\ \A p \in 1..Len(s) : At(s[p]) \in 1..i
                         /\ \A x : Holds(s, x) <=> \E k \in 1..i : Holds(lists[k], x)
           T == {i \in Nat : i \in 1..n => Good(w[i], i)}
<1>10. ASSUME NEW i \in Nat, \A j \in 0..(i - 1) : j \in T
       PROVE  i \in T
  <2>1. SUFFICES ASSUME i \in 1..n PROVE Good(w[i], i)
    OBVIOUS
  <2>2. lists[i] \in Seq(E) /\ \A p \in 1..Len(lists[i]) : At(lists[i][p]) = i
    <3>1. i \in DOMAIN page /\ lists[i] \in Seq(E)
      BY <1>2, <2>1
    <3>2. ASSUME NEW p \in 1..Len(lists[i]) PROVE At(lists[i][p]) = i
      <4>1. page[i] = lists[i][p].reading
        BY <3>1 DEF ListsOfPage
      <4> QED
        BY <3>1, <4>1, PlaceIs
    <3> QED
      BY <3>1, <3>2
  <2>3. CASE i = 1
    <3>1. w[i] = lists[i] /\ 1..i = {i}
      BY <1>9, <2>1, <2>3
    <3> DEFINE b == lists[i]
    <3>2. b \in Seq(E) /\ \A p \in 1..Len(b) : At(b[p]) = i
      BY <2>2
    <3>3. \A x : Holds(b, x) <=> \E k \in 1..i : Holds(lists[k], x)
      <4> HIDE DEF Holds
      <4> QED BY <3>1
    <3> HIDE DEF b, Holds
    <3>4. Sorted(b) /\ \A p \in 1..Len(b) : At(b[p]) \in 1..i
      BY <2>1, <3>2 DEF Sorted
    <3>5. Good(b, i)
      BY <3>2, <3>3, <3>4
    <3> QED
      BY <3>1, <3>5 DEF b
  <2>4. CASE i # 1
    <3>1. i - 1 \in 0..(i - 1) /\ i - 1 \in 1..n /\ 1..i = 1..(i - 1) \cup {i}
      BY <2>1, <2>4
    <3>2. Good(w[i - 1], i - 1)
      <4>1. i - 1 \in T
        <5> HIDE DEF T
        <5> QED BY <1>10, <3>1
      <4> QED
        BY <3>1, <4>1
    <3> DEFINE a == w[i - 1]
               b == lists[i]
    <3>3. w[i] = a \o b
      BY <1>9, <2>1, <2>4
    <3> HIDE DEF a, b, Good
    <3>4. Good(a, i - 1)
      BY <3>2 DEF a
    <3>5. b \in Seq(E) /\ \A p \in 1..Len(b) : At(b[p]) = i
      BY <2>2 DEF b
    <3>6. a \in Seq(E) /\ Len(a) \in Nat /\ Len(b) \in Nat
      BY <3>4, <3>5 DEF Good
    <3>7. /\ a \o b \in Seq(E) /\ Len(a \o b) = Len(a) + Len(b)
          /\ \A p \in 1..Len(a) : (a \o b)[p] = a[p]
          /\ \A p \in (Len(a) + 1)..(Len(a) + Len(b)) : (a \o b)[p] = b[p - Len(a)]
      BY <3>5, <3>6, OneAfterTheOther
    <3>8. \A p \in 1..Len(a) : At(a[p]) \in 1..(i - 1)
      BY <3>4 DEF Good
    <3>9. ASSUME NEW p \in (Len(a) + 1)..(Len(a) + Len(b)) PROVE At((a \o b)[p]) = i
      <4>1. p - Len(a) \in 1..Len(b)
        BY <3>6
      <4> QED
        BY <3>5, <3>7, <4>1
    <3>10. \A p \in 1..Len(a \o b) : At((a \o b)[p]) \in 1..i
      <4> SUFFICES ASSUME NEW p \in 1..Len(a \o b) PROVE At((a \o b)[p]) \in 1..i
        OBVIOUS
      <4>1. CASE p <= Len(a)
        BY <3>1, <3>6, <3>7, <3>8, <4>1
      <4>2. CASE p > Len(a)
        BY <2>1, <3>6, <3>7, <3>9, <4>2
      <4> QED
        BY <3>6, <4>1, <4>2
    <3>11. Sorted(a \o b)
      <4> SUFFICES ASSUME NEW p \in 1..Len(a \o b), NEW q \in 1..Len(a \o b), p < q
                   PROVE  At((a \o b)[p]) <= At((a \o b)[q])
        BY DEF Sorted
      <4>1. CASE q <= Len(a)
        <5>1. p \in 1..Len(a) /\ q \in 1..Len(a)
          BY <3>6, <3>7, <4>1
        <5> QED
          BY <3>4, <3>7, <5>1 DEF Good, Sorted
      <4>2. CASE q > Len(a)
        <5>1. At((a \o b)[q]) = i
          BY <3>6, <3>7, <3>9, <4>2
        <5>2. At((a \o b)[p]) \in 1..i
          BY <3>10
        <5> QED
          BY <5>1, <5>2
      <4> QED
        BY <3>6, <3>7, <4>1, <4>2
    <3>12. ASSUME NEW x PROVE Holds(a \o b, x) <=> Holds(a, x) \/ Holds(b, x)
      <4>1. ASSUME Holds(a \o b, x) PROVE Holds(a, x) \/ Holds(b, x)
        <5>1. PICK p \in 1..Len(a \o b) : (a \o b)[p] = x
          BY <4>1
        <5>2. CASE p <= Len(a)
          BY <3>6, <3>7, <5>1, <5>2
        <5>3. CASE p > Len(a)
          <6>1. p - Len(a) \in 1..Len(b) /\ b[p - Len(a)] = x
            BY <3>6, <3>7, <5>1, <5>3
          <6> QED
            BY <6>1
        <5> QED
          BY <3>6, <5>2, <5>3
      <4>2. ASSUME Holds(a, x) PROVE Holds(a \o b, x)
        BY <3>6, <3>7, <4>2
      <4>3. ASSUME Holds(b, x) PROVE Holds(a \o b, x)
        <5>1. PICK p \in 1..Len(b) : b[p] = x
          BY <4>3
        <5>2. p + Len(a) \in 1..Len(a \o b) /\ (p + Len(a)) - Len(a) = p
              /\ p + Len(a) \in (Len(a) + 1)..(Len(a) + Len(b))
          BY <3>6, <3>7
        <5>3. (a \o b)[p + Len(a)] = b[p]
          BY <3>7, <5>2
        <5> QED
          BY <5>1, <5>2, <5>3
      <4> QED
        BY <4>1, <4>2, <4>3
    <3>13. \A x : Holds(a, x) <=> \E k \in 1..(i - 1) : Holds(lists[k], x)
      BY <3>4 DEF Good
    <3>14. \A x : Holds(a \o b, x) <=> \E k \in 1..i : Holds(lists[k], x)
      <4> HIDE DEF Holds
      <4> QED BY <3>1, <3>12, <3>13 DEF b
    <3>15. Good(a \o b, i)
      <4> HIDE DEF Holds
      <4> QED BY <3>7, <3>10, <3>11, <3>14 DEF Good
    <3> QED
      BY <3>3, <3>15
  <2> QED
    BY <2>3, <2>4
<1>11. Nat \subseteq T
  <2> HIDE DEF T
  <2> QED BY <1>10, NoFirstFailure
<1>12. Good(w[n], n)
  <2>1. n \in T /\ n \in 1..n
    <3> HIDE DEF T
    <3> QED BY <1>1, <1>11
  <2> HIDE DEF Good
  <2> QED BY <2>1
<1> HIDE DEF Holds
<1>13. \A x : Holds(w[n], x) <=> \E k \in DOMAIN page : Holds(lists[k], x)
  BY <1>2, <1>12
<1>14. w[n] \in Seq(E) /\ Sorted(w[n])
  BY <1>12
<1>15. \A x : Occurs(w[n], x) <=> \E k \in DOMAIN page : Occurs(lists[k], x)
  BY <1>13 DEF Holds, Occurs
<1> HIDE DEF w
<1> QED
  BY <1>8, <1>14, <1>15

\* Where an entry goes.
LEMMA PlacedAt ==
  ASSUME NEW E, NEW s \in Seq(E), NEW e \in E
  PROVE  \E i \in 1..(Len(s) + 1) :
            /\ Placed(s, e) = InsertAt(s, i, e)
            /\ i # 1 => ~Before(e, s[1]) /\ ~Before(e, s[i - 1])
            /\ s # <<>> /\ ~Before(e, s[1]) => \A k \in i..Len(s) : Before(e, s[k])
<1>1. Len(s) \in Nat /\ DOMAIN s = 1..Len(s)
  OBVIOUS
<1>2. CASE s = <<>>
  <2>1. Placed(s, e) = InsertAt(s, 1, e)
    BY <1>2 DEF Placed
  <2> QED
    BY <1>1, <1>2, <2>1
<1>3. CASE s # <<>> /\ Before(e, s[1])
  <2>1. Placed(s, e) = InsertAt(s, 1, e)
    BY <1>3 DEF Placed
  <2> QED
    BY <1>1, <1>3, <2>1
<1>4. CASE s # <<>> /\ ~Before(e, s[1])
  <2> DEFINE K == {0} \cup {k \in DOMAIN s : ~Before(e, s[k])}
  <2>1. K \subseteq 0..Len(s) /\ K # {}
    BY <1>1
  <2>2. 1 \in K
    <3>1. 1 \in DOMAIN s
      BY <1>1, <1>4
    <3> QED
      BY <1>4, <3>1
  <2>3. Placed(s, e) = InsertAt(s, 1 + Max(K), e)
    BY <1>4 DEF Placed
  <2>4. ASSUME NEW k \in 1..Len(s), k \notin K PROVE Before(e, s[k])
    BY <1>1, <2>4
  <2>5. \A k \in K : k # 0 => ~Before(e, s[k])
    OBVIOUS
  <2> HIDE DEF K
  <2>6. PICK m \in K : \A k \in K : k <= m
    BY <1>1, <2>1, GreatestNumber
  <2>7. m \in 0..Len(s) /\ m >= 1
    BY <2>1, <2>2, <2>6
  <2>8. Max(K) = m
    <3>1. K \subseteq Int
      BY <1>1, <2>1
    <3> QED
      BY <2>6, <3>1, GreatestIs
  <2>9. Placed(s, e) = InsertAt(s, 1 + m, e) /\ 1 + m \in 1..(Len(s) + 1)
    BY <1>1, <2>3, <2>7, <2>8
  <2>10. ~Before(e, s[(1 + m) - 1])
    BY <2>5, <2>6, <2>7
  <2>11. ASSUME NEW k \in (1 + m)..Len(s) PROVE Before(e, s[k])
    <3>1. k \in 1..Len(s) /\ ~(k <= m)
      BY <1>1, <2>7
    <3> QED
      BY <2>4, <2>6, <3>1
  <2> QED
    BY <1>4, <2>9, <2>10, <2>11
<1> QED
  BY <1>2, <1>3, <1>4

LEMMA PlacedOnce ==
  ASSUME NEW E, NEW s \in Seq(E), NEW e \in E
  PROVE  /\ Placed(s, e) \in Seq(E)
         /\ \A x : Occurs(Placed(s, e), x) <=> x = e \/ Occurs(s, x)
<1>1. PICK i \in 1..(Len(s) + 1) : Placed(s, e) = InsertAt(s, i, e)
  BY PlacedAt
<1> DEFINE r == Placed(s, e)
<1> HIDE DEF r
<1>2. /\ r \in Seq(E) /\ Len(r) = Len(s) + 1
      /\ \A p \in 1..(Len(s) + 1) : r[p] = IF p < i THEN s[p] ELSE IF p = i THEN e ELSE s[p - 1]
  <2>1. r = InsertAt(s, i, e)
    BY <1>1 DEF r
  <2>2. r \in Seq(E) /\ IsInserted(r, s, i, e)
    BY <2>1, OneMore
  <2> QED
    BY <2>2 DEF IsInserted
<1>3. Len(s) \in Nat
  OBVIOUS
<1>4. ASSUME NEW p \in 1..Len(r) PROVE r[p] = e \/ \E j \in 1..Len(s) : s[j] = r[p]
  <2>1. CASE p < i
    BY <1>2, <1>3, <2>1
  <2>2. CASE p = i
    BY <1>2, <2>2
  <2>3. CASE p > i
    <3>1. p - 1 \in 1..Len(s) /\ r[p] = s[p - 1]
      BY <1>2, <1>3, <2>3
    <3> QED
      BY <3>1
  <2> QED
    BY <1>2, <1>3, <2>1, <2>2, <2>3
<1>5. \E p \in 1..Len(r) : r[p] = e
  BY <1>2, <1>3
<1>6. ASSUME NEW j \in 1..Len(s) PROVE \E p \in 1..Len(r) : r[p] = s[j]
  <2>1. CASE j < i
    <3>1. j \in 1..(Len(s) + 1) /\ j \in 1..Len(r)
      BY <1>2, <1>3
    <3>2. r[j] = s[j]
      BY <1>2, <2>1, <3>1
    <3> QED
      BY <3>1, <3>2
  <2>2. CASE j >= i
    <3>1. j + 1 \in 1..(Len(s) + 1) /\ ~(j + 1 < i) /\ j + 1 # i /\ (j + 1) - 1 = j
      BY <1>3, <2>2
    <3>2. r[j + 1] = s[j]
      BY <1>2, <3>1
    <3> QED
      BY <1>2, <3>1, <3>2
  <2> QED
    BY <1>3, <2>1, <2>2
<1>7. \A x : Occurs(r, x) <=> x = e \/ Occurs(s, x)
  BY <1>4, <1>5, <1>6 DEF Occurs
<1> QED
  BY <1>2, <1>7 DEF r

\* In an archive, no suite comes after the station, unless another sensor stands between
\* them in the page.
Parted(e, f) ==
    \E k \in (At(e) + 1)..(At(f) - 1) : Readings[page[k]].sensor \notin {"iss", "suite"}
Ordered(s) ==
    \A p, q \in 1..Len(s) :
        p < q /\ IsMain(s[p]) /\ ~IsMain(s[q])
        => At(s[p]) < At(s[q]) /\ (IsSuite(s[q]) => Parted(s[p], s[q]))

LEMMA PlacedInOrder ==
  ASSUME PageKnown, kind = "archive", NEW E, OfPage(E), NEW s \in Seq(E), NEW e \in E,
         Ordered(s), \A p \in 1..Len(s) : At(s[p]) <= At(e)
  PROVE  Ordered(Placed(s, e))
<1>1. PICK i \in 1..(Len(s) + 1) :
            /\ Placed(s, e) = InsertAt(s, i, e)
            /\ i # 1 => ~Before(e, s[1]) /\ ~Before(e, s[i - 1])
            /\ s # <<>> /\ ~Before(e, s[1]) => \A k \in i..Len(s) : Before(e, s[k])
  BY PlacedAt
<1> DEFINE r == Placed(s, e)
<1> HIDE DEF r
<1>2. /\ r \in Seq(E) /\ Len(r) = Len(s) + 1
      /\ \A p \in 1..(Len(s) + 1) : r[p] = IF p < i THEN s[p] ELSE IF p = i THEN e ELSE s[p - 1]
  <2>1. r = InsertAt(s, i, e)
    BY <1>1 DEF r
  <2>2. r \in Seq(E) /\ IsInserted(r, s, i, e)
    BY <2>1, OneMore
  <2> QED
    BY <2>2 DEF IsInserted
<1>3. Len(s) \in Nat /\ \A p \in 1..Len(s) : s[p] \in E
  OBVIOUS
<1>4. \A f : Before(e, f) <=> IsSuite(e) /\ IsMain(f)
  BY DEF Before, CompareMessages
<1>5. \A x \in E : At(x) \in Nat /\ page[At(x)] = x.reading
  BY PlaceInPage DEF OfPage
<1> SUFFICES ASSUME NEW p \in 1..Len(r), NEW q \in 1..Len(r), p < q, IsMain(r[p]), ~IsMain(r[q])
             PROVE  At(r[p]) < At(r[q]) /\ (IsSuite(r[q]) => Parted(r[p], r[q]))
  BY DEF Ordered, r
<1>6. CASE p # i /\ q # i
  <2> DEFINE j == IF p < i THEN p ELSE p - 1
             l == IF q < i THEN q ELSE q - 1
  <2>1. j \in 1..Len(s) /\ l \in 1..Len(s) /\ j < l
    BY <1>2, <1>3, <1>6
  <2>2. r[p] = s[j] /\ r[q] = s[l]
    BY <1>2, <1>6
  <2> HIDE DEF j, l
  <2> QED
    BY <2>1, <2>2 DEF Ordered
<1>7. CASE p = i
  <2>1. IsMain(e)
    BY <1>2, <1>7
  <2>2. \A f : ~Before(e, f)
    BY <1>4, <2>1 DEF IsMain, IsSuite
  <2>3. i < Len(s) + 1 /\ s # <<>> /\ i \in i..Len(s)
    BY <1>2, <1>3, <1>7
  <2> QED
    BY <1>1, <2>2, <2>3
<1>8. CASE q = i
  <2>1. r[q] = e /\ r[p] = s[p] /\ p \in 1..Len(s) /\ i # 1 /\ i - 1 \in 1..Len(s)
    BY <1>2, <1>3, <1>8
  <2> DEFINE x == s[p]
             y == s[i - 1]
  <2>2. x \in E /\ y \in E /\ IsMain(x) /\ ~IsMain(e)
    BY <1>3, <2>1
  <2>3. At(x) \in Nat /\ At(y) \in Nat /\ At(e) \in Nat /\ At(x) <= At(e) /\ At(y) <= At(e)
    BY <1>3, <1>5, <2>1
  <2>4. At(x) < At(e)
    <3>1. At(x) # At(e)
      BY <1>5, <2>2 DEF IsMain
    <3> QED
      BY <2>3, <3>1
  <2>5. ASSUME IsSuite(e) PROVE Parted(x, e)
    <3>1. ~IsMain(y)
      BY <1>1, <1>4, <2>1, <2>5
    <3>2. p < i - 1
      <4>1. p # i - 1
        BY <2>2, <3>1
      <4> QED
        BY <1>3, <1>8, <2>1, <4>1
    <3>3. At(x) < At(y) /\ (IsSuite(y) => Parted(x, y))
      BY <2>1, <2>2, <3>1, <3>2 DEF Ordered
    <3> HIDE DEF x, y
    <3>4. CASE IsSuite(y)
      <4>1. PICK k \in (At(x) + 1)..(At(y) - 1) : Readings[page[k]].sensor \notin {"iss", "suite"}
        BY <3>3, <3>4 DEF Parted
      <4>2. k \in (At(x) + 1)..(At(e) - 1)
        BY <2>3
      <4> QED
        BY <4>1, <4>2 DEF Parted
    <3>5. CASE ~IsSuite(y)
      <4>1. At(y) # At(e)
        BY <1>5, <2>2, <2>5, <3>5 DEF IsSuite
      <4>2. At(y) \in (At(x) + 1)..(At(e) - 1)
        BY <2>3, <3>3, <4>1
      <4>3. Readings[page[At(y)]].sensor \notin {"iss", "suite"}
        BY <1>5, <2>2, <3>1, <3>5 DEF IsMain, IsSuite
      <4> QED
        BY <4>2, <4>3 DEF Parted
    <3> QED
      BY <3>4, <3>5
  <2> QED
    BY <2>1, <2>4, <2>5
<1> QED
  BY <1>6, <1>7, <1>8

LEMMA SortedOneByOne ==
  ASSUME NEW E, NEW list \in Seq(E)
  PROVE  \E f \in [0..Len(list) -> Seq(E)] :
            /\ f[0] = <<>> /\ SortEntries(list) = f[Len(list)]
            /\ \A k \in 1..Len(list) : f[k] = Placed(f[k - 1], list[k])
<1> DEFINE n == Len(list)
           S == Seq(E)
           base == <<>>
           g == [p \in (1..n) \X S |-> Placed(p[2], list[p[1]])]
           F(f) == [k \in 0..n |-> IF k = 0 THEN <<>> ELSE Placed(f[k - 1], list[k])]
<1>1. n \in Nat /\ base \in S /\ \A k \in 1..n : list[k] \in E
  OBVIOUS
<1>2. \A k \in 1..n, s \in S : Placed(s, list[k]) \in S
  <2> HIDE DEF n
  <2> QED BY <1>1, PlacedOnce
<1>3. g \in [(1..n) \X S -> S]
  <2> HIDE DEF S, n
  <2> QED BY <1>2
<1>4. PICK f \in [0..n -> S] : StepByStep(f, base, n, g)
  <2> HIDE DEF S, g, n, F, base
  <2> QED BY Zenon, <1>1, <1>3, Recursion
<1>5. \A k \in 1..n : f[k] = Placed(f[k - 1], list[k])
  <2> SUFFICES ASSUME NEW k \in 1..n PROVE f[k] = Placed(f[k - 1], list[k])
    OBVIOUS
  <2>1. k - 1 \in 0..n
    BY <1>1
  <2>2. <<k, f[k - 1]>> \in (1..n) \X S
    <3> HIDE DEF S, n
    <3> QED BY <1>4, <2>1
  <2>3. g[<<k, f[k - 1]>>] = Placed(f[k - 1], list[k])
    <3> HIDE DEF S, n
    <3> QED BY <2>2
  <2> HIDE DEF S, g, n
  <2> QED BY <1>4, <2>3 DEF StepByStep
<1>6. f = F(f)
  <2> HIDE DEF S, n
  <2>1. \A k \in 0..n : f[k] = F(f)[k]
    BY <1>1, <1>4, <1>5 DEF StepByStep
  <2>2. DOMAIN F(f) = 0..n /\ F(f) = [k \in 0..n |-> F(f)[k]]
    OBVIOUS
  <2>3. f = [k \in 0..n |-> f[k]]
    BY <1>4
  <2> HIDE DEF F
  <2> QED BY <2>1, <2>2, <2>3
<1> DEFINE w == CHOOSE w : w = F(w)
<1>7. w = F(w)
  <2> HIDE DEF F
  <2> QED BY <1>6
<1>8. SortEntries(list) = w[n]
  BY DEF SortEntries
<1>9. w[0] = <<>> /\ \A k \in 1..n : w[k] = Placed(w[k - 1], list[k])
  <2> HIDE DEF w, n
  <2>1. \A k \in 0..n : F(w)[k] = IF k = 0 THEN <<>> ELSE Placed(w[k - 1], list[k])
    OBVIOUS
  <2> HIDE DEF F
  <2>2. \A k \in 0..n : w[k] = IF k = 0 THEN <<>> ELSE Placed(w[k - 1], list[k])
    BY <1>7, <2>1
  <2>3. 0 \in 0..n /\ \A k \in 1..n : k \in 0..n /\ k # 0
    BY <1>1
  <2> QED BY <2>2, <2>3
<1> DEFINE T == {k \in Nat : k <= n => w[k] \in S}
<1>10. ASSUME NEW k \in Nat, \A i \in 0..(k - 1) : i \in T PROVE k \in T
  <2>1. SUFFICES ASSUME k <= n PROVE w[k] \in S
    <3> HIDE DEF S, w, n
    <3> QED OBVIOUS
  <2> HIDE DEF w, S, n
  <2>2. CASE k = 0
    BY <1>1, <1>9, <2>2 DEF base
  <2>3. CASE k # 0
    <3>1. k - 1 \in 0..(k - 1) /\ k \in 1..n /\ k - 1 <= n
      BY <1>1, <2>1, <2>3
    <3>2. w[k - 1] \in S
      BY <1>10, <3>1
    <3> QED
      BY <1>2, <1>9, <3>1, <3>2
  <2> QED
    BY <2>2, <2>3
<1>11. Nat \subseteq T
  <2> HIDE DEF T
  <2> QED BY <1>10, NoFirstFailure
<1>12. w \in [0..n -> S]
  <2> HIDE DEF S, n
  <2>1. \A k \in 0..n : w[k] \in S
    <3> HIDE DEF w
    <3> QED BY <1>1, <1>11
  <2>2. w = [k \in 0..n |-> F(w)[k]]
    <3> HIDE DEF w
    <3> QED BY <1>7
  <2> HIDE DEF w, F
  <2> QED BY <2>1, <2>2
<1> HIDE DEF w
<1> QED BY <1>8, <1>9, <1>12

\* The messages are the entries, and in an archive they are in order.
LEMMA EntriesSorted ==
  ASSUME NEW E, NEW list \in Seq(E)
  PROVE  /\ SortEntries(list) \in Seq(E)
         /\ \A x : Occurs(SortEntries(list), x) <=> Occurs(list, x)
         /\ PageKnown /\ kind = "archive" /\ OfPage(E) /\ Sorted(list)
            => Ordered(SortEntries(list))
<1> DEFINE n == Len(list)
           Holds(s, x) == \E p \in 1..Len(s) : s[p] = x
           InArchive == PageKnown /\ kind = "archive" /\ OfPage(E) /\ Sorted(list)
<1>1. PICK f \in [0..n -> Seq(E)] :
         /\ f[0] = <<>> /\ SortEntries(list) = f[n]
         /\ \A k \in 1..n : f[k] = Placed(f[k - 1], list[k])
  BY SortedOneByOne
<1>2. n \in Nat /\ \A k \in 1..n : list[k] \in E
  OBVIOUS
<1> DEFINE Good(k) == /\ \A x : Holds(f[k], x) <=> \E p \in 1..k : list[p] = x
                      /\ InArchive => Ordered(f[k])
           T == {k \in Nat : k <= n => Good(k)}
<1>3. ASSUME NEW k \in Nat, \A i \in 0..(k - 1) : i \in T PROVE k \in T
  <2> HIDE DEF n
  <2>1. SUFFICES ASSUME k <= n PROVE Good(k)
    OBVIOUS
  <2>2. CASE k = 0
    <3>1. f[k] = <<>> /\ Len(<<>>) = 0 /\ 1..k = {} /\ 1..0 = {}
      BY <1>1, <2>2
    <3> QED
      BY <3>1 DEF Ordered
  <2>3. CASE k # 0
    <3>1. k - 1 \in 0..(k - 1) /\ k \in 1..n /\ k - 1 <= n /\ k - 1 \in 0..n
      BY <1>2, <2>1, <2>3
    <3>2. Good(k - 1)
      <4> HIDE DEF Good
      <4>1. k - 1 \in T
        <5> HIDE DEF T
        <5> QED BY <1>3, <3>1
      <4> QED
        BY <3>1, <4>1
    <3> DEFINE s == f[k - 1]
               e == list[k]
    <3>3. s \in Seq(E) /\ e \in E /\ f[k] = Placed(s, e)
      BY <1>1, <1>2, <3>1
    <3>4. \A x : Holds(s, x) <=> \E p \in 1..(k - 1) : list[p] = x
      BY <3>2
    <3>5. InArchive => Ordered(s)
      BY <3>2
    <3> HIDE DEF s
    <3>6. \A x : Holds(Placed(s, e), x) <=> x = e \/ Holds(s, x)
      <4> HIDE DEF e
      <4>1. \A x : Occurs(Placed(s, e), x) <=> x = e \/ Occurs(s, x)
        BY <3>3, PlacedOnce
      <4> QED BY <4>1 DEF Occurs
    <3>7. 1..k = 1..(k - 1) \cup {k}
      BY <3>1
    <3>8. \A x : Holds(f[k], x) <=> \E p \in 1..k : list[p] = x
      <4>1. \A x : (\E p \in 1..k : list[p] = x) <=> x = e \/ \E p \in 1..(k - 1) : list[p] = x
        BY <3>7
      <4> HIDE DEF e, Holds
      <4> QED BY <3>3, <3>4, <3>6, <4>1
    <3>9. ASSUME InArchive PROVE Ordered(f[k])
      <4>1. \A p \in 1..Len(s) : At(s[p]) <= At(e)
        <5> SUFFICES ASSUME NEW p \in 1..Len(s) PROVE At(s[p]) <= At(e)
          OBVIOUS
        <5>1. Holds(s, s[p])
          OBVIOUS
        <5>2. PICK j \in 1..(k - 1) : list[j] = s[p]
          <6> HIDE DEF Holds
          <6> QED BY <3>4, <5>1
        <5>3. j \in 1..n /\ j < k
          BY <1>2, <3>1
        <5> QED
          BY <3>1, <3>9, <5>2, <5>3 DEF Sorted, n
      <4> HIDE DEF e
      <4> QED
        BY <3>3, <3>5, <3>9, <4>1, PlacedInOrder
    <3> QED
      BY <3>8, <3>9
  <2> QED
    BY <2>2, <2>3
<1>4. Nat \subseteq T
  <2> HIDE DEF T
  <2> QED BY <1>3, NoFirstFailure
<1>5. Good(n)
  <2>1. n \in T
    <3> HIDE DEF T
    <3> QED BY <1>2, <1>4
  <2> HIDE DEF Good
  <2> QED BY <1>2, <2>1
<1>6. f[n] \in Seq(E)
  BY <1>1, <1>2
<1>7. \A x : Occurs(f[n], x) <=> Occurs(list, x)
  BY <1>5 DEF Occurs
<1> QED
  BY <1>1, <1>5, <1>6, <1>7

\* In any order, the elements are the same.
LEMMA AnyOrderHasAll ==
  ASSUME NEW E, NEW list \in Seq(E), NEW s \in InAnyOrder(list)
  PROVE  s \in Seq(E) /\ \A x : Occurs(s, x) <=> Occurs(list, x)
<1> DEFINE n == Len(list)
<1>1. n \in Nat /\ DOMAIN list = 1..n /\ \A k \in 1..n : list[k] \in E
  OBVIOUS
<1>2. PICK f \in Bijection(1..n, 1..n) : s = [k \in 1..n |-> list[f[k]]]
  BY <1>1 DEF InAnyOrder
<1>3. f \in [1..n -> 1..n] /\ \A w \in 1..n : \E v \in 1..n : f[v] = w
  BY DEF Bijection, Injection, Surjection
<1> HIDE DEF n
<1>4. s \in Seq(E) /\ Len(s) = n /\ \A k \in 1..n : s[k] = list[f[k]]
  <2>1. \A k \in 1..n : f[k] \in 1..n /\ list[f[k]] \in E
    BY <1>1, <1>3
  <2>2. s \in [1..n -> E] /\ \A k \in 1..n : s[k] = list[f[k]]
    BY <1>2, <2>1
  <2> QED
    BY <1>1, <2>2
<1>5. ASSUME NEW x PROVE Occurs(s, x) <=> Occurs(list, x)
  <2>1. Occurs(s, x) <=> \E k \in 1..n : list[f[k]] = x
    BY <1>4 DEF Occurs
  <2>2. Occurs(list, x) <=> \E k \in 1..n : list[k] = x
    BY DEF Occurs, n
  <2> QED
    BY <1>3, <2>1, <2>2
<1> QED
  BY <1>4, <1>5

\* The stations and the suites of an archive, without other sensors, are in the order
\* std::sort requires.
LEMMA SuitesGoBefore ==
  ASSUME kind = "archive", NEW E, \A e \in E : IsMain(e) \/ IsSuite(e)
  PROVE  IsStrictWeak(E)
<1>1. \A e, f : Before(e, f) <=> IsSuite(e) /\ IsMain(f)
  BY DEF Before, CompareMessages
<1>2. \A e : ~(IsMain(e) /\ IsSuite(e))
  BY DEF IsMain, IsSuite
<1> DEFINE R == [p \in E \X E |-> Before(p[1], p[2])]
           T == [p \in E \X E |-> Tied(p[1], p[2])]
<1>3. \A e, f \in E : R[e, f] = Before(e, f) /\ T[e, f] = Tied(e, f)
  OBVIOUS
<1> HIDE DEF R, T
<1>4. IsStrictlyPartiallyOrdered(R, E)
  BY <1>1, <1>2, <1>3 DEF IsStrictlyPartiallyOrdered, IsIrreflexive, IsAntiSymmetric, IsTransitive
<1>5. IsTransitive(T, E)
  BY <1>1, <1>2, <1>3 DEF IsTransitive, Tied
<1> QED
  BY <1>4, <1>5 DEF IsStrictWeak, IsStrictlyPartiallyOrderedUnder, IsTransitiveUnder, R, T

\* However std::sort goes about it, it keeps the entries; the few are in the order of the
\* insertions, and the many in that of the comparison, when there is one.
LEMMA SortKeepsEntries ==
  ASSUME NEW E, NEW list \in Seq(E), NEW s \in Sortings(list)
  PROVE  /\ s \in Seq(E)
         /\ \A x : Occurs(s, x) <=> Occurs(list, x)
         /\ Len(list) <= InsertionLimit => s = SortEntries(list)
         /\ Len(list) > InsertionLimit /\ ~SortIsUndefined(list) => IsInOrder(s)
<1>1. Len(list) \in Nat /\ InsertionLimit \in Nat
  BY WlAssumption
<1>2. CASE Len(list) <= InsertionLimit
  <2>1. s = SortEntries(list)
    BY <1>2 DEF Sortings
  <2> QED
    BY <1>1, <1>2, <2>1, EntriesSorted
<1>3. CASE ~(Len(list) <= InsertionLimit)
  <2>1. s \in InAnyOrder(list) /\ (~SortIsUndefined(list) => IsInOrder(s))
    BY <1>3 DEF Sortings
  <2> QED
    BY <1>3, <2>1, AnyOrderHasAll
<1> QED
  BY <1>2, <1>3

-----------------------------------------------------------------------------
(* What the sensors send, and what the messages have of it                  *)

KnownReading(r) ==
    /\ r.sends \subseteq HasData(r) /\ HasVariables(r)
    /\ r.device \in {"live", "console", "ip", "enviromonitor"}
    /\ r.times \in Seq(Nat) /\ r.times # <<>> /\ r.rain \in Nat

\* A parser of its own sets the measures that the variables of a sensor say.
LEMMA ParsersFollowVariables ==
  ASSUME NEW r, KnownReading(r), HasParser(r)
  PROVE  ParserOf(r) # "none" /\ CustomMembers(r) = Meant(r) /\ "rainFall" \notin Meant(r)
<1> DEFINE v == r.variables
           D == DOMAIN v
           T == {"temperature", "extraTemperature", "leafTemperature", "soilTemperature"}
           H == {"humidity", "extraHumidity"}
           own == {v[n] : n \in D \cap r.sends}
<1>1. D # {} /\ HasVariables(r) /\ r.sends \subseteq HasData(r)
  BY DEF KnownReading, HasParser
<1>2. /\ "temperature" \in D => v["temperature"] \in T
      /\ "humidity" \in D => v["humidity"] \in H
      /\ \A n \in {"solarRad", "uvIndex", "soilMoisture", "soilProfile"} : n \in D => v[n] = n
  BY <1>1 DEF HasVariables, Renamed
<1>3. Measures(r) = {v[n] : n \in D \cap r.sends \cap {"temperature", "humidity"}}
  BY DEF Measures, Send, Variable
<1>4. CASE r.sensor = "thermohygro"
  <2>1. D \subseteq {"temperature", "humidity"}
    BY <1>1, <1>4 DEF HasVariables
  <2>2. ParserOf(r) = "ThermohygroProbe100Parser"
    BY <1>4 DEF ParserOf
  <2>3. CustomMembers(r) = ThermohygroProbe(r)
    BY <2>2 DEF CustomMembers
  <2>4. own = Measures(r)
    BY <1>3, <2>1
  <2>5. "temperature" \in Measures(r)
        <=> "temperature" \in D \cap r.sends /\ v["temperature"] = "temperature"
    BY <1>2, <1>3
  <2>6. "wind" \notin D
    BY <2>1
  <2>7. Meant(r) = Measures(r) \cup IF "temperature" \in Measures(r) THEN MinMax ELSE {}
    <3> HIDE DEF D, v
    <3> QED
      BY <1>4, <2>4, <2>5, <2>6 DEF Meant, own, D, v
  <2>8. "rainFall" \notin Measures(r)
    BY <1>2, <1>3
  <2> QED
    BY <2>2, <2>3, <2>7, <2>8 DEF ThermohygroProbe, MinMax
<1>5. CASE r.sensor \in {"soilprobe", "sentek"}
  <2> DEFINE m == IF r.sensor = "soilprobe" THEN "soilMoisture" ELSE "soilProfile"
  <2>1. D = {m} /\ v[m] = m
    <3>1. D \subseteq {m}
      BY <1>1, <1>5 DEF HasVariables
    <3> QED
      BY <1>1, <1>2, <1>5, <3>1
  <2>2. ParserOf(r) = IF r.sensor = "soilprobe" THEN "SoilProbe108Parser" ELSE "SentekProbe116Parser"
    BY <1>5 DEF ParserOf
  <2>3. CustomMembers(r) = r.sends \cap {m}
    BY <1>5, <2>1, <2>2 DEF CustomMembers, SoilProbe, SentekProbe, Send, Variable
  <2>4. Meant(r) = own
    BY <1>5, <2>1 DEF Meant
  <2>5. own = r.sends \cap {m}
    BY <2>1
  <2> QED
    BY <1>5, <2>2, <2>3, <2>4, <2>5
<1>6. CASE (r.sensor = "suite" /\ IsLive(r.device)) \/ (r.sensor = "iss" /\ r.device = "console")
  <2>1. D \subseteq {"temperature", "humidity", "wind", "solarRad", "uvIndex"}
    BY <1>1, <1>6 DEF HasVariables
  <2>2. ParserOf(r) = "DavisTransmitter55Parser" /\ IsLive(r.device)
    BY <1>6 DEF ParserOf, IsLive
  <2>3. CustomMembers(r) = DavisTransmitter(r)
    BY <2>2 DEF CustomMembers
  <2>4. "wind" \notin r.sends
    BY <1>1, <1>6 DEF HasData, IsLive, Outside, Wind
  <2>5. own = Measures(r) \cup {n \in r.sends \cap {"solarRad", "uvIndex"} : n \in D}
    <3>1. D \cap r.sends = (D \cap r.sends \cap {"temperature", "humidity"})
                           \cup {n \in r.sends \cap {"solarRad", "uvIndex"} : n \in D}
      BY <2>1, <2>4
    <3> HIDE DEF D, v
    <3> QED
      BY <1>2, <1>3, <3>1
  <2>6. "wind" \in D => Send(r, Wind, Wind) = Wind \cap r.sends
    BY <1>1 DEF HasVariables, Send, Wind
  <2>7. Meant(r) = own \cup (IF "wind" \in D THEN Wind \cap r.sends ELSE {})
    BY <1>6 DEF Meant
  <2>8. DavisTransmitter(r) = own \cup (IF "wind" \in D THEN Wind \cap r.sends ELSE {})
    BY <2>5, <2>6 DEF DavisTransmitter
  <2>9. "rainFall" \notin own
    BY <1>2, <1>3, <2>5
  <2> QED
    BY <2>2, <2>3, <2>7, <2>8, <2>9 DEF Wind
<1>7. CASE /\ r.sensor \notin {"thermohygro", "soilprobe", "sentek"}
           /\ ~((r.sensor = "suite" /\ IsLive(r.device)) \/ (r.sensor = "iss" /\ r.device = "console"))
  BY <1>1, <1>7 DEF HasVariables
<1> QED
  BY <1>4, <1>5, <1>6, <1>7

\* The data of a sensor is read, except that of a probe without its parser.
LEMMA DataIsRead ==
  ASSUME NEW r, KnownReading(r), kind \in {"archive", "realtime", "noaa"},
         kind = "noaa" <=> r.sensor = "noaa"
  PROVE  IF r.sensor \in Probes THEN Ingested(r.sensor, r.device) = {}
         ELSE r.sends \subseteq Ingested(r.sensor, r.device)
<1> DEFINE I == Ingested(r.sensor, r.device)
           D == HasData(r)
<1>1. CASE r.sensor \in Probes
  BY <1>1 DEF Ingested, IngestArchive, IngestRealtime, Probes
<1>2. CASE r.sensor \notin Probes
  <2>1. CASE kind = "noaa"
    BY <2>1, <1>2 DEF Ingested, IngestNoaaExt, HasData, KnownReading
  <2>2. CASE kind = "archive"
    <3>1. I = IngestArchive(r.sensor, r.device)
      BY <2>2 DEF Ingested
    <3>2. D \subseteq IngestArchive(r.sensor, r.device)
      BY <1>2, <2>2 DEF IngestArchive, HasData, KnownReading, IsLive, Probes, Outside
    <3> QED
      BY <1>2, <3>1, <3>2 DEF KnownReading
  <2>3. CASE kind = "realtime"
    <3>1. I = IngestRealtime(r.sensor, r.device)
      BY <2>3 DEF Ingested
    <3>2. D \subseteq IngestRealtime(r.sensor, r.device)
      BY <1>2, <2>3 DEF IngestRealtime, IngestStation, HasData, KnownReading, IsLive, Probes, Outside
    <3> QED
      BY <1>2, <3>1, <3>2 DEF KnownReading
  <2> QED
    BY <2>1, <2>2, <2>3
<1> QED
  BY <1>1, <1>2

-----------------------------------------------------------------------------
(* The messages of a page                                                   *)

\* What a page is.
WlPage ==
    /\ page \in Pages
    /\ kind \in {"archive", "realtime", "noaa"} /\ substations \in BOOLEAN
    /\ kind = "noaa" => ~substations /\ Len(page) = 1
    /\ kind = "noaa" <=> IsNoaa(page)

ReadsPlainly(r) == ~HasParser(r) /\ Ingested(r.sensor, r.device) # {}
ReadsItsOwn(r) == HasParser(r) /\ ParserOf(r) # "none"
\* A message is one of the readings of the page that are accepted, at one of its times.
Gives(i, members) ==
    /\ i \in Range(page) /\ AcceptEntry(Readings[i])
    /\ \/ ReadsPlainly(Readings[i]) /\ members = ConventionalMessage(i)
       \/ ReadsItsOwn(Readings[i]) /\ members = CustomMessage(i)
IsMessage(e) ==
    /\ e = Entry(e.reading, e.time, e.members)
    /\ Gives(e.reading, e.members)
    /\ e.time \in Range(Times(Readings[e.reading]))
\* Another sensor is between two of them in the page.
Apart(e, f) ==
    \E i, j, k \in DOMAIN page :
        /\ i < k /\ k < j /\ page[i] = e.reading /\ page[j] = f.reading
        /\ Readings[page[k]].sensor \notin {"iss", "suite"}
IsPlain(e) == ~HasParser(Readings[e.reading])
LEMMA PageIsKnown ==
  ASSUME WlPage
  PROVE  /\ PageKnown /\ Range(page) \subseteq DOMAIN Readings
         /\ DOMAIN page = 1..Len(page) /\ Len(page) \in Nat /\ Len(page) >= 1
         /\ \A i \in Range(page) : KnownReading(Readings[i]) /\ i \in Nat
                                   /\ (kind = "noaa" <=> Readings[i].sensor = "noaa")
<1>1. PICK n \in 1..PageLength : page \in [1..n -> DOMAIN Readings] /\ IsInjective(page)
  BY DEF WlPage, Pages
<1>2. n \in Nat /\ n >= 1 /\ Len(page) = n /\ DOMAIN page = 1..n
  BY <1>1, WlAssumption
<1>3. PageKnown
  BY <1>1, <1>2 DEF PageKnown
<1>4. Range(page) \subseteq DOMAIN Readings
  BY <1>1 DEF Range
<1>5. \A i \in Range(page) : KnownReading(Readings[i]) /\ i \in Nat
  BY <1>4, WlAssumption DEF KnownReading
<1>6. ASSUME NEW i \in Range(page) PROVE kind = "noaa" <=> Readings[i].sensor = "noaa"
  <2>1. PICK k \in 1..n : page[k] = i
    BY <1>2 DEF Range
  <2>2. CASE kind = "noaa"
    <3>1. n = 1
      BY <1>2, <2>2 DEF WlPage
    <3>2. k = 1 /\ \A l \in DOMAIN page : l = 1
      BY <1>2, <3>1
    <3> QED
      BY <2>1, <2>2, <3>2 DEF WlPage, IsNoaa
  <2>3. CASE kind # "noaa"
    BY <1>2, <2>1, <2>3 DEF WlPage, IsNoaa
  <2> QED
    BY <2>2, <2>3
<1> QED
  BY <1>2, <1>3, <1>4, <1>5, <1>6

LEMMA TimesOfReading ==
  ASSUME NEW r, KnownReading(r)
  PROVE  Times(r) \in Seq(Nat)
BY DEF Times, KnownReading

\* The entries of one reading.
LEMMA EntriesOf ==
  ASSUME NEW i, KnownReading(Readings[i]), NEW members
  PROVE  /\ Entries(i, members) \in Seq([reading : {i}, time : Nat, members : {members}])
         /\ \A e : Occurs(Entries(i, members), e)
                   <=> /\ e = Entry(e.reading, e.time, e.members)
                       /\ e.reading = i /\ e.members = members
                       /\ e.time \in Range(Times(Readings[i]))
<1> DEFINE times == Times(Readings[i])
           s == Entries(i, members)
           A == [reading : {i}, time : Nat, members : {members}]
<1>1. times \in Seq(Nat)
  BY TimesOfReading
<1>2. Len(times) \in Nat /\ DOMAIN times = 1..Len(times) /\ \A k \in 1..Len(times) : times[k] \in Nat
  <2> HIDE DEF times
  <2> QED BY <1>1
<1>3. s = [k \in 1..Len(times) |-> Entry(i, times[k], members)]
  BY <1>2 DEF Entries
<1> HIDE DEF times, s
<1>4. \A k \in 1..Len(times) : Entry(i, times[k], members) \in A
  BY <1>2 DEF Entry
<1>5. s \in Seq(A) /\ Len(s) = Len(times) /\ \A k \in 1..Len(times) : s[k] = Entry(i, times[k], members)
  <2> HIDE DEF A
  <2> QED BY <1>2, <1>3, <1>4
<1>6. ASSUME NEW e
      PROVE  Occurs(s, e) <=> /\ e = Entry(e.reading, e.time, e.members)
                              /\ e.reading = i /\ e.members = members
                              /\ e.time \in Range(times)
  <2>1. ASSUME Occurs(s, e)
        PROVE  /\ e = Entry(e.reading, e.time, e.members)
               /\ e.reading = i /\ e.members = members
               /\ e.time \in Range(times)
    <3>1. PICK k \in 1..Len(times) : e = Entry(i, times[k], members)
      BY <1>5, <2>1 DEF Occurs
    <3>2. e.reading = i /\ e.members = members /\ e.time = times[k]
      BY <3>1 DEF Entry
    <3> QED
      BY <1>2, <3>1, <3>2 DEF Range
  <2>2. ASSUME e = Entry(i, e.time, members), e.time \in Range(times)
        PROVE  Occurs(s, e)
    <3>1. PICK k \in 1..Len(times) : times[k] = e.time
      BY <1>2, <2>2 DEF Range
    <3>2. s[k] = e
      BY <1>5, <2>2, <3>1
    <3> QED
      BY <1>5, <3>2 DEF Occurs
  <2> QED
    BY <2>1, <2>2
<1> QED
  BY <1>5, <1>6 DEF s, times

\* An entry of one of some readings of the page, with the members they give.
IsFrom(e, P, M) ==
    \E k \in DOMAIN page : /\ k \in P
                           /\ e = Entry(e.reading, e.time, e.members)
                           /\ e.reading = page[k] /\ e.members = M[k]
                           /\ e.time \in Range(Times(Readings[page[k]]))

\* The entries of some readings of the page, in its order.
LEMMA EntriesOfSome ==
  ASSUME WlPage, NEW P, NEW M, NEW E, NEW L,
         \A k \in DOMAIN page : [reading : {page[k]}, time : Nat, members : {M[k]}] \subseteq E,
         L = [k \in DOMAIN page |-> IF k \in P THEN Entries(page[k], M[k]) ELSE <<>>]
  PROVE  /\ FlattenSeq(L) \in Seq(E) /\ Sorted(FlattenSeq(L))
         /\ \A e : Occurs(FlattenSeq(L), e) <=> IsFrom(e, P, M)
<1>1. PageKnown /\ \A k \in DOMAIN page : KnownReading(Readings[page[k]])
  BY PageIsKnown DEF Range
<1>2. ASSUME NEW k \in DOMAIN page
      PROVE  /\ L[k] \in Seq(E) /\ \A p \in 1..Len(L[k]) : L[k][p].reading = page[k]
             /\ \A e : Occurs(L[k], e) <=> /\ k \in P
                                           /\ e = Entry(e.reading, e.time, e.members)
                                           /\ e.reading = page[k] /\ e.members = M[k]
                                           /\ e.time \in Range(Times(Readings[page[k]]))
  <2>1. CASE k \in P
    <3> DEFINE s == Entries(page[k], M[k])
               A == [reading : {page[k]}, time : Nat, members : {M[k]}]
    <3>1. L[k] = s
      BY <2>1
    <3>2. /\ s \in Seq(A)
          /\ \A e : Occurs(s, e) <=> /\ e = Entry(e.reading, e.time, e.members)
                                     /\ e.reading = page[k] /\ e.members = M[k]
                                     /\ e.time \in Range(Times(Readings[page[k]]))
      BY <1>1, EntriesOf
    <3>3. \A a \in A : a.reading = page[k]
      OBVIOUS
    <3>4. A \subseteq E
      OBVIOUS
    <3> HIDE DEF s, A
    <3>5. s \in Seq(E) /\ \A p \in 1..Len(s) : s[p].reading = page[k]
      BY <3>2, <3>3, <3>4
    <3> QED
      BY <2>1, <3>1, <3>2, <3>5
  <2>2. CASE k \notin P
    <3>1. L[k] = <<>> /\ Len(<<>>) = 0 /\ 1..0 = {}
      BY <2>2
    <3>2. \A e : ~Occurs(L[k], e)
      BY <3>1 DEF Occurs
    <3> QED
      BY <2>2, <3>1, <3>2
  <2> QED
    BY <2>1, <2>2
<1>3. ListsOfPage(L, E)
  <2>1. L = [k \in DOMAIN page |-> L[k]]
    OBVIOUS
  <2> QED
    BY <1>2, <2>1 DEF ListsOfPage
<1>4. /\ FlattenSeq(L) \in Seq(E) /\ Sorted(FlattenSeq(L))
      /\ \A x : Occurs(FlattenSeq(L), x) <=> \E k \in DOMAIN page : Occurs(L[k], x)
  BY <1>1, <1>3, ListsInOrder
<1> QED
  BY <1>2, <1>4 DEF IsFrom

\* What a page is parsed to.
ParsedMessages ==
    IF kind = "noaa" THEN {Entries(page[1], ConventionalMessage(page[1]))}
    ELSE {sorted \o CustomEntries : sorted \in Sortings(ConventionalEntries)}

MembersOfPage == {ConventionalMessage(i) : i \in Range(page)} \cup {CustomMessage(i) : i \in Range(page)}
AllMessages == [reading : Range(page), time : Nat, members : MembersOfPage]

LEMMA PlainEntries ==
  ASSUME WlPage
  PROVE  /\ ConventionalEntries \in Seq(AllMessages) /\ Sorted(ConventionalEntries)
         /\ \A e : Occurs(ConventionalEntries, e)
                   <=> IsMessage(e) /\ ReadsPlainly(Readings[e.reading])
<1> DEFINE E == AllMessages
           P == {k \in DOMAIN page : AcceptEntry(Readings[page[k]]) /\ ReadsPlainly(Readings[page[k]])}
           M == [k \in DOMAIN page |-> ConventionalMessage(page[k])]
           L == [k \in DOMAIN page |-> IF k \in P THEN Entries(page[k], M[k]) ELSE <<>>]
<1>1. ConventionalEntries = FlattenSeq(L)
  <2> DEFINE K == [k \in DOMAIN page |->
        LET r == Readings[page[k]]
        IN  IF AcceptEntry(r) /\ ~HasParser(r) /\ Ingested(r.sensor, r.device) # {}
            THEN Entries(page[k], ConventionalMessage(page[k])) ELSE <<>>]
  <2>1. K = L
    BY DEF ReadsPlainly
  <2>2. ConventionalEntries = FlattenSeq(K)
    BY DEF ConventionalEntries
  <2> HIDE DEF K, L
  <2> QED
    BY <2>1, <2>2
<1>2. \A k \in DOMAIN page : page[k] \in Range(page) /\ M[k] \in MembersOfPage
  BY DEF Range, MembersOfPage
<1>3. \A k \in DOMAIN page : [reading : {page[k]}, time : Nat, members : {M[k]}] \subseteq E
  <2> HIDE DEF M
  <2> QED BY <1>2 DEF AllMessages
<1>4. L = [k \in DOMAIN page |-> IF k \in P THEN Entries(page[k], M[k]) ELSE <<>>]
  OBVIOUS
<1> HIDE DEF L, E
<1>5. /\ FlattenSeq(L) \in Seq(E) /\ Sorted(FlattenSeq(L))
      /\ \A e : Occurs(FlattenSeq(L), e)
                <=> IsFrom(e, P, M)
  <2> HIDE DEF P, M
  <2> QED BY <1>3, <1>4, EntriesOfSome
<1>6. ASSUME NEW e
      PROVE  IsFrom(e, P, M)
             <=> IsMessage(e) /\ ReadsPlainly(Readings[e.reading])
  <2>1. e.reading \in Range(page) <=> \E k \in DOMAIN page : page[k] = e.reading
    BY DEF Range
  <2>2. ReadsPlainly(Readings[e.reading]) => ~ReadsItsOwn(Readings[e.reading])
    BY DEF ReadsPlainly, ReadsItsOwn
  <2> QED
    BY <2>1, <2>2 DEF IsMessage, Gives, IsFrom
<1> HIDE DEF P, M
<1> QED
  BY <1>1, <1>5, <1>6 DEF E

LEMMA ItsOwnEntries ==
  ASSUME WlPage
  PROVE  /\ CustomEntries \in Seq(AllMessages)
         /\ \A e : Occurs(CustomEntries, e)
                   <=> IsMessage(e) /\ ReadsItsOwn(Readings[e.reading])
<1> DEFINE E == AllMessages
           P == {k \in DOMAIN page : AcceptEntry(Readings[page[k]]) /\ ReadsItsOwn(Readings[page[k]])}
           M == [k \in DOMAIN page |-> CustomMessage(page[k])]
           L == [k \in DOMAIN page |-> IF k \in P THEN Entries(page[k], M[k]) ELSE <<>>]
<1>1. CustomEntries = FlattenSeq(L)
  <2> DEFINE K == [k \in DOMAIN page |->
        LET r == Readings[page[k]]
        IN  IF AcceptEntry(r) /\ HasParser(r) /\ ParserOf(r) # "none"
            THEN Entries(page[k], CustomMessage(page[k])) ELSE <<>>]
  <2>1. K = L
    BY DEF ReadsItsOwn
  <2>2. CustomEntries = FlattenSeq(K)
    BY DEF CustomEntries
  <2> HIDE DEF K, L
  <2> QED
    BY <2>1, <2>2
<1>2. \A k \in DOMAIN page : page[k] \in Range(page) /\ M[k] \in MembersOfPage
  BY DEF Range, MembersOfPage
<1>3. \A k \in DOMAIN page : [reading : {page[k]}, time : Nat, members : {M[k]}] \subseteq E
  <2> HIDE DEF M
  <2> QED BY <1>2 DEF AllMessages
<1>4. L = [k \in DOMAIN page |-> IF k \in P THEN Entries(page[k], M[k]) ELSE <<>>]
  OBVIOUS
<1> HIDE DEF L, E
<1>5. /\ FlattenSeq(L) \in Seq(E)
      /\ \A e : Occurs(FlattenSeq(L), e)
                <=> IsFrom(e, P, M)
  <2> HIDE DEF P, M
  <2> QED BY <1>3, <1>4, EntriesOfSome
<1>6. ASSUME NEW e
      PROVE  IsFrom(e, P, M)
             <=> IsMessage(e) /\ ReadsItsOwn(Readings[e.reading])
  <2>1. e.reading \in Range(page) <=> \E k \in DOMAIN page : page[k] = e.reading
    BY DEF Range
  <2>2. ReadsItsOwn(Readings[e.reading]) => ~ReadsPlainly(Readings[e.reading])
    BY DEF ReadsPlainly, ReadsItsOwn
  <2> QED
    BY <2>1, <2>2 DEF IsMessage, Gives, IsFrom
<1> HIDE DEF P, M
<1> QED
  BY <1>1, <1>5, <1>6 DEF E

\* The messages of a page are those of its readings, each of them, and in an archive
\* no suite follows the station that does not have to.
MessagesOf(list) ==
    /\ list \in Seq(Range(list))
    /\ \A e : Occurs(list, e) <=> IsMessage(e)
    /\ kind = "archive" /\ ~LongAndMixed =>
         \A p, q \in 1..Len(list) :
            p < q /\ IsMain(list[p]) /\ IsSuite(list[q]) /\ IsPlain(list[q])
            => Apart(list[p], list[q])

LEMMA SequenceOfItsOwn ==
  ASSUME NEW E, NEW s \in Seq(E)
  PROVE  s \in Seq(Range(s))
<1>1. s = [k \in 1..Len(s) |-> s[k]] /\ Len(s) \in Nat /\ \A k \in 1..Len(s) : s[k] \in Range(s)
  BY DEF Range
<1> QED
  BY <1>1

LEMMA PageParsed ==
  ASSUME WlPage, NEW list \in ParsedMessages
  PROVE  MessagesOf(list)
<1>1. /\ PageKnown
      /\ DOMAIN page = 1..Len(page) /\ Len(page) \in Nat /\ Len(page) >= 1
      /\ \A i \in Range(page) : KnownReading(Readings[i]) /\ (kind = "noaa" <=> Readings[i].sensor = "noaa")
  BY PageIsKnown
<1>2. CASE kind = "noaa"
  <2> DEFINE i == page[1]
             s == Entries(i, ConventionalMessage(i))
  <2>1. Range(page) = {i} /\ Readings[i].sensor = "noaa" /\ ~substations /\ KnownReading(Readings[i])
    <3>1. Len(page) = 1 /\ ~substations
      BY <1>2 DEF WlPage
    <3>2. Range(page) = {i}
      BY <1>1, <3>1 DEF Range
    <3> QED
      BY <1>1, <1>2, <3>1, <3>2
  <2>2. AcceptEntry(Readings[i]) /\ ReadsPlainly(Readings[i]) /\ ~ReadsItsOwn(Readings[i])
    <3>1. Ingested(Readings[i].sensor, Readings[i].device) = IngestNoaaExt
      BY <1>2, <2>1 DEF Ingested
    <3>2. "pressure" \in IngestNoaaExt
      BY DEF IngestNoaaExt
    <3> QED
      BY <2>1, <3>1, <3>2 DEF AcceptEntry, ReadsPlainly, ReadsItsOwn, HasParser
  <2>3. /\ s \in Seq([reading : {i}, time : Nat, members : {ConventionalMessage(i)}])
        /\ \A e : Occurs(s, e) <=> /\ e = Entry(e.reading, e.time, e.members)
                                   /\ e.reading = i /\ e.members = ConventionalMessage(i)
                                   /\ e.time \in Range(Times(Readings[i]))
    BY <2>1, EntriesOf
  <2>4. \A e : Occurs(s, e) <=> IsMessage(e)
    <3> HIDE DEF i, s
    <3> QED
      BY <2>1, <2>2, <2>3 DEF IsMessage, Gives
  <2>5. s \in Seq(Range(s))
    <3> HIDE DEF s
    <3> QED
      BY <2>3, SequenceOfItsOwn
  <2>6. list = s
    BY <1>2 DEF ParsedMessages
  <2> HIDE DEF s
  <2> QED
    BY <1>2, <2>4, <2>5, <2>6 DEF MessagesOf
<1>3. CASE kind # "noaa"
  <2>0. PICK a \in Sortings(ConventionalEntries) : list = a \o CustomEntries
    BY <1>3 DEF ParsedMessages
  <2> DEFINE E == AllMessages
             c == ConventionalEntries
             b == CustomEntries
             s == a \o b
  <2>1. /\ c \in Seq(E) /\ Sorted(c)
        /\ \A e : Occurs(c, e) <=> IsMessage(e) /\ ReadsPlainly(Readings[e.reading])
    BY PlainEntries
  <2>2. /\ b \in Seq(E)
        /\ \A e : Occurs(b, e) <=> IsMessage(e) /\ ReadsItsOwn(Readings[e.reading])
    BY ItsOwnEntries
  <2>3. OfPage(E)
    BY DEF OfPage, AllMessages
  <2> HIDE DEF E, c, b
  <2>4. /\ a \in Seq(E) /\ \A x : Occurs(a, x) <=> Occurs(c, x)
        /\ kind = "archive" /\ Len(c) <= InsertionLimit => Ordered(a)
        /\ Len(c) > InsertionLimit /\ ~SortIsUndefined(c) => IsInOrder(a)
    <3>1. a \in Sortings(c)
      BY DEF c
    <3>2. /\ a \in Seq(E) /\ \A x : Occurs(a, x) <=> Occurs(c, x)
          /\ Len(c) <= InsertionLimit => a = SortEntries(c)
          /\ Len(c) > InsertionLimit /\ ~SortIsUndefined(c) => IsInOrder(a)
      BY <2>1, <3>1, SortKeepsEntries
    <3> QED
      BY <1>1, <2>1, <2>3, <3>2, EntriesSorted
  <2>5. /\ s \in Seq(E) /\ Len(s) = Len(a) + Len(b)
        /\ \A j \in 1..Len(a) : s[j] = a[j]
        /\ \A j \in (Len(a) + 1)..(Len(a) + Len(b)) : s[j] = b[j - Len(a)]
        /\ Len(a) \in Nat /\ Len(b) \in Nat
    BY <2>2, <2>4, OneAfterTheOther
  <2> HIDE DEF s
  <2>6. ASSUME NEW x PROVE Occurs(s, x) <=> Occurs(a, x) \/ Occurs(b, x)
    <3>1. ASSUME Occurs(s, x) PROVE Occurs(a, x) \/ Occurs(b, x)
      <4>1. PICK p \in 1..Len(s) : s[p] = x
        BY <3>1 DEF Occurs
      <4>2. CASE p <= Len(a)
        BY <2>5, <4>1, <4>2 DEF Occurs
      <4>3. CASE p > Len(a)
        <5>1. p - Len(a) \in 1..Len(b) /\ b[p - Len(a)] = x
          BY <2>5, <4>1, <4>3
        <5> QED
          BY <5>1 DEF Occurs
      <4> QED
        BY <2>5, <4>2, <4>3
    <3>2. ASSUME Occurs(a, x) PROVE Occurs(s, x)
      BY <2>5, <3>2 DEF Occurs
    <3>3. ASSUME Occurs(b, x) PROVE Occurs(s, x)
      <4>1. PICK p \in 1..Len(b) : b[p] = x
        BY <3>3 DEF Occurs
      <4>2. p + Len(a) \in 1..Len(s) /\ (p + Len(a)) - Len(a) = p
            /\ p + Len(a) \in (Len(a) + 1)..(Len(a) + Len(b))
        BY <2>5
      <4>3. s[p + Len(a)] = x
        BY <2>5, <4>1, <4>2
      <4> QED
        BY <4>2, <4>3 DEF Occurs
    <3> QED
      BY <3>1, <3>2, <3>3
  <2>7. \A e : Occurs(s, e) <=> IsMessage(e)
    <3>1. \A e : IsMessage(e) => ReadsPlainly(Readings[e.reading]) \/ ReadsItsOwn(Readings[e.reading])
      BY DEF IsMessage, Gives
    <3> QED
      BY <2>1, <2>2, <2>4, <2>6, <3>1
  <2>8. s \in Seq(Range(s))
    BY <2>5, SequenceOfItsOwn
  <2>9. ASSUME kind = "archive", ~LongAndMixed, NEW p \in 1..Len(s), NEW q \in 1..Len(s), p < q,
               IsMain(s[p]), IsSuite(s[q]), IsPlain(s[q])
        PROVE  Apart(s[p], s[q])
    <3>1. q <= Len(a)
      <4> SUFFICES ASSUME q > Len(a) PROVE FALSE
        BY <2>5
      <4>1. q - Len(a) \in 1..Len(b) /\ b[q - Len(a)] = s[q]
        BY <2>5
      <4>2. Occurs(b, s[q])
        BY <4>1 DEF Occurs
      <4> QED
        BY <2>2, <2>9, <4>2 DEF ReadsItsOwn, IsPlain
    <3>2. p \in 1..Len(a) /\ q \in 1..Len(a) /\ s[p] = a[p] /\ s[q] = a[q]
      BY <2>5, <2>9, <3>1
    <3>3. ~IsMain(a[q])
      BY <2>9, <3>2 DEF IsMain, IsSuite
    <3>9. Len(c) <= InsertionLimit
      <4> SUFFICES ASSUME Len(c) > InsertionLimit PROVE FALSE
        BY <2>1, WlAssumption
      <4>1. \A e \in Range(c) : IsMain(e) \/ IsSuite(e)
        BY <2>9 DEF LongAndMixed, c
      <4>2. ~SortIsUndefined(c)
        BY <2>9, <4>1, SuitesGoBefore DEF SortIsUndefined
      <4>3. ~Before(a[q], a[p])
        BY <2>4, <2>9, <3>2, <4>2 DEF IsInOrder
      <4> QED
        BY <2>9, <3>2, <4>3 DEF Before, CompareMessages
    <3>4. At(a[p]) < At(a[q]) /\ Parted(a[p], a[q])
      BY <2>4, <2>9, <3>2, <3>3, <3>9 DEF Ordered
    <3>5. a[p] \in E /\ a[q] \in E
      BY <2>4, <3>2
    <3>6. /\ At(a[p]) \in DOMAIN page /\ page[At(a[p])] = a[p].reading /\ At(a[p]) \in Nat
          /\ At(a[q]) \in DOMAIN page /\ page[At(a[q])] = a[q].reading /\ At(a[q]) \in Nat
      BY <1>1, <2>3, <3>5, PlaceInPage DEF OfPage
    <3>7. PICK k \in (At(a[p]) + 1)..(At(a[q]) - 1) : Readings[page[k]].sensor \notin {"iss", "suite"}
      BY <3>4 DEF Parted
    <3>8. k \in DOMAIN page /\ At(a[p]) < k /\ k < At(a[q])
      BY <1>1, <3>6
    <3> QED
      BY <3>2, <3>6, <3>7, <3>8 DEF Apart
  <2>10. list = s
    BY <2>0 DEF s, b
  <2> QED
    BY <2>7, <2>8, <2>9, <2>10 DEF MessagesOf
<1> QED
  BY <1>2, <1>3

-----------------------------------------------------------------------------
(* The invariant of a page                                                  *)

\* The messages of a page are inserted as they were parsed.
WlPageInv ==
    /\ WlPage
    /\ result \in {"received", "parsed", "completed", "failed", "crashed"}
    /\ result \notin {"received", "crashed"} => MessagesOf(messages)
    /\ result \in {"received", "parsed", "crashed"} => database = <<>> /\ timescale = <<>>
    /\ result \in {"completed", "failed"} =>
         /\ ~refused => database = InsertAll(<<>>, messages)
         /\ timescale # <<>> /\ (refused => kind = "archive") => timescale = InsertAll(<<>>, messages)
WlInv == (page = NoPage /\ result = "completed") \/ WlPageInv

LEMMA WlStart == WlInit \/ WlIdle => WlInv
<1>1. ASSUME WlInit PROVE WlPageInv
  <2>1. page \in Pages
    BY <1>1 DEF WlInit
  <2>2. WlPage
    <3>1. CASE IsNoaa(page)
      BY <1>1, <3>1 DEF WlInit, WlPage
    <3>2. CASE ~IsNoaa(page)
      BY <1>1, <3>2 DEF WlInit, WlPage
    <3> QED
      BY <3>1, <3>2
  <2> QED
    BY <1>1, <2>2 DEF WlInit, WlPageInv
<1> QED
  BY <1>1 DEF WlIdle, WlInv

LEMMA SamePage ==
  ASSUME UNCHANGED <<kind, page, substations, dayRain>>, NEW list, messages' = list, MessagesOf(list)
  PROVE  MessagesOf(messages)'
<1>1. \A s, d : Ingested(s, d)' = Ingested(s, d)
  BY DEF Ingested, IngestArchive, IngestRealtime
<1>2. \A r : /\ AcceptEntry(r)' <=> AcceptEntry(r)
             /\ HasParser(r)' <=> HasParser(r)
             /\ Times(r)' = Times(r)
             /\ RainFall(r)' = RainFall(r)
  BY DEF AcceptEntry, HasParser, Times, RainFall
<1>3. \A r, m : Missing(r, m)' = Missing(r, m)
  BY DEF Missing
<1>4. \A i, m : Measure(i, m)' = Measure(i, m)
  BY <1>2 DEF Measure
<1>5. ASSUME NEW i PROVE ConventionalMessage(i)' = ConventionalMessage(i)
  <2> DEFINE V(m) == IF m \notin Ingested(Readings[i].sensor, Readings[i].device) THEN Invalid
                     ELSE IF m \in Readings[i].sends THEN Measure(i, m) ELSE Missing(Readings[i], m)
  <2>1. ConventionalMessage(i) = [m \in DataPoint |-> V(m)]
    BY DEF ConventionalMessage
  <2>2. ConventionalMessage(i)' = [m \in DataPoint |-> V(m)']
    BY DEF ConventionalMessage
  <2>3. \A m : V(m)' = V(m)
    BY <1>1, <1>3, <1>4
  <2> HIDE DEF V
  <2> QED
    BY <2>1, <2>2, <2>3
<1>6. \A r : /\ ReadsPlainly(r)' <=> ReadsPlainly(r)
             /\ ReadsItsOwn(r)' <=> ReadsItsOwn(r)
  BY <1>1, <1>2 DEF ReadsPlainly, ReadsItsOwn
<1>7. \A i, members : Gives(i, members)' <=> Gives(i, members)
  BY <1>2, <1>5, <1>6 DEF Gives
<1>8. \A e : IsMessage(e)' <=> IsMessage(e)
  BY <1>2, <1>7 DEF IsMessage
<1>11. LongAndMixed' <=> LongAndMixed
  <2> DEFINE L == [k \in DOMAIN page |->
        LET r == Readings[page[k]]
        IN  IF AcceptEntry(r) /\ ~HasParser(r) /\ Ingested(r.sensor, r.device) # {}
            THEN Entries(page[k], ConventionalMessage(page[k])) ELSE <<>>]
  <2>1. ASSUME NEW i, NEW members PROVE Entries(i, members)' = Entries(i, members)
    BY <1>2 DEF Entries
  <2>2. L' = L
    BY <1>1, <1>2, <1>5, <2>1
  <2>3. ConventionalEntries = FlattenSeq(L) /\ ConventionalEntries' = FlattenSeq(L')
    BY DEF ConventionalEntries
  <2> HIDE DEF L
  <2>4. ConventionalEntries' = ConventionalEntries
    BY <2>2, <2>3
  <2> QED
    BY <2>4 DEF LongAndMixed, IsMain, IsSuite
<1>9. (kind = "archive" /\ ~LongAndMixed =>
         \A p, q \in 1..Len(messages) :
            p < q /\ IsMain(messages[p]) /\ IsSuite(messages[q]) /\ IsPlain(messages[q])
            => Apart(messages[p], messages[q]))'
  BY <1>11 DEF MessagesOf, Apart, IsPlain, HasParser
<1>10. (messages \in Seq(Range(messages)) /\ \A e : Occurs(messages, e) <=> IsMessage(e))'
  BY <1>8 DEF MessagesOf
<1> QED
  BY <1>9, <1>10 DEF MessagesOf

LEMMA WlStep == WlInv /\ [WlNext]_wlVars => WlInv'
<1> SUFFICES ASSUME WlInv, [WlNext]_wlVars PROVE WlInv'
  OBVIOUS
<1>1. UNCHANGED <<kind, page, substations, dayRain>>
  BY DEF WlNext, ParsePage, ParseNoaaExt, StoreMessages, wlVars
<1>2. WlPage => WlPage'
  BY <1>1 DEF WlPage, Pages, IsNoaa
<1>3. CASE UNCHANGED wlVars
  <2>1. MessagesOf(messages) => MessagesOf(messages)'
    BY <1>1, <1>3, SamePage DEF wlVars
  <2> QED
    BY <1>2, <1>3, <2>1 DEF WlInv, WlPageInv, wlVars
<1>4. CASE ParsePage \/ ParseNoaaExt
  <2>1. WlPageInv /\ result = "received" /\ UNCHANGED <<database, timescale, refused>>
    BY <1>4 DEF ParsePage, ParseNoaaExt, WlInv
  <2>2. \/ result' = "parsed" /\ messages' \in ParsedMessages
        \/ result' = "crashed"
    BY <1>4 DEF ParsePage, ParseNoaaExt, ParsedMessages
  <2>3. CASE result' = "parsed" /\ messages' \in ParsedMessages
    <3>1. PICK list \in ParsedMessages : messages' = list
      BY <2>3
    <3>2. MessagesOf(list)
      BY <2>1, PageParsed DEF WlPageInv
    <3>3. MessagesOf(messages)'
      BY <1>1, <3>1, <3>2, SamePage
    <3> QED
      BY <1>2, <2>1, <2>3, <3>3 DEF WlInv, WlPageInv
  <2>4. CASE result' = "crashed"
    BY <1>2, <2>1, <2>4 DEF WlInv, WlPageInv
  <2> QED
    BY <2>2, <2>3, <2>4
<1>5. CASE StoreMessages
  <2>1. WlPageInv /\ result = "parsed" /\ messages' = messages
    BY <1>5 DEF StoreMessages, WlInv
  <2>2. database = <<>> /\ timescale = <<>> /\ MessagesOf(messages) /\ WlPage
    BY <2>1 DEF WlPageInv
  <2>3. MessagesOf(messages)'
    BY <1>1, <2>1, <2>2, SamePage
  <2>4. PICK k \in 0..Len(messages), ok \in BOOLEAN :
        LET attempted == IF kind = "realtime" /\ k > 0 THEN SubSeq(messages, 1, k) ELSE messages
            accepted == IF k = 0 THEN attempted ELSE RemoveAt(attempted, k)
            IsLost == kind = "noaa" /\ k > 0
        IN  /\ k = 0 \/ ok
            /\ refused' = (k > 0)
            /\ database' = InsertAll(database, accepted)
            /\ timescale' = IF ok /\ ~IsLost THEN InsertAll(timescale, attempted) ELSE timescale
            /\ result' = CASE kind = "realtime" -> IF ok THEN "completed" ELSE "failed"
                           [] kind = "archive" -> IF k = 0 THEN "completed" ELSE "failed"
                           [] OTHER -> IF ok /\ k = 0 THEN "completed" ELSE "failed"
    BY <1>5 DEF StoreMessages
  <2> DEFINE attempted == IF kind = "realtime" /\ k > 0 THEN SubSeq(messages, 1, k) ELSE messages
             accepted == IF k = 0 THEN attempted ELSE RemoveAt(attempted, k)
  <2>5. refused' = (k > 0) /\ database' = InsertAll(database, accepted)
    BY <2>4
  <2>6. timescale' = timescale \/ timescale' = InsertAll(timescale, attempted)
    BY <2>4
  <2>7. result' \in {"completed", "failed"}
    BY <2>4
  <2>8. ~refused' => attempted = messages /\ accepted = messages
    <3>1. messages \in Seq(Range(messages))
      BY <2>2 DEF MessagesOf
    <3>2. Len(messages) \in Nat
      BY <3>1
    <3>3. CASE k > 0
      <4>1. refused' = TRUE
        BY <2>5, <3>3
      <4> QED
        BY <4>1
    <3>4. CASE k = 0
      BY <3>4
    <3> QED
      BY <3>2, <3>3, <3>4
  <2>9. (refused' => kind' = "archive") => attempted = messages
    BY <1>1, <2>8
  <2>10. ~refused' => database' = InsertAll(<<>>, messages')
    BY <2>1, <2>2, <2>5, <2>8
  <2>11. timescale' # <<>> /\ (refused' => kind' = "archive") => timescale' = InsertAll(<<>>, messages')
    BY <2>1, <2>2, <2>6, <2>9
  <2> HIDE DEF attempted, accepted
  <2> QED
    BY <1>2, <2>2, <2>3, <2>7, <2>10, <2>11 DEF WlInv, WlPageInv
<1> QED
  BY <1>3, <1>4, <1>5 DEF WlNext

\* What a message says of a measure.
SaidOf(i, m) == IF m = "rainFall" THEN RainFall(Readings[i]) ELSE i

\* A reading that is meant to give a measure has a message with it.
LEMMA MeantIsRead ==
  ASSUME WlPage, NEW t, NEW i \in ReadingsOf(t), NEW m \in DataPoint, m \in Meant(Readings[i])
  PROVE  \E e : IsMessage(e) /\ e.reading = i /\ e.time = t /\ e.members[m] = SaidOf(i, m)
<1> DEFINE r == Readings[i]
<1>1. i \in Range(page) /\ AcceptEntry(r) /\ t \in Range(Times(r))
  BY DEF ReadingsOf
<1>2. KnownReading(r) /\ kind \in {"archive", "realtime", "noaa"} /\ (kind = "noaa" <=> r.sensor = "noaa")
  BY <1>1, PageIsKnown DEF WlPage
<1>3. CASE HasParser(r)
  <2>1. ParserOf(r) # "none" /\ m \in CustomMembers(r) /\ m # "rainFall"
    BY <1>2, <1>3, ParsersFollowVariables
  <2> DEFINE e == Entry(i, t, CustomMessage(i))
  <2>2. e.reading = i /\ e.time = t /\ e.members = CustomMessage(i)
    BY DEF Entry
  <2>3. CustomMessage(i)[m] = i
    BY <2>1 DEF CustomMessage
  <2>4. e = Entry(e.reading, e.time, e.members)
    BY <2>2
  <2> HIDE DEF e
  <2>5. IsMessage(e)
    BY <1>1, <1>3, <2>1, <2>2, <2>4 DEF IsMessage, Gives, ReadsItsOwn
  <2> QED
    BY <2>1, <2>2, <2>3, <2>5 DEF SaidOf
<1>4. CASE ~HasParser(r)
  <2>1. r.sensor \notin Probes /\ m \in r.sends
    BY <1>4 DEF Meant
  <2>2. m \in Ingested(r.sensor, r.device)
    BY <1>2, <2>1, DataIsRead
  <2> DEFINE e == Entry(i, t, ConventionalMessage(i))
  <2>3. e.reading = i /\ e.time = t /\ e.members = ConventionalMessage(i)
    BY DEF Entry
  <2>4. ConventionalMessage(i)[m] = SaidOf(i, m)
    BY <2>1, <2>2 DEF ConventionalMessage, Measure, SaidOf
  <2>5. e = Entry(e.reading, e.time, e.members)
    BY <2>3
  <2> HIDE DEF e
  <2>6. IsMessage(e)
    BY <1>1, <1>4, <2>2, <2>3, <2>5 DEF IsMessage, Gives, ReadsPlainly
  <2> QED
    BY <2>3, <2>4, <2>6
<1> QED
  BY <1>3, <1>4

\* A measure of a message is one of its reading, or takes the place of a missing one.
LEMMA ReadIsMeant ==
  ASSUME WlPage, NEW e, IsMessage(e), NEW m \in DataPoint, e.members[m] # Invalid
  PROVE  /\ e.reading \in ReadingsOf(e.time)
         /\ \/ m \in Meant(Readings[e.reading]) /\ e.members[m] = SaidOf(e.reading, m)
            \/ Unsent(e.reading, m) /\ e.members[m] = Garbage
<1> DEFINE i == e.reading
           r == Readings[i]
<1>1. i \in Range(page) /\ AcceptEntry(r) /\ e.time \in Range(Times(r))
  BY DEF IsMessage, Gives
<1>2. KnownReading(r) /\ kind \in {"archive", "realtime", "noaa"} /\ (kind = "noaa" <=> r.sensor = "noaa")
  BY <1>1, PageIsKnown DEF WlPage
<1>3. i \in ReadingsOf(e.time)
  BY <1>1 DEF ReadingsOf
<1>4. CASE HasParser(r)
  <2>1. e.members = CustomMessage(i)
    BY <1>4 DEF IsMessage, Gives, ReadsPlainly
  <2>2. m \in CustomMembers(r) /\ e.members[m] = i
    BY <2>1 DEF CustomMessage
  <2>3. m \in Meant(r) /\ m # "rainFall"
    BY <1>2, <1>4, <2>2, ParsersFollowVariables
  <2> QED
    BY <1>3, <2>2, <2>3 DEF SaidOf
<1>5. CASE ~HasParser(r)
  <2>1. e.members = ConventionalMessage(i)
    BY <1>5 DEF IsMessage, Gives, ReadsItsOwn
  <2>2. m \in Ingested(r.sensor, r.device)
        /\ e.members[m] = IF m \in r.sends THEN Measure(i, m) ELSE Missing(r, m)
    BY <2>1 DEF ConventionalMessage
  <2>3. CASE m \in r.sends
    <3>1. r.sensor \notin Probes
      BY <1>2, <2>2, DataIsRead
    <3> QED
      BY <1>3, <1>5, <2>2, <2>3, <3>1 DEF Meant, Measure, SaidOf
  <2>4. CASE m \notin r.sends
    <3>1. Missing(r, m) \in {Garbage, Invalid}
      BY DEF Missing
    <3> QED
      BY <1>3, <1>5, <2>2, <2>4, <3>1 DEF Unsent
  <2> QED
    BY <2>3, <2>4
<1> QED
  BY <1>4, <1>5

\* Each measure is stored, once all the messages are.
LEMMA MeasureStored ==
  ASSUME WlPage, NEW list, MessagesOf(list), NEW t, NEW m \in DataPoint \ {"voltages"}
  PROVE  \/ Row(InsertAll(<<>>, list), t)[m] \in Expected(Sending(MeantAt(t), m), m)
         \/ \E i \in DOMAIN MeantAt(t) : Unsent(i, m)
<1> DEFINE meant == MeantAt(t)
           senders == Sending(meant, m)
           kept == Row(InsertAll(<<>>, list), t)[m]
<1>1. DOMAIN meant = ReadingsOf(t)
  BY DEF MeantAt
<1>2. senders = {i \in ReadingsOf(t) : m \in Meant(Readings[i])}
  BY DEF MeantAt, Sending
<1>3. /\ \A i \in senders : SaidOf(i, m) \in Expected(senders, m)
      /\ (\A i \in senders : SaidOf(i, m) = Invalid) => Invalid \in Expected(senders, m)
  BY DEF SaidOf, Expected
<1>4. list \in Seq(Range(list)) /\ \A e : Occurs(list, e) <=> IsMessage(e)
  BY DEF MessagesOf
<1> HIDE DEF senders, kept
<1>5. \/ /\ \A p \in 1..Len(list) : ~Writes(list[p], t, m)
         /\ kept = Invalid
      \/ \E p \in 1..Len(list) :
           /\ Writes(list[p], t, m)
           /\ kept = list[p].members[m]
  BY <1>4, LastMessagePrevails DEF kept
<1>6. CASE kept = Invalid /\ \A p \in 1..Len(list) : ~Writes(list[p], t, m)
  <2>1. ASSUME NEW i \in senders PROVE SaidOf(i, m) = Invalid
    <3>1. PICK e : IsMessage(e) /\ e.reading = i /\ e.time = t /\ e.members[m] = SaidOf(i, m)
      BY <1>2, MeantIsRead
    <3>2. PICK p \in 1..Len(list) : list[p] = e
      BY <1>4, <3>1 DEF Occurs
    <3> QED
      BY <1>6, <3>1, <3>2 DEF Writes
  <2>2. kept \in Expected(senders, m)
    BY <1>3, <1>6, <2>1
  <2> QED
    BY <2>2 DEF kept, senders
<1>7. CASE \E p \in 1..Len(list) : Writes(list[p], t, m) /\ kept = list[p].members[m]
  <2>1. PICK p \in 1..Len(list) : Writes(list[p], t, m) /\ kept = list[p].members[m]
    BY <1>7
  <2> DEFINE e == list[p]
  <2>2. IsMessage(e) /\ e.time = t /\ e.members[m] # Invalid
    BY <1>4, <2>1 DEF Occurs, Writes
  <2> HIDE DEF e
  <2>3. /\ e.reading \in ReadingsOf(t)
        /\ \/ m \in Meant(Readings[e.reading]) /\ e.members[m] = SaidOf(e.reading, m)
           \/ Unsent(e.reading, m) /\ e.members[m] = Garbage
    BY <2>2, ReadIsMeant
  <2>4. CASE Unsent(e.reading, m)
    BY <1>1, <2>3, <2>4
  <2>5. CASE m \in Meant(Readings[e.reading]) /\ e.members[m] = SaidOf(e.reading, m)
    <3>1. kept \in Expected(senders, m)
      BY <1>2, <1>3, <2>1, <2>3, <2>5 DEF e
    <3> QED
      BY <3>1 DEF kept, senders
  <2> QED
    BY <2>3, <2>4, <2>5
<1> QED
  BY <1>5, <1>6, <1>7

\* In an archive the station has the last word.
LEMMA StationHasLastWord ==
  ASSUME WlPage, kind = "archive", ~LongAndMixed, NEW list, MessagesOf(list), NEW t,
         NEW m \in Outside \ {"rainFall"},
         NEW i \in ReadingsOf(t), m \in Meant(Readings[i]),
         Readings[i].sensor = "iss", ~HasParser(Readings[i]),
         NEW j \in ReadingsOf(t), Readings[j].sensor = "suite", ~HasParser(Readings[j]),
         Row(InsertAll(<<>>, list), t)[m] = j
  PROVE  \E k \in Between(i, j) : Readings[k].sensor \notin {"iss", "suite"}
<1> DEFINE kept == Row(InsertAll(<<>>, list), t)[m]
<1>1. m \in DataPoint \ {"voltages"} /\ m \in DataPoint
  BY DEF DataPoint, Outside, Wind
<1>2. list \in Seq(Range(list)) /\ \A e : Occurs(list, e) <=> IsMessage(e)
  BY DEF MessagesOf
<1>3. i \in Nat /\ j \in Nat /\ PageKnown
  BY PageIsKnown DEF ReadingsOf
<1>4. PICK f : IsMessage(f) /\ f.reading = i /\ f.time = t /\ f.members[m] = i
  BY <1>1, MeantIsRead DEF SaidOf
<1>5. PICK a \in 1..Len(list) : list[a] = f
  BY <1>2, <1>4 DEF Occurs
<1>6. Writes(list[a], t, m)
  BY <1>3, <1>4, <1>5, WlAssumption DEF Writes
<1>7. PICK p \in 1..Len(list) :
         /\ Writes(list[p], t, m)
         /\ \A q \in (p + 1)..Len(list) : ~Writes(list[q], t, m)
         /\ kept = list[p].members[m]
  <2> HIDE DEF kept
  <2> QED
    BY <1>1, <1>2, <1>6, LastMessagePrevails DEF kept
<1> DEFINE e == list[p]
<1>8. IsMessage(e) /\ e.members[m] = j /\ j # Invalid /\ j # Garbage
  BY <1>2, <1>3, <1>7, WlAssumption DEF Occurs
<1>9. e.reading = j
  <2> HIDE DEF e
  <2>1. \/ m \in Meant(Readings[e.reading]) /\ e.members[m] = SaidOf(e.reading, m)
        \/ Unsent(e.reading, m) /\ e.members[m] = Garbage
    BY <1>1, <1>8, ReadIsMeant
  <2> QED
    BY <1>8, <2>1 DEF SaidOf
<1>10. a < p
  <2>1. a # p
    BY <1>4, <1>5, <1>9
  <2>2. Len(list) \in Nat
    BY <1>2
  <2>3. ~(p < a)
    BY <1>6, <1>7, <2>2
  <2> QED
    BY <2>1, <2>2, <2>3
<1>11. Apart(list[a], list[p])
  BY <1>4, <1>5, <1>9, <1>10 DEF MessagesOf, IsMain, IsSuite, IsPlain
<1>12. PICK x, y, k \in DOMAIN page :
          /\ x < k /\ k < y /\ page[x] = i /\ page[y] = j
          /\ Readings[page[k]].sensor \notin {"iss", "suite"}
  BY <1>4, <1>5, <1>9, <1>11 DEF Apart
<1>13. (CHOOSE n \in DOMAIN page : page[n] = i) = x /\ (CHOOSE n \in DOMAIN page : page[n] = j) = y
  BY <1>3, <1>12 DEF PageKnown, IsInjective
<1>14. x \in Nat /\ y \in Nat /\ k \in Nat
  BY <1>3, <1>12 DEF PageKnown
<1>15. k \in (x + 1)..(y - 1)
  BY <1>12, <1>14
<1>16. Between(i, j) = {page[n] : n \in (x + 1)..(y - 1)}
  BY <1>13 DEF Between
<1> QED
  BY <1>12, <1>15, <1>16

LEMMA WlImply == WlInv => WeatherlinkFollowsSensors
<1> SUFFICES ASSUME WlPageInv, page # NoPage PROVE WeatherlinkFollowsSensors
  BY DEF WlInv, WeatherlinkFollowsSensors, EachMeasureIsStored, StationPrevails
<1>1. WlPage
  BY DEF WlPageInv
<1>2. timescale # <<>> => result \in {"completed", "failed"}
  BY DEF WlPageInv
<1>3. result \in {"completed", "failed"} => MessagesOf(messages)
  BY DEF WlPageInv
<1>4. EachMeasureIsStored
  <2> SUFFICES ASSUME result \in {"completed", "failed"}, NEW t \in AllTimes,
                      NEW m \in DataPoint \ {"voltages"}
               PROVE  \/ \A rows \in Filled : Row(rows, t)[m] \in Expected(Sending(MeantAt(t), m), m)
                      \/ \E i \in DOMAIN MeantAt(t) : Unsent(i, m)
    BY DEF EachMeasureIsStored
  <2>1. \A rows \in Filled : rows = InsertAll(<<>>, messages)
    BY DEF Filled, WlPageInv
  <2> QED
    BY <1>1, <1>3, <2>1, MeasureStored
<1>5. StationPrevails
  <2> SUFFICES ASSUME kind = "archive", timescale # <<>>, NEW t \in AllTimes,
                      NEW i \in PlainlyRead(t, "iss"), NEW j \in PlainlyRead(t, "suite"),
                      NEW m \in Meant(Readings[i]) \cap (Outside \ {"rainFall"}),
                      Row(timescale, t)[m] = j, ~LongAndMixed
               PROVE  \E k \in Between(i, j) : Readings[k].sensor \notin {"iss", "suite"}
    BY DEF StationPrevails
  <2>1. timescale = InsertAll(<<>>, messages)
    BY <1>2 DEF WlPageInv
  <2> QED
    BY <1>1, <1>2, <1>3, <2>1, StationHasLastWord DEF PlainlyRead
<1> QED
  BY <1>4, <1>5 DEF WeatherlinkFollowsSensors

-----------------------------------------------------------------------------
(* The behaviours                                                           *)

LEMMA OneDecoderStarts ==
  Init => /\ (RecordsInit \/ RecordsIdle) /\ (FcInit \/ FcIdle) /\ (TextInit \/ TextIdle)
          /\ (WlInit \/ WlIdle)
BY Zenon DEF Init

LEMMA OneDecoderSteps ==
  [Next]_<<msgVars, synopVars, wlVars, textVars, recordVars, fcVars>>
  => [RecordsNext]_recordVars /\ [FcNext]_fcVars /\ [TextNext]_textVars /\ [WlNext]_wlVars
BY DEF Next

\* What the consoles and the pages of the FieldClimate API are made of stays as they
\* have it: the inductive invariants of these two decoders.
THEOREM RecordsInvariant == Spec => []RecordsInv
<1>1. Init => RecordsInv
  BY OneDecoderStarts, RecordsStart
<1>2. RecordsInv /\ [Next]_<<msgVars, synopVars, wlVars, textVars, recordVars, fcVars>> => RecordsInv'
  BY OneDecoderSteps, RecordsStep
<1> QED
  BY <1>1, <1>2, PTL DEF Spec

THEOREM FieldClimateInvariant == Spec => []FcInv
<1>1. Init => FcInv
  BY OneDecoderStarts, FcStart
<1>2. FcInv /\ [Next]_<<msgVars, synopVars, wlVars, textVars, recordVars, fcVars>> => FcInv'
  BY OneDecoderSteps, FcStep
<1> QED
  BY <1>1, <1>2, PTL DEF Spec

\* A record of a console and a date of a page become the observation of that time, of
\* what the station has measured: whatever the zone, the words, the downloads and the
\* failures of the one, the sensors and the missing values of the other.
THEOREM ArchivesFollow == Spec => []ArchivesFollowStations
<1>1. RecordsInv /\ FcInv => ArchivesFollowStations
  BY RecordsImply, FcImply DEF ArchivesFollowStations
<1> QED
  BY <1>1, RecordsInvariant, FieldClimateInvariant, PTL

\* A file is stored as it is written, however much of it is illegible: whatever its
\* format, its length and the writing of each of its values.
THEOREM FilesFollow == Spec => []FilesFollowWritings
<1>1. Init => TextInv
  BY OneDecoderStarts, TextStart
<1>2. TextInv /\ [Next]_<<msgVars, synopVars, wlVars, textVars, recordVars, fcVars>> => TextInv'
  BY OneDecoderSteps, TextStep
<1>3. TextInv => FilesFollowWritings
  BY TextImply
<1> QED
  BY <1>1, <1>2, <1>3, PTL DEF Spec

\* What the sensors of a station send reaches the database, at its time: whatever the
\* sensors of a page, their number, order and times, their parsers, however std::sort
\* leaves them, and whichever insertion fails.  The station has the last word over the
\* suites from which no other sensor parts it; in a page of more entries than
\* InsertionLimit, where it holds no other sensor at all.
THEOREM WeatherlinkFollows == Spec => []WeatherlinkFollowsSensors
<1>1. Init => WlInv
  BY OneDecoderStarts, WlStart
<1>2. WlInv /\ [Next]_<<msgVars, synopVars, wlVars, textVars, recordVars, fcVars>> => WlInv'
  BY OneDecoderSteps, WlStep
<1>3. WlInv => WeatherlinkFollowsSensors
  BY WlImply
<1> QED
  BY <1>1, <1>2, <1>3, PTL DEF Spec
=============================================================================
