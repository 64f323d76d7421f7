------------------------------- MODULE DayRain -------------------------------
(***************************************************************************)
(* The rain of the stations that publish a file, or current conditions:    *)
(* these hold the rain since midnight, or over the last hour, and the      *)
(* daemon stores what fell since the previous ones.  What it subtracts is  *)
(* the total it has cached or the sum of what it has stored.  A program of *)
(* its own downloads the files, as often as it runs and whether or not the *)
(* station has written a new one; the daemon ingests the downloads later.  *)
(* A tick stands for the polling period; NaN, for the rain that is missing.*)
(***************************************************************************)
EXTENDS HexPayload, Sums, FiniteSetsExt

CONSTANTS
    LastTick,        \* the last tick
    Day, Hour,      \* in ticks
    TopOfTheHour,   \* the ticks POLLING_PERIOD stands for
    Weather,        \* how much rain has fallen at each tick: see DayRainAssumption
    Limit,          \* 100 mm
    Backlog,        \* downloads that wait at most
    MaxLapses       \* restarts, failures and early polls

ASSUME DayRainAssumption ==
    /\ {LastTick, Limit, Backlog, MaxLapses} \subseteq Nat
    /\ Weather \subseteq [0..LastTick -> Nat]
    /\ \A w \in Weather, t \in 0..(LastTick - 1) : w[t] <= w[t + 1]
    /\ {Day, Hour, TopOfTheHour} \subseteq Nat \ {0}

VARIABLES
    source,     \* who computes the rain, see Sources
    bounds,     \* the bounds getRainfall includes, among "begin" and "end"
    summed,     \* the database getRainfall reads
    fallen,     \* time -> rain since the beginning
    now,
    file,       \* the time of the file of the station, -1 for none
    polled,     \* when it was downloaded
    downloads,  \* the downloads that are "new": their files and their times
    fileRows,  \* time -> rain
    fileCopies,
    rainCache,      \* RAINFALL_SINCE_MIDNIGHT and its time
    last,       \* _lastDownloadTime
    lapses,     \* what has happened that counts some rain twice or not at all
    mishaps     \* how many of these were chosen
rainFileVars == <<source, bounds, summed, fallen, now, file, polled, downloads, fileRows,
                  fileCopies, rainCache, last, lapses, mishaps>>

\* The text files that give the rain since midnight (weatherlink, weathercat and
\* meteobridge) and over the last hour (meteohub, wswin, weatherdisplay), the StatIC
\* files that give one or the other, the current conditions of Weatherlink.
Sources == {"day", "hour", "static", "statichour", "current"}
NoSource == "none"

Midnight(t) == t - (t % Day)
DayRainfall(t) == fallen[t] - fallen[Midnight(t)]
HourRainfall(t) == fallen[t] - fallen[Max({0, t - Hour})]

-----------------------------------------------------------------------------
(* The station and the program that downloads                               *)

\* Time passes, and the station writes its file, or does not.
Tick ==
    /\ now < LastTick
    /\ now' = now + 1
    /\ file' \in {file, now'}
    /\ UNCHANGED <<source, bounds, summed, fallen, polled, downloads, fileRows, fileCopies,
                   rainCache, last, lapses, mishaps>>

\* insertDownload; a download that fails twice is skipped, which is to do nothing.
DownloadOnly ==
    /\ file >= 0 /\ polled < now /\ Len(downloads) < Backlog
    /\ downloads' = Append(downloads, [file |-> file, at |-> now])
    /\ polled' = now
    /\ UNCHANGED <<source, bounds, summed, fallen, now, file, fileRows, fileCopies,
                   rainCache, last, lapses, mishaps>>
\* The three programs that do so.
MBDataOffload == source \in {"day", "hour"} /\ DownloadOnly
StaticOffload == source \in {"static", "statichour"} /\ DownloadOnly
WeatherlinkOffload == source = "current" /\ DownloadOnly

\* reloadStations, a restart, or the standalone tool: the downloaders are new.
Restart ==
    /\ source \in {"day", "hour"} /\ last >= 0 /\ mishaps < MaxLapses
    /\ last' = -1 /\ mishaps' = mishaps + 1
    /\ UNCHANGED <<source, bounds, summed, fallen, now, file, polled, downloads,
                   fileRows, fileCopies, rainCache, lapses>>

-----------------------------------------------------------------------------
(* What is subtracted                                                       *)

\* The rain of the rows of some times.
RowsBetween(rows, from, to) ==
    [t \in Nat |-> IF t \in DOMAIN rows /\ from <= t /\ t <= to THEN rows[t] ELSE 0]
RainBetween(rows, from, to) == SumTo(RowsBetween(rows, from, to), LastTick)

GetRainfall(begin, end) ==
    RainBetween(IF summed = "cassandra" THEN fileRows ELSE fileCopies,
                IF "begin" \in bounds THEN begin ELSE begin + 1,
                IF "end" \in bounds THEN end ELSE end - 1)

\* getDayRainfall: of the day it is when the file is ingested, or of the file's.
GetDayRainfall(today) ==
    IF rainCache.time > Midnight(today) THEN rainCache.rain ELSE GetRainfall(Midnight(today), today)
Clamp(rain) == IF rain < 0 THEN 0 ELSE rain
NoRain == NaN

\* The rain that is stored with the file of time t, downloaded at a time; early
\* when the previous data are less than a polling period old.
DayMessageRain(t) ==
    IF DayRainfall(t) < Limit THEN DayRainfall(t) - GetDayRainfall(now) ELSE NoRain
HourMessageRain(t) == IF t % Hour < TopOfTheHour THEN HourRainfall(t) ELSE NoRain
StaticRain(t) == Clamp(DayRainfall(t) - GetRainfall(Midnight(t), t))
StaticHourRain(t) == Clamp(HourRainfall(t) - GetRainfall(t - Hour, t))
KnownRainEarly(at, early) == GetRainfall(Midnight(at), at - 2)
KnownRain(at, early) == GetRainfall(Midnight(at), IF early THEN at - 2 ELSE at - 1)
CurrentRain(t, at, early) ==
    IF DayRainfall(t) >= KnownRain(at, early) THEN DayRainfall(t) - KnownRain(at, early)
    ELSE NoRain
ComputedRainfall(d, early) ==
    CASE source = "day" -> DayMessageRain(d.file)
      [] source = "hour" -> HourMessageRain(d.file)
      [] source = "static" -> StaticRain(d.file)
      [] source = "statichour" -> StaticHourRain(d.file)
      [] OTHER -> CurrentRain(d.file, d.at, early)

\* A row without rain keeps the rain of the row it replaces.
WithRain(rows, t, rain) ==
    IF Has(rain) THEN [u \in DOMAIN rows \cup {t} |-> IF u = t THEN rain ELSE rows[u]]
    ELSE rows

-----------------------------------------------------------------------------
(* Ingesting a download                                                     *)

\* The rain up to u of the hour before t.
HourUpTo(u, t) == fallen[u] - fallen[Max({0, Min({u, t - Hour})})]
\* The lapses of the download d; ExpectedRainfall tells what they do to the sums.
LapsesOf(d, early) ==
    LET t == d.file
        RainRows == DOMAIN fileCopies
    IN  {lapse \in {"replayed", "late", "close", "gap", "edge", "early"} :
            CASE lapse = "replayed" -> t \in RainRows /\ source \in {"day", "static", "statichour", "current"}
              [] lapse = "late" ->
                    \/ source = "day" /\ Midnight(now) # Midnight(t)
                    \/ source = "current" /\ Midnight(d.at) # Midnight(t)
              [] lapse = "close" ->
                    /\ source = "hour" /\ t % Hour < TopOfTheHour
                    /\ \E u \in RainRows : u # t /\ u > t - Hour
              [] lapse = "gap" ->
                    \/ /\ source = "hour" /\ t % Hour < TopOfTheHour /\ RainRows # {}
                       /\ \A u \in RainRows : u < t - Hour
                    \/ source = "statichour" /\ RainRows # {} /\ \A u \in RainRows : u < t - Hour
              [] lapse = "edge" ->
                    /\ source = "statichour"
                    /\ \E u \in RainRows : /\ u < t /\ \A v \in RainRows : v <= u \/ v >= t
                                         /\ GetRainfall(t - Hour, t) > HourUpTo(u, t)
              [] OTHER -> early}

\* MBDataTxtDownloader::doProcess: a file that is not newer is discarded.
IsLastFile(d) == source \in {"day", "hour"} /\ d.file <= last
DiscardLastFile ==
    /\ downloads # <<>> /\ IsLastFile(downloads[1])
    /\ downloads' = Tail(downloads)
    /\ UNCHANGED <<source, bounds, summed, fallen, now, file, polled, fileRows,
                   fileCopies, rainCache, last, lapses, mishaps>>

\* cacheFloat, once the row is in both databases.  The StatIC files cache it with
\* the time of a download that is never set, so that it is never used.
CacheRainfall(t) ==
    rainCache' = IF source = "day" THEN [time |-> t, rain |-> DayRainfall(t)] ELSE rainCache

\* doProcess and doProcessRealtimeMessage, when both insertions succeed.
StoreRain ==
    /\ downloads # <<>> /\ ~IsLastFile(downloads[1])
    /\ \E early \in (IF source = "current" /\ mishaps < MaxLapses THEN BOOLEAN ELSE {FALSE}) :
        LET d == downloads[1]
            rain == ComputedRainfall(d, early)
        IN  /\ fileRows' = WithRain(fileRows, d.file, rain)
            /\ fileCopies' = WithRain(fileCopies, d.file, rain)
            /\ CacheRainfall(d.file)
            /\ last' = IF source \in {"day", "hour"} THEN d.file ELSE last
            /\ lapses' = lapses \cup LapsesOf(d, early)
            /\ mishaps' = mishaps + (IF early THEN 1 ELSE 0)
    /\ downloads' = Tail(downloads)
    /\ UNCHANGED <<source, bounds, summed, fallen, now, file, polled>>

\* The cache, or the time of the last archive before it, cannot be updated.
CacheFails ==
    /\ downloads # <<>> /\ ~IsLastFile(downloads[1]) /\ source = "day" /\ mishaps < MaxLapses
    /\ LET d == downloads[1]
           rain == ComputedRainfall(d, FALSE)
       IN  /\ fileRows' = WithRain(fileRows, d.file, rain)
           /\ fileCopies' = WithRain(fileCopies, d.file, rain)
           /\ last' = d.file
           /\ lapses' = lapses \cup LapsesOf(d, FALSE) \cup {"uncached"}
    /\ downloads' = Tail(downloads) /\ mishaps' = mishaps + 1
    /\ UNCHANGED <<source, bounds, summed, fallen, now, file, polled, rainCache>>

\* One insertion fails: the second is not tried after the first, but for the
\* current conditions.
InsertionRefused ==
    /\ downloads # <<>> /\ ~IsLastFile(downloads[1]) /\ mishaps < MaxLapses
    /\ LET d == downloads[1]
           rain == ComputedRainfall(d, FALSE)
       IN  \/ /\ fileRows' = fileRows
              /\ fileCopies' = IF source = "current" THEN WithRain(fileCopies, d.file, rain) ELSE fileCopies
              /\ lapses' = lapses \cup (IF source = "current" THEN LapsesOf(d, FALSE) ELSE {})
                           \cup (IF source = "current" /\ summed = "cassandra" THEN {"half"} ELSE {})
           \/ /\ fileRows' = WithRain(fileRows, d.file, rain)
              /\ fileCopies' = fileCopies
              /\ lapses' = lapses \cup (IF summed = "cassandra" THEN {"half"} ELSE {})
    /\ downloads' = Tail(downloads) /\ mishaps' = mishaps + 1
    /\ UNCHANGED <<source, bounds, summed, fallen, now, file, polled, rainCache, last>>

DayRainInit ==
    /\ source \in Sources
    /\ bounds \in (IF source \in {"static", "statichour"} THEN SUBSET {"begin", "end"}
                   ELSE {{"begin", "end"}})
    /\ summed \in {"cassandra", "timescale"}
    /\ fallen \in Weather /\ now = 0 /\ file = -1 /\ polled = -1 /\ downloads = <<>>
    /\ fileRows = <<>> /\ fileCopies = <<>>
    /\ rainCache = [time |-> -1, rain |-> 0] /\ last = -1
    /\ lapses = {} /\ mishaps = 0
DayRainIdle ==
    /\ source = NoSource /\ bounds = {} /\ summed = "timescale"
    /\ fallen = <<>> /\ now = 0 /\ file = -1 /\ polled = -1 /\ downloads = <<>>
    /\ fileRows = <<>> /\ fileCopies = <<>>
    /\ rainCache = [time |-> -1, rain |-> 0] /\ last = -1
    /\ lapses = {} /\ mishaps = 0
DayRainNext ==
    /\ source # NoSource
    /\ \/ Tick \/ MBDataOffload \/ StaticOffload \/ WeatherlinkOffload \/ Restart
       \/ DiscardLastFile \/ StoreRain \/ CacheFails \/ InsertionRefused

-----------------------------------------------------------------------------
(* Properties                                                               *)

\* By how much the rows of each day differ from the rain of the day at its last row;
\* for hourly totals, by how much all the rows do from the rain of these hours.
DaysStored == {Midnight(t) : t \in DOMAIN fileCopies}
LastOfDay(day) == Max({t \in DOMAIN fileCopies : Midnight(t) = day})
Spans ==
    IF source \in {"hour", "statichour"}
    THEN IF DOMAIN fileCopies = {} THEN {}
         ELSE {<<Max({0, Min(DOMAIN fileCopies) - Hour}), Min(DOMAIN fileCopies), Max(DOMAIN fileCopies)>>}
    ELSE {<<day, day, LastOfDay(day)>> : day \in DaysStored}
Excess == {RainBetween(fileCopies, s[2], s[3]) - (fallen[s[3]] - fallen[s[1]]) : s \in Spans}

\* No rain is stored twice in TimescaleDB, whatever the station writes, is
\* downloaded, and is refused or restarted in between, unless a file is ingested
\* after midnight, the cache could not be updated, two files of the first minutes
\* of an hour follow each other, or a poll comes early.
NoRainTwice ==
    source # NoSource /\ lapses \cap {"late", "uncached", "close", "early", "half"} = {} =>
        \A e \in Excess : e <= 0

\* Nor is any left out up to the last row with rain, unless a file is read again
\* after a restart (it then says that nothing more has fallen, at the same time),
\* an hour has no file in its first minutes, rows of the last hour hold rain from
\* before it, or an insertion fails in one of the databases only.  (There is no
\* more rain in the day once its rain is over the limit.)
NoRainMissed ==
    source # NoSource
    /\ lapses \cap {"replayed", "gap", "edge", "half"} = {} =>
        \A e \in Excess : e >= 0

\* The rain of a day is stored once, whenever its files are written, downloaded and
\* ingested, but for the exceptions above.
RainStoredOnce == NoRainTwice /\ NoRainMissed
=============================================================================
