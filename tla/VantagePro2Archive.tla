-------------------------- MODULE VantagePro2Archive --------------------------
(***************************************************************************)
(* The data side of VantagePro2Connector: which archive records a download *)
(* asks from the station, stores in the two databases, and takes as a      *)
(* starting point for the next one, across partial failures of the         *)
(* storage, lost connections and reconnections.  The conversation itself   *)
(* is in VantagePro2Connector: each action here is what a successful part  *)
(* of it does to the data.                                                 *)
(*                                                                         *)
(* A record is its timestamp, which the station never repeats.             *)
(***************************************************************************)
EXTENDS Integers, Sequences

CONSTANTS
    PageSize,       \* records in a page of the station's memory (5)
    PollingPeriod,  \* _pollingPeriod
    DayLength,      \* times in a day
    MaxTime,        \* bound: time
    MaxFailures     \* bound: lost connections and database failures

ASSUME ConstantsAssumption ==
    /\ PageSize \in Nat \ {0}
    /\ PollingPeriod \in Nat \ {0}
    /\ DayLength \in Nat \ {0}
    /\ MaxTime \in Nat \ {0}
    /\ MaxFailures \in Nat

VARIABLES
    now,
    log,            \* the station's memory, oldest record first
    observations,   \* records in the observations database
    timescale,      \* records in the TimescaleDB copy
    watermark,      \* the station's last archive download time in the database
    conn,           \* "down", "idle", "asking" or "downloading"
    lastArchive,    \* _lastArchive
    oldest, newest, \* _oldestArchive, _newestArchive
    beginning,      \* _archivePage._beginning
    mostRecent,     \* _archivePage._mostRecent
    page, pagesLeft,\* the next page the station sends, and how many remain
    late,           \* history: records stored after the end of their day
    requested,      \* history: spans given to the job publisher
    failures

stationVars  == <<now, log>>
databaseVars == <<observations, timescale, watermark>>
memberVars   == <<lastArchive, oldest, newest, beginning, mostRecent>>
pageVars     == <<page, pagesLeft>>
historyVars  == <<late, requested>>
vars == <<stationVars, databaseVars, conn, memberVars, pageVars, historyVars, failures>>

Epoch == 0
Day(t) == t \div DayLength
Lower(a, b) == IF b < a THEN b ELSE a

-----------------------------------------------------------------------------
(* The station's memory                                                     *)

\* Time passes; the station records a measure, or misses it.
Tick ==
    /\ now < MaxTime
    /\ now' = now + 1
    /\ \/ log' = Append(log, now')
       \/ UNCHANGED log
    /\ UNCHANGED <<databaseVars, conn, memberVars, pageVars, historyVars, failures>>

PageOf(i) == (i - 1) \div PageSize
Newer(t) == {i \in DOMAIN log : log[i] > t}

\* The station answers with the pages from that of the first record after t.
FirstPage(t) == PageOf(CHOOSE i \in Newer(t) : \A j \in Newer(t) : i <= j)
PagesAfter(t) == IF Newer(t) = {} THEN 0 ELSE PageOf(Len(log)) - FirstPage(t) + 1

OnPage(p) == {log[i] : i \in {j \in DOMAIN log : PageOf(j) = p}}

-----------------------------------------------------------------------------
(* Identification, WAITING_DATA_STATION to WAITING_DATA_TIMEZONE            *)

\* VantagePro2ArchivePage::prepare, and the fault of leaving its members at
\* their default value.
LeaveUnprepared(t) == beginning' = Epoch /\ mostRecent' = Epoch
Prepare(t) == beginning' = t /\ mostRecent' = t

Identify ==
    /\ lastArchive' = watermark
    /\ Prepare(watermark)
    /\ conn' = IF now - watermark > PollingPeriod THEN "asking" ELSE "idle"
    /\ UNCHANGED <<stationVars, databaseVars, pageVars, historyVars, failures>>

\* A new connector, for a new connection.
Connect ==
    /\ conn = "down"
    /\ oldest' = now /\ newest' = Epoch
    /\ Identify

\* A reload identifies the station again with the same connector.
Reload ==
    /\ conn = "idle"
    /\ UNCHANGED <<oldest, newest>>
    /\ Identify

-----------------------------------------------------------------------------
(* Download, SENDING_WAKE_UP_ARCHIVE to SENDING_ARCHIVE_PAGE_ANSWER         *)

Ask ==
    /\ conn = "asking"
    /\ conn' = "downloading"
    /\ pagesLeft' = PagesAfter(lastArchive)
    /\ page' = IF Newer(lastArchive) = {} THEN page ELSE FirstPage(lastArchive)
    /\ UNCHANGED <<stationVars, databaseVars, memberVars, historyVars, failures>>

\* The test on _archiveSize.pagesLeft.
MorePages == pagesLeft > 0

\* isRelevant
IsRelevant(r) == r > beginning /\ r <= now

Relevant == {r \in OnPage(page) : IsRelevant(r)}
MostRecentAfter == CHOOSE t \in Relevant \cup {mostRecent} :
                     \A r \in Relevant \cup {mostRecent} : t >= r

\* The records stored once their day is over.
Late(stored) == late \cup {r \in stored : Day(r) < Day(now)}

\* The last archive download time follows the newest record of the page, and
\* a failure to write it is logged and nothing more.
AdvanceWatermark(t) ==
    IF t > newest
    THEN /\ newest' = t
         /\ \/ watermark' = t /\ UNCHANGED failures
            \/ /\ failures < MaxFailures /\ failures' = failures + 1
               /\ UNCHANGED watermark
    ELSE UNCHANGED <<newest, watermark, failures>>

StorePage ==
    /\ conn = "downloading" /\ MorePages
    /\ observations' = observations \cup Relevant
    /\ timescale' = timescale \cup Relevant
    /\ late' = Late(Relevant)
    /\ mostRecent' = MostRecentAfter
    /\ AdvanceWatermark(MostRecentAfter)
    /\ oldest' = Lower(oldest, MostRecentAfter)
    /\ pagesLeft' = pagesLeft - 1
    /\ page' = page + 1
    /\ UNCHANGED <<stationVars, conn, lastArchive, beginning, requested>>

\* stop(), and the fault of acknowledging the page all the same.
SkipPage == conn' = conn /\ pagesLeft' = pagesLeft - 1 /\ page' = page + 1
StopDownload == conn' = "down" /\ UNCHANGED pageVars

\* An insertion is refused: the records before it are stored, none is in
\* TimescaleDB, and the connector stops.
CannotStorePage ==
    /\ conn = "downloading" /\ MorePages
    /\ failures < MaxFailures /\ failures' = failures + 1
    /\ \E bound \in Relevant \cup {Epoch} :
         LET stored == {r \in Relevant : r <= bound}
         IN  observations' = observations \cup stored /\ late' = Late(stored)
    /\ StopDownload
    /\ UNCHANGED <<stationVars, timescale, watermark, memberVars, requested>>

\* (A fault: the time of the download is kept instead.)
TimeOfDownload == now
LastRetrieved == newest

\* The last page is answered.  _newestArchive is the epoch if this connector
\* has stored nothing yet.
FinishDownload ==
    /\ conn = "downloading" /\ pagesLeft = 0
    /\ conn' = "idle"
    /\ lastArchive' = LastRetrieved
    /\ requested' = IF Day(oldest) < Day(now)
                    THEN requested \cup {<<oldest, newest>>} ELSE requested
    /\ UNCHANGED <<stationVars, databaseVars, oldest, newest, beginning, mostRecent, pageVars,
                   late, failures>>

\* WAITING_NEXT_MEASURE_TICK
NextMeasure ==
    /\ conn = "idle"
    /\ conn' = "asking"
    /\ UNCHANGED <<stationVars, databaseVars, memberVars, pageVars, historyVars, failures>>

Disconnect ==
    /\ conn # "down"
    /\ failures < MaxFailures /\ failures' = failures + 1
    /\ conn' = "down"
    /\ UNCHANGED <<stationVars, databaseVars, memberVars, pageVars, historyVars>>

-----------------------------------------------------------------------------
Init ==
    /\ now = 1 /\ log = <<>>
    /\ observations = {} /\ timescale = {} /\ watermark = Epoch
    /\ conn = "down"
    /\ lastArchive = Epoch /\ oldest = now /\ newest = Epoch
    /\ beginning = Epoch /\ mostRecent = Epoch
    /\ page = 0 /\ pagesLeft = 0
    /\ late = {} /\ requested = {}
    /\ failures = 0

Next ==
    \/ Tick
    \/ Connect \/ Reload
    \/ Ask \/ StorePage \/ CannotStorePage \/ FinishDownload
    \/ NextMeasure
    \/ Disconnect

Spec == Init /\ [][Next]_vars

\* The station reconnects after a failure, answers, and is polled again.
Fairness ==
    /\ WF_vars(Connect) /\ WF_vars(Ask) /\ WF_vars(StorePage) /\ WF_vars(FinishDownload)
    /\ WF_vars(NextMeasure)

FairSpec == Spec /\ Fairness

-----------------------------------------------------------------------------
(* Properties *)

Times == 0 .. MaxTime

\* Every variable has its type.
TypeOK ==
    /\ now \in Times
    /\ log \in Seq(Times)
    /\ observations \subseteq Times /\ timescale \subseteq Times
    /\ watermark \in Times
    /\ conn \in {"down", "idle", "asking", "downloading"}
    /\ {lastArchive, oldest, newest, beginning, mostRecent} \subseteq Times
    /\ page \in Nat /\ pagesLeft \in Nat
    /\ late \subseteq Times
    /\ requested \subseteq Times \X Times
    /\ failures \in Nat

\* The last archive download time promises that everything before it is
\* stored, in both databases: no failure, partial or not, followed by any
\* reconnection, leaves a hole behind it.
NoHole ==
    \A i \in DOMAIN log :
        log[i] <= watermark => log[i] \in observations /\ log[i] \in timescale

\* Which is the promise of all that keep such a time, for a memory the station
\* shows whole, with no record forsaken.
Promise == INSTANCE PolledArchive WITH
    Records <- {1} \X Times,
    offered <- {<<1, log[i]>> : i \in DOMAIN log},
    stored <- {1} \X observations,
    forsaken <- {},
    mark <- watermark
KeepsPromise == Promise!Spec

\* Nor does it ever go back.
WatermarkAdvances == [][watermark' >= watermark]_watermark

\* A record the station holds is eventually stored, whatever failed before,
\* although _lastArchive may fall back to the epoch after a download without
\* any page.
EverythingStored ==
    \A t \in Times : (\E i \in DOMAIN log : log[i] = t) ~> t \in observations \cap timescale

\* _oldestArchive is "the timestamp of the oldest archive recovered from the
\* station, it determines the span of climatology data that should be
\* recomputed": the day of each record stored late by the downloads of the
\* connector is in a span given to the publisher when they are over.
ClimatologyRecomputed ==
    conn = "idle" /\ failures = 0 =>
        \A r \in late : \E span \in requested :
            Day(r) \in Day(span[1]) .. Day(span[2])

=============================================================================
