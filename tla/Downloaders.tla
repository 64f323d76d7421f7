----------------------------- MODULE Downloaders -----------------------------
(***************************************************************************)
(* The downloaders of past records: from the web services of the stations' *)
(* makers and of Météo-France, and the computation of the virtual          *)
(* stations, which polls other stations.                                   *)
(*                                                                         *)
(* A download starts after the last archive it knows (lastArchive, read    *)
(* from the database when the downloader is built) and runs span by span,  *)
(* a request each: it asks, deletes, inserts in both databases, and moves  *)
(* the time of the last archive download (mark).  A request and what its   *)
(* answer triggers is one step; the site, and a crash, come between two.   *)
(***************************************************************************)
EXTENDS FiniteSetsExt

CONSTANTS
    Kinds,          \* the services to model
    MaxTime,        \* bound: times of the records
    Window,         \* span of a request (24 h)
    Rewind,         \* how far apiv2 goes back if the last archive is recent (6 h)
    Disconnected,   \* delay after which apiv2 asks for the current data (2 days)
    Given,          \* delay after which apiv2 gives up (MAX_DISCONNECTION_DAYS)
    Stale,          \* delay after which weatherlink asks for everything (96 h)
    Resync,         \* delay after which weatherlink trusts the announced date (48 h)
    PageSize,       \* messages in a page of liveobjects
    Illegible,      \* times whose record is illegible
    Sparse,         \* bound: times of the records of the second part
    Main,           \* the part of an apiv2 station that is the station itself: _uuids
                    \* is a std::set, which sorts it among its substations
    MaxFaults       \* bound: refusals, garbled answers, errors and crashes

Services == {"weatherlink", "apiv2", "fieldclimate", "liveobjects", "meteofrance", "radome", "virtual"}

ASSUME DownloadersAssumption ==
    /\ Kinds \subseteq Services
    /\ MaxTime \in Nat \ {0} /\ MaxFaults \in Nat
    /\ Window \in Nat \ {0} /\ PageSize \in Nat \ {0}
    /\ {Rewind, Disconnected, Given, Stale, Resync} \subseteq Nat
    /\ Illegible \subseteq 1 .. MaxTime /\ Sparse \subseteq 1 .. MaxTime
    /\ Main \in {1, 2}

VARIABLES
    kind,           \* the service
    inclusive,      \* whether the database deletes the lower bound of a span
    now,
    site,           \* records on the web site: pairs <<part, time>>
    mark,           \* last archive download time of the station, in the database
    lastArchive,    \* _lastArchive
    oldest, newest, \* bounds of what is downloaded
    cursor, until,  \* the loop of the download: next span, end (cursor is Idle outside)
    ok,             \* insertionOk
    attempt,        \* parity of the answers that change nothing
    cassandra, timescale,
    jobs,           \* pairs <<part, time>> given to the publisher of climatology jobs
    offered, forsaken,  \* history: see PolledArchive
    faults

loop == <<oldest, newest, cursor, until, ok, attempt>>
databases == <<cassandra, timescale>>
history == <<offered, forsaken>>
vars == <<kind, inclusive, now, site, mark, lastArchive, loop, databases, jobs, history, faults>>

Times == 0 .. MaxTime
Idle == -(Rewind + 1)      \* before the beginning of any span
Busy == cursor # Idle

\* An apiv2 station and its substation, in the order of their UUIDs; the others have
\* one part.  The station itself is one of them (_station).
Parts == IF kind = "apiv2" THEN {1, 2} ELSE {1}
Station == IF kind = "apiv2" THEN Main ELSE 1
Records == {1, 2} \X Times

TimesOf(records) == {r[2] : r \in records}
Latest(records, default) == Max(TimesOf(records) \cup {default})
Between(records, lo, hi) == {r \in records : lo <= r[2] /\ r[2] <= hi}
OfPart(records, p) == {r \in records : r[1] = p}
Legible(records) == {r \in records : r[2] \notin Illegible}
Lower(a, b) == IF b < a THEN b ELSE a
Higher(a, b) == IF b > a THEN b ELSE a

\* How the databases answer to the insertion of records: Cassandra refuses
\* one, TimescaleDB refuses one, or the time of the last archive download
\* cannot be written.
Smooth == [refused |-> {}, late |-> {}, stuck |-> FALSE]
Outcomes(records) ==
    {Smooth, [Smooth EXCEPT !.stuck = TRUE]}
    \cup {[Smooth EXCEPT !.refused = {r}] : r \in records}
    \cup {[Smooth EXCEPT !.late = {r}] : r \in records}

Fault == faults < MaxFaults /\ faults' = faults + 1
Meets(o) == IF o = Smooth THEN UNCHANGED faults ELSE Fault

-----------------------------------------------------------------------------
(* The web sites: the records come late, those of a part in order, but for  *)
(* the hours of Météo-France.                                               *)

Tick ==
    /\ now < MaxTime
    /\ now' = now + 1
    /\ UNCHANGED <<kind, inclusive, site, mark, lastArchive, loop, databases, jobs, history, faults>>

Upload(p, t) ==
    /\ t <= now
    /\ p = 2 => t \in Sparse
    /\ kind \notin {"meteofrance", "radome"} => t > Latest(OfPart(site, p), 0)
    /\ site' = site \cup {<<p, t>>}
    /\ UNCHANGED <<kind, inclusive, now, mark, lastArchive, loop, databases, jobs, history, faults>>

-----------------------------------------------------------------------------
(* Storing.  The database refuses some records (refused).                   *)

\* deleteDataPoints, the lower bound included or not.
Deleted(records, lo, hi) ==
    {r \in records : lo <= r[2] /\ r[2] <= hi /\ (r[2] = lo => inclusive)}

\* updateLastArchiveDownloadTime succeeds, or not; the member follows.
Advance(m, o) ==
    IF o.stuck THEN UNCHANGED <<mark, lastArchive>> ELSE mark' = m /\ lastArchive' = m

\* publishJobsForPastDataInsertion(_station, b, e): of the station, never of its
\* substations.  (A fault used as a mutant: only the last time is published.)
PublishLast(b, e) == jobs' = jobs \cup {<<Station, e>>}
Publish(b, e) == jobs' = jobs \cup ({Station} \X (b .. e))

Show(records) == offered' = offered \cup Legible(records)

Done == cursor' = Idle /\ until' = Idle
Finish ==
    /\ Done
    /\ UNCHANGED <<oldest, newest, ok, attempt>>

-----------------------------------------------------------------------------
(* WeatherlinkDownloader::download: one request for the date of the last    *)
(* record, one for the records.  The result of each insertion replaces the  *)
(* one before, and nothing gave it a publisher.                             *)

Reference == IF lastArchive > now - Stale THEN lastArchive ELSE 0

LastOf(records) == CHOOSE r \in records : r[2] = Latest(records, 0)

WeatherlinkStored(records, o) == LastOf(records) \notin o.refused /\ o.late = {}

WeatherlinkMark(announced, last) ==
    IF announced < last /\ announced < now - Resync THEN announced ELSE last

WeatherlinkDownload ==
    /\ kind = "weatherlink" /\ ~Busy
    /\ \E announced \in TimesOf(site) :
         LET records == Legible({r \in site : r[2] > Reference})
             start == Min({now} \cup TimesOf(records))
             last == Higher(newest, Latest(records, 0))
         IN /\ announced > lastArchive
            /\ records # {}
            /\ \E o \in Outcomes(records) :
                 /\ Meets(o)
                 /\ cassandra' = (cassandra \ Deleted(cassandra, start, Latest(records, lastArchive)))
                                   \cup (records \ o.refused)
                 /\ oldest' = Lower(oldest, start)
                 /\ IF WeatherlinkStored(records, o)
                    THEN /\ timescale' = timescale \cup records
                         /\ newest' = WeatherlinkMark(announced, last)
                         /\ mark' = IF o.stuck THEN mark ELSE newest'
                    ELSE /\ newest' = last
                         /\ UNCHANGED <<timescale, mark>>
                 /\ forsaken' = forsaken \cup {r \in o.refused : r[2] <= mark'}
                 /\ Show(records)
    /\ UNCHANGED <<kind, inclusive, now, site, lastArchive, cursor, until, ok, attempt, jobs>>

-----------------------------------------------------------------------------
(* The loop of the others: a download is begun, asks for one span after the *)
(* other, and ends, by itself or with an error, or with the daemon.         *)

BeginLoop(from, to) ==
    /\ cursor' = from
    /\ until' = to
    /\ ok' = TRUE
    /\ UNCHANGED <<kind, inclusive, now, site, mark, lastArchive, attempt, databases, jobs, history, faults>>

\* The next span, or the end of the loop.  (Faults used as mutants: the loop
\* asks for the same span again; it skips one.)
GoOnSame(next) == IF next < until THEN UNCHANGED <<cursor, until>> ELSE Done
GoOnSkipping(next) ==
    IF next + Window < until THEN cursor' = next + Window /\ UNCHANGED until ELSE Done
GoOn(next) ==
    IF next < until
    THEN cursor' = next /\ UNCHANGED until
    ELSE Done

\* What is refused is asked again by the next download, unless this one goes on and
\* may advance, or it had been stored already and was deleted.
PassedOver(o) ==
    {r \in o.refused : cursor + Window < until \/ r[2] <= lastArchive}

\* WeatherlinkApiv2Downloader::download: not if the station has been silent
\* too long, or if its current data are no newer than the last archive.
Apiv2Begin ==
    /\ kind = "apiv2" /\ ~Busy
    /\ now - lastArchive <= Given
    /\ LET delay == now - lastArchive
           from == IF delay < Rewind THEN lastArchive - Rewind ELSE lastArchive
           newestUpdate == Latest(site, 0)
       IN /\ delay >= Disconnected => newestUpdate > lastArchive
          /\ from < (IF delay >= Disconnected THEN newestUpdate ELSE now)
          /\ BeginLoop(from, IF delay >= Disconnected THEN newestUpdate ELSE now)
          /\ UNCHANGED <<oldest, newest>>

\* The substations that have new records in the answer, and the time kept:
\* that of the last of them.
Fresh(page) == {p \in Parts : Latest(OfPart(page, p), 0) > lastArchive}
Apiv2Reference(page) ==
    IF Fresh(page) = {} THEN lastArchive ELSE Latest(OfPart(page, Max(Fresh(page))), 0)

\* One span: the records of the substations with something new replace what
\* the database has between their first and their last.  A refusal forbids
\* to advance in this span, not in the next.  TimescaleDB comes last and its
\* answer is ignored.
Apiv2Span ==
    /\ kind = "apiv2" /\ Busy
    /\ LET page == Legible(Between(site, cursor + 1, cursor + Window))
           records == {r \in page : r[1] \in Fresh(page)}
           deleted == UNION {Deleted(OfPart(cassandra, p), Min(TimesOf(OfPart(page, p))),
                                     Latest(OfPart(page, p), 0)) : p \in Fresh(page)}
       IN \E o \in Outcomes(records) :
            /\ Meets(o)
            /\ oldest' = Min({oldest} \cup TimesOf(records))
            /\ newest' = Latest(records, newest)
            /\ cassandra' = (cassandra \ deleted) \cup (records \ o.refused)
            /\ IF o.refused = {}
               THEN Advance(Apiv2Reference(page), o) /\ Publish(oldest', newest')
               ELSE UNCHANGED <<mark, lastArchive, jobs>>
            /\ timescale' = IF o.late # {} THEN timescale ELSE timescale \cup records
            /\ forsaken' = forsaken \cup PassedOver(o)
            /\ Show(records)
    /\ GoOn(cursor + Window)
    /\ UNCHANGED <<kind, inclusive, now, site, ok, attempt>>

-----------------------------------------------------------------------------
(* FieldClimateApiDownloader::download.  It deletes from the last archive   *)
(* on, and a record there is inserted again only if the span holds it.      *)

FieldClimateBegin ==
    /\ kind = "fieldclimate" /\ ~Busy
    /\ Latest(site, 0) > lastArchive
    /\ BeginLoop(lastArchive, Latest(site, 0))
    /\ UNCHANGED <<oldest, newest>>

FieldClimateSpan ==
    /\ kind = "fieldclimate" /\ Busy
    /\ LET records == Legible(Between(site, cursor, cursor + Window))
       IN \E o \in Outcomes(records) :
            /\ Meets(o)
            /\ IF records = {}
               THEN UNCHANGED <<mark, lastArchive, databases, jobs, forsaken>>
               ELSE LET last == Latest(records, 0)
                        deleted == Deleted(cassandra, lastArchive, last)
                    IN /\ cassandra' = (cassandra \ deleted) \cup (records \ o.refused)
                       /\ forsaken' = forsaken \cup PassedOver(o) \cup ((deleted \ records) \cap offered)
                       /\ IF o.refused = {}
                          THEN Advance(last, o) /\ Publish(Min(TimesOf(records)), last)
                          ELSE UNCHANGED <<mark, lastArchive, jobs>>
                       /\ timescale' = IF o.late # {} THEN timescale ELSE timescale \cup records
            /\ Show(records)
    /\ GoOn(cursor + Window)
    /\ UNCHANGED <<kind, inclusive, now, site, oldest, newest, ok, attempt>>

-----------------------------------------------------------------------------
(* LiveobjectsApiDownloader::download: pages of PageSize messages; the time *)
(* advances once, at the end, over the records inserted in both databases.  *)

LiveobjectsBegin ==
    /\ kind = "liveobjects" /\ ~Busy
    /\ Latest(site, 0) > lastArchive
    /\ BeginLoop(lastArchive, now)
    /\ newest' = lastArchive
    /\ oldest' = MaxTime

\* The first messages of a span.
Page(span) == {r \in span : Cardinality({s \in span : s[2] < r[2]}) < PageSize}

\* A page without progress ends its span, what is after the page included.
LiveobjectsNext(reached) == IF cursor >= reached THEN cursor + Window ELSE reached

\* The loop goes on, or ends: after a refusal without advancing.  (A fault used
\* as a mutant: a refusal changes nothing.)
LiveobjectsGoOnAnyway(next, good, b, e, o) ==
    IF next < until
    THEN cursor' = next /\ UNCHANGED <<until, mark, lastArchive, jobs>>
    ELSE Done /\ Advance(e, o) /\ Publish(b, e)
LiveobjectsGoOn(next, good, b, e, o) ==
    IF good /\ next < until
    THEN cursor' = next /\ UNCHANGED <<until, mark, lastArchive, jobs>>
    ELSE /\ Done
         /\ IF good THEN Advance(e, o) /\ Publish(b, e) ELSE UNCHANGED <<mark, lastArchive, jobs>>

LiveobjectsPage ==
    /\ kind = "liveobjects" /\ Busy
    /\ LET span == Between(site, cursor + 1, cursor + Window)
           page == Legible(Page(span))
       IN \E o \in Outcomes(page) :
            LET stored == page \ (o.refused \cup o.late)
            IN /\ Meets(o)
               /\ newest' = Latest(stored, newest)
               /\ oldest' = Min({oldest} \cup TimesOf(stored))
               /\ ok' = (stored = page)
               /\ cassandra' = cassandra \cup (page \ o.refused)
               /\ timescale' = timescale \cup stored
               /\ forsaken' = forsaken \cup (IF cursor >= newest' THEN Legible(span \ Page(span)) ELSE {})
               /\ Show(span)
               /\ LiveobjectsGoOn(LiveobjectsNext(newest'), ok', oldest', newest', o)
    /\ UNCHANGED <<kind, inclusive, now, site, attempt>>

\* An answer that is not JSON: the same page is asked again, at once.
LiveobjectsGarbled ==
    /\ kind = "liveobjects" /\ Busy
    /\ attempt' = ~attempt
    /\ UNCHANGED <<kind, inclusive, now, site, mark, lastArchive, oldest, newest, cursor, until, ok,
                   databases, jobs, history, faults>>

-----------------------------------------------------------------------------
(* MeteoFranceApiDownloader::download: a request for each hour, from the    *)
(* last archive on.  The hour of an answer that is not JSON is skipped.     *)

MeteoFranceBegin ==
    /\ kind = "meteofrance" /\ ~Busy
    /\ BeginLoop(lastArchive, now)
    /\ oldest' = lastArchive
    /\ newest' = lastArchive

\* (A fault used as a mutant: a refusal does not end the loop.)
MeteoFranceGoOnAnyway(good, e, o) ==
    IF cursor + 1 < until
    THEN cursor' = cursor + 1 /\ UNCHANGED <<until, mark, lastArchive, jobs>>
    ELSE Done /\ Advance(Higher(e, cursor), o) /\ Publish(oldest, e)
MeteoFranceGoOn(good, e, o) ==
    IF good /\ cursor + 1 < until
    THEN cursor' = cursor + 1 /\ UNCHANGED <<until, mark, lastArchive, jobs>>
    ELSE /\ Done
         /\ IF good THEN Advance(e, o) ELSE UNCHANGED <<mark, lastArchive>>
         /\ IF good /\ e > oldest THEN Publish(oldest, e) ELSE UNCHANGED jobs

MeteoFranceHour ==
    /\ kind = "meteofrance" /\ Busy
    /\ LET records == Legible(Between(site, cursor, cursor))
       IN \E o \in Outcomes(records) :
            LET stored == records \ (o.refused \cup o.late)
            IN /\ Meets(o)
               /\ newest' = Latest(stored, newest)
               /\ ok' = (stored = records)
               /\ cassandra' = cassandra \cup (records \ o.refused)
               /\ timescale' = timescale \cup stored
               /\ Show(records)
               /\ MeteoFranceGoOn(ok', newest', o)
    /\ UNCHANGED <<kind, inclusive, now, site, oldest, attempt, forsaken>>

MeteoFranceGarbled ==
    /\ kind = "meteofrance" /\ Busy
    /\ Fault
    /\ LET records == Legible(Between(site, cursor, cursor))
       IN Show(records) /\ forsaken' = forsaken \cup records
    /\ MeteoFranceGoOn(TRUE, newest, Smooth)
    /\ UNCHANGED <<kind, inclusive, now, site, oldest, newest, ok, attempt, databases>>

-----------------------------------------------------------------------------
(* MeteoFranceApiDownloadScheduler::download: all the stations at once, a   *)
(* request for each step of six minutes.  Nothing but an error of the       *)
(* request keeps the time of the last download from advancing.              *)

RadomeBegin ==
    /\ kind = "radome" /\ ~Busy
    /\ cursor' = Higher(mark - Rewind, 0)
    /\ until' = now
    /\ UNCHANGED <<kind, inclusive, now, site, mark, lastArchive, oldest, newest, ok, attempt,
                   databases, jobs, history, faults>>

RadomeGoOn == IF cursor + 1 <= until THEN cursor' = cursor + 1 /\ UNCHANGED until ELSE Done

\* MeteoFranceApi6mDownloader::download: what Cassandra refuses still goes to
\* TimescaleDB; a garbled answer is asked for three times, then skipped.
RadomeStep ==
    /\ kind = "radome" /\ Busy
    /\ LET records == Legible(Between(site, cursor, cursor))
       IN \E o \in Outcomes(records), garbled \in BOOLEAN :
            /\ garbled => o = Smooth
            /\ IF garbled THEN Fault ELSE Meets(o)
            /\ cassandra' = IF garbled THEN cassandra ELSE cassandra \cup (records \ o.refused)
            /\ timescale' = IF garbled \/ o.late # {} THEN timescale ELSE timescale \cup records
            /\ forsaken' = forsaken \cup (IF garbled THEN records ELSE o.refused \cup o.late)
            /\ mark' = IF o.stuck THEN mark ELSE Higher(mark, cursor)
            /\ Show(records)
    /\ RadomeGoOn
    /\ UNCHANGED <<kind, inclusive, now, site, lastArchive, oldest, newest, ok, attempt, jobs>>

-----------------------------------------------------------------------------
(* VirtualObsComputer::compute: an observation for each target time up to   *)
(* now, if a source has something newer than the last.  The time written in *)
(* the database is the end of the computation from the first target on.     *)

VirtualBegin ==
    /\ kind = "virtual" /\ ~Busy
    /\ Latest(site, 0) > lastArchive
    /\ BeginLoop(lastArchive, now)
    /\ oldest' = lastArchive
    /\ newest' = now

VirtualTarget ==
    /\ kind = "virtual" /\ Busy
    /\ LET target == {<<1, cursor>>}
       IN \E o \in Outcomes(target) :
            /\ Meets(o)
            /\ cassandra' = cassandra \cup (target \ o.refused)
            /\ timescale' = timescale \cup (target \ (o.refused \cup o.late))
            /\ ok' = (o = Smooth)
            /\ IF ok'
               THEN mark' = newest /\ lastArchive' = cursor
               ELSE UNCHANGED <<mark, lastArchive>>
            /\ offered' = offered \cup {<<1, t>> : t \in Higher(cursor, 1) .. until}
            /\ forsaken' = forsaken \cup (IF ok' THEN offered' \ timescale' ELSE {})
    /\ IF ok' /\ cursor + 1 <= until
       THEN cursor' = cursor + 1 /\ UNCHANGED <<until, jobs>>
       ELSE /\ Done
            /\ IF ok' THEN Publish(oldest, newest) ELSE UNCHANGED jobs
    /\ UNCHANGED <<kind, inclusive, now, site, oldest, newest, attempt>>

-----------------------------------------------------------------------------
(* Real-time data, errors and restarts                                      *)

\* downloadRealTime (Field Climate) and doProcessRealtimeMessage (apiv2): the
\* last record of each part, stored without advancing.
RealTime ==
    /\ kind \in {"apiv2", "fieldclimate"} /\ ~Busy
    /\ LET records == Legible({r \in site : r[2] = Latest(OfPart(site, r[1]), 0)})
       IN \E o \in Outcomes(records) :
            /\ ~o.stuck
            /\ Meets(o)
            /\ cassandra' = cassandra \cup (records \ o.refused)
            /\ timescale' = IF o.late # {} \/ (kind = "fieldclimate" /\ o.refused # {})
                            THEN timescale ELSE timescale \cup records
    /\ UNCHANGED <<kind, inclusive, now, site, mark, lastArchive, loop, jobs, history>>

\* The request fails, or its answer is garbled and not caught: the download is
\* given up, what it has stored stays.
RequestFails ==
    /\ Busy
    /\ Fault
    /\ Finish
    /\ UNCHANGED <<kind, inclusive, now, site, mark, lastArchive, databases, jobs, history>>

\* The downloader is built anew, by reloadStations, or by the daemon after a
\* crash.  (The code starts oldest at the time it is, which no record is after:
\* any later time does as well.)
Rebuild ==
    /\ lastArchive' = mark
    /\ oldest' = MaxTime /\ newest' = 0
    /\ ok' = TRUE
    /\ Done
    /\ UNCHANGED <<kind, inclusive, now, site, mark, attempt, databases, jobs, history>>

ReloadStations ==
    /\ ~Busy
    /\ Rebuild
    /\ UNCHANGED faults

Crash ==
    /\ Fault
    /\ Rebuild

-----------------------------------------------------------------------------
Init ==
    /\ kind \in Kinds
    /\ inclusive \in BOOLEAN
    /\ now = 1 /\ mark = 0 /\ lastArchive = 0
    /\ site = {}
    /\ oldest = MaxTime /\ newest = 0
    /\ cursor = Idle /\ until = Idle
    /\ ok = TRUE /\ attempt = FALSE
    /\ cassandra = {} /\ timescale = {}
    /\ jobs = {}
    /\ offered = {} /\ forsaken = {}
    /\ faults = 0

Begin == Apiv2Begin \/ FieldClimateBegin \/ LiveobjectsBegin \/ MeteoFranceBegin \/ RadomeBegin \/ VirtualBegin
Answer ==
    \/ Apiv2Span \/ FieldClimateSpan \/ LiveobjectsPage \/ LiveobjectsGarbled
    \/ MeteoFranceHour \/ MeteoFranceGarbled \/ RadomeStep \/ VirtualTarget

Next ==
    \/ Tick
    \/ \E p \in Parts, t \in 1 .. MaxTime : Upload(p, t)
    \/ WeatherlinkDownload
    \/ Begin
    \/ Answer
    \/ RealTime
    \/ RequestFails
    \/ ReloadStations
    \/ Crash

Spec == Init /\ [][Next]_vars

\* The scheduler calls the downloader again and again, and each request gets an
\* answer (it has a timeout).
Fairness == WF_vars(WeatherlinkDownload) /\ WF_vars(Begin) /\ WF_vars(Answer)
FairSpec == Spec /\ Fairness

-----------------------------------------------------------------------------
(* Properties                                                               *)

\* The downloader keeps the promise of PolledArchive.
Promise == INSTANCE PolledArchive WITH
    offered <- offered, stored <- cassandra, forsaken <- forsaken, mark <- mark
KeepsPromise == Promise!Spec

\* A record up to the time of the last archive download that is in Cassandra is
\* in TimescaleDB too, but where TimescaleDB comes after the time is written.
TimescaleLast == {"apiv2", "fieldclimate", "radome"}
TimescaleFollows ==
    kind \notin TimescaleLast =>
        \A r \in offered : r[2] <= mark /\ r \in cassandra => r \in timescale \cup forsaken

\* The time of the last archive download passes no record of the station in the
\* database without its climatology being asked for, for this station and this time:
\* the bounds kept from span to span, over refusals, lagging substations and new
\* downloads, leave none out.  Left out: weatherlink (nothing gave it a publisher),
\* radome (it does not publish), virtual (it publishes at the end, after the time is
\* written), fieldclimate once it has passed over a span with a refusal (it publishes
\* span by span), and what liveobjects forsakes, that an earlier download may have
\* stored.  So are the substations of apiv2: their records are stored under their own
\* UUIDs (weatherlink_apiv2_downloader.cpp:412-414), and line 436 publishes for the
\* station only, so that nobody ever asks for their climatology.
Publishes == kind \in {"apiv2", "liveobjects", "meteofrance"} \/ (kind = "fieldclimate" /\ forsaken = {})
Asked ==
    Publishes' => \A r \in (offered \cap cassandra)' :
        /\ r[1] = Station
        /\ mark < r[2] /\ r[2] <= mark'
        /\ ~(kind = "liveobjects" /\ r \in forsaken')
        => <<Station, r[2]>> \in jobs'
ClimatologyAsked == [][Asked]_vars

\* A download ends, unless Live Objects answers something else than JSON.
DownloadsEnd == []<>(~Busy \/ kind = "liveobjects")

\* Again and again the database has all that the site shows, or forsaken it, if
\* the site gives its records in order.  (apiv2 passes over the records of a
\* substation that lags behind the last one, meteofrance and radome over the
\* hours that come late, liveobjects may never end.)
InOrder == {"weatherlink", "fieldclimate", "virtual"}
CaughtUp == \A t \in TimesOf(Legible(site)) : <<1, t>> \in cassandra \cup forsaken
CatchesUp == []<>(kind \in InOrder => CaughtUp)

=============================================================================
