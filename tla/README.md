# A TLA+ model of meteodata-server

meteodata-server collects weather observations from several kinds of stations:
Davis VantagePro2 stations that open a TCP connection to it, sensors behind MQTT
brokers, HTTP and UDP pushes, and web APIs and files polled by schedulers. It
decodes them, stores them in two databases (Cassandra and TimescaleDB) and has
the climatology of past data computed again when late data come in. One
Boost.Asio `io_context`, run by a configurable number of threads
(`daemon.cpp:58`, one by default), runs everything; there are no strands. Paths
below are relative to `src/src/`.

The modules here translate the code, not its documentation. TLC checks small
instances; TLAPS proves some of the results for all values of the constants.

## Inventory of the system

| Component | State | Operations | Interacts with | Modules |
|---|---|---|---|---|
| `VantagePro2Connector` | state of the conversation, socket, timers, counters of timeouts and errors, page count, archive times | start, stop, reload; handlers of reads, writes and timers | station, databases, job publisher, control socket | `VantagePro2Connector`, `VantagePro2Archive` |
| `VantagePro2ArchivePage`, `VantagePro2ArchiveMessage`, `TimeOffseter` | first and last relevant time; settings of the console | prepare, isRelevant, store; populateDataPoint; local time to UTC and back | connector, databases | `VantagePro2Archive`, `ArchiveRecords` |
| `AsyncJobPublisher` | debounced spans with their timers, under a mutex | publishJobsForPastDataInsertion, doPublish | everything that inserts past data, jobs database | `AsyncJobPublisher`, `PastDataJobs` |
| `AbstractDownloadScheduler`, nine subclasses | stop flag, timer, period and offset | start, stop, reload, checkDeadline | control socket, downloaders, which block the thread | `AbstractDownloadScheduler` |
| `EventManager`, `FfvlExporter` | weak subscriptions; stations, last observations and timer | publish, subscribe, handle, reload | downloaders, the web site of the FFVL | `EventExport` |
| Downloaders of the web APIs, virtual stations | last archive time of each station | ask for a span, insert, advance | schedulers, databases, publisher | `Downloaders`, `PolledArchive` |
| MQTT subscribers (four kinds) | client, retry timer, subscriptions, stations | start, stop, reload, connack, publish, close, error | broker, databases, publisher | `MqttSubscriber` |
| `UdpConnection` and the NB-IoT handler | socket, one shared buffer | receive, process, insert | sensors, databases | `UdpConnection`, `SensorMessages` |
| `RestWebServer`, `HttpConnection`, the imports | acceptor, deadline of each connection, mark of each station | accept, read, import, answer | stations, databases, publisher | `RestWebServer`, `HttpImports` |
| `MeteoServer`, `ConnectorGroup`, `Watchdog`, daemon | acceptors, registry of weak pointers, stop flag, timer | start, stop, accept, notify systemd, run and return | all connectors, systemd | `MeteoServer`, `Connector` |
| `ControlConnector`, `meteodatactl` | state of the dialogue, buffer, one timer for two deadlines | query, answer, flush, stop | server, connectors | `ControlConnector` |
| Decoders: sensors, SYNOP, Weatherlink, FieldClimate, text files | none that lasts | parse, cast to an observation | importers | `SensorMessages`, `BaraniMessages`, `DraginoMessages`, `HexPayload`, `SynopParser`, `WeatherlinkMessages`, `FieldClimateMessages`, `TextFiles` |
| Rain kept as a difference | cached clicks or totals in the database | subtract, cache | importers, both databases | `RainGauges`, `DayRain` |
| Minmax and month minmax workers | jobs database, rows of the days and months | retrieve, compute, mark | publisher, observations | `Climatology` |
| Loop packets, records of the climatology, tools run by hand, wrappers | none that lasts | | | not modelled, see below |

What is hard in this code:

* **Cancelling is not stopping.** Cancelling an Asio timer or socket operation
  leaves alone a handler that is already queued. Every component re-arms its
  timers from handlers and from commands of the control socket, so stale
  handlers meet newer state everywhere.
* **Life is held by handlers.** `MeteoServer::_connectors` holds weak pointers:
  a connector lives as long as one of its handlers holds `shared_from_this()`.
* **Failures are partial.** Two databases, a watermark in one of them, cached
  values in the other and jobs in a third are written one after the other, with
  no transaction, while the connection may be lost or a message repeated.
* **A value depends on the one before.** Counters of clicks, totals since
  midnight and sums since the first of the month are only right if what precedes
  them was stored once, in order.
* **Blocking calls share the event loop.** Downloads and database calls hold
  the thread that should run timers.
* **Formats with holes.** Fields are packed to the bit, optional, absent, or
  replaced by a value that means "none" and differs from one field to the next.

What makes each component correct, in a sentence: the VantagePro2 connector
pairs each answer with its request, never loses its timer, gives up on silent
stations and never tells the station that data are delivered which are not
stored; a watermark leaves no hole behind it; the publisher publishes exactly
what it was asked for, once nothing more comes; a scheduler downloads once per
slot until it is stopped and then no more; a service that is stopped begins
nothing and one that is not comes back into service and stores what it was sent; a
decoder stores what the message says or nothing; a drop of rain is counted once;
the climatology ends up as if it were computed from all the observations.

## Modules

| Module | What it models |
|---|---|
| `VantagePro2Connector` | `davis/vantagepro2_connector.cpp`: the conversation, the Asio operations and timers under it, the commands |
| `VantagePro2Archive` | the data side of the same connector and `davis/vantagepro2_archive_page.cpp` |
| `AsyncJobPublisher` | `async_job_publisher.cpp` |
| `PastDataJobs` | what the publisher promises to its callers (abstract specification) |
| `AbstractDownloadScheduler` | `abstract_download_scheduler.cpp` |
| `EventExport` | `event/event_manager.cpp` and `export/ffvl_exporter.cpp` |
| `PolledArchive` | what whoever keeps a watermark promises (abstract specification) |
| `Downloaders` | the downloads of Weatherlink v1 and v2, FieldClimate, Live Objects, Météo-France (hourly and 6 minutes) and the virtual stations |
| `Connector` | what the services share: commands, the records of a station, the database, faults |
| `MqttSubscriber`, `UdpConnection`, `HttpImports`, `RestWebServer`, `ControlConnector`, `MeteoServer` | one service each; `RestWebServer` uses `HttpImports`, `MeteoServer` uses `ControlConnector` |
| `Services` (`MCServices`) | the composition of the services under one specification |
| `HexPayload`, `BaraniMessages`, `DraginoMessages`, `SensorMessages` | `hex_parser.h`, `barani/`, `dragino/`, the other sensors and the choice of a decoder |
| `SynopParser` (`MCSynop`), `WeatherlinkMessages` (`MCWeatherlink`), `TextFiles`, `FieldClimateMessages`, `ArchiveRecords` | `synop/`, the messages and pages of `davis/weatherlink_*`, `mbdata/` and `static/`, `pessl/`, the records of a console and `time_offseter.cpp` |
| `Observations` (`MCObservations`) | the decoders together, one at a time |
| `RainGauges`, `DayRain`, `Climatology` | clicks, totals of the day, and what the two workers compute |
| `Rainfall` (`MCRainfall`) | the three together, one at a time |
| `VantagePro2Connector_proofs`, `VantagePro2Archive_proofs`, `Timers_proofs` (the publisher and the scheduler), `Downloaders_proofs`, `Services_proofs`, `Observations_proofs` (the records of a console, FieldClimate and the text files), `Rainfall_proofs` | the proofs |
| `Sums` | the sum of values over times, by a recursive function, with which the rain is counted |
| `NumberSets` | lemmas about numbers that several proofs cite: the least and the greatest of a set, a first failure, sums |

A module that names several alternatives (the kinds of a subscriber, the
protocols of an import, the sensors) keeps what they share in one action and
gives each a disjunct or an operator for what it does of its own. `Services`,
`Observations` and `Rainfall` choose one alternative in `Init`: the alternatives
share no state in the code either, beyond the database and the event loop, which
each models for itself.

### VantagePro2Connector

`state` is `_currentState`, with the 29 values a handler can see (`STARTING` is
left by `start()` itself). What Asio holds for the connector is three
sequences: `ops` (socket operations under way), `waits` (waits on `_timer`) and
`ready` (handlers queued in the `io_context`). A cancelled operation or wait is
simply removed, because its handler returns at once on `operation_canceled`;
what is in `ready` cannot be cancelled any more, which is where the races of
this code come from. `expired` stands for `_timer.expires_at() <= now()`.

| Code | Action or operator |
|---|---|
| handlers of `sendRequest`, `sendBuffer`, `recvWakeUp`, `recvOk`, `recvAck`, `recvData`, then `handleEvent` | `RunIO`, with `OnSuccess` and `OnError` for the branches of the switch |
| `checkDeadline` then `handleEvent` on a timeout | `RunDeadline`, `OnTimeout` |
| handler of `flushSocketAndRetry` | `RunFlush` |
| `handleSetTimeDeadline` | `RunSetTimeDeadline` |
| `handleGenericErrors` | `RetriedStates`, `Restart`, `OnTimeout`, `OnError` |
| `start` of a new connection, by the acceptor | `Start` |
| `start`, `reload`, `stop` from the control socket | `ControlStart`, `Reload`, `ControlStop` |
| Asio, the kernel, the station | `DeadlinePasses`, `TimerFires`, `SetTimeTimerExpires`, `WriteCompletes`, `ReadCompletes`, `OperationFails`, `StationLeaves` |

The switch of `handleEvent` is given by tables (`Operation`, `Successor`,
`Restart`) for what all states do alike, and by one disjunct for each state that
does something of its own. The oddities of the code are kept: `WAITING_ACK_MAIN_MODE`
calls `handleGenericErrors` and then stops whatever it answered;
`WAITING_DATA_TIMEZONE` tests the CRC of `_coords`; both failures to store a
page go on after their `stop()`; `recvAck` looks at its buffer before its error
code; `_timeouts` is counted twice for each timeout. So is what `start` of the control
socket does (`connector_group.cpp:59`): it calls `start()` on every connector that is
alive, which begins another conversation over the one in course, its operations still
pending; and `set_option` throws, and ends the daemon, on one that is closed but still
held by a handler (`vantagepro2_connector.cpp:76`).

Three facts about Asio matter and are in the guards. One thread runs the reactor
only once the handlers it queued the last time are run; it polls sockets before
it looks at timers, so a write (one event) does not complete behind a queued
deadline, while a read in several segments may; operations of one direction
complete in order. With two workers the guards that depend on this fall.

### VantagePro2Archive and ArchiveRecords

One action for each part of the conversation that touches data: `Identify`
(last archive download time read from the database, page prepared), `Ask`,
`StorePage`, `CannotStorePage` (an insertion is refused midway),
`FinishDownload` (jobs requested, `_lastArchive` set), `Reload`, `Connect` with
a new connector, `Disconnect`. A record is its timestamp. The station answers
with whole pages from that of the first record asked for, so pages hold records
already stored, which `isRelevant` filters with `_beginning`.

`ArchiveRecords` is what `VantagePro2Archive` leaves out: the clock of the
console (a zone, a zone with daylight saving time by hand, or an offset to UTC),
its record of each half hour across both changes of the clock, and the
conversion of the words of a record to an observation. Its property says that
each record is stored at its time with its measures, but for what the code does
otherwise: temperatures are unsigned 16-bit (`vantagepro2_archive_message.h:67`,
`:82`), so a negative one in Fahrenheit becomes thousands of degrees; soil
temperature is stored as the inside temperature too; the hour shown twice is read
as its second passage (`choose::latest`), so that the first one is overwritten, or
dropped as in the future; daylight saving time by hand ignores whether it is on; before the server
has set the clock the records carry the owner's error. The minutes of a negative
offset are added (`time_offseter.cpp:102`), consistently both ways, and an index
of timezone beyond the table is not checked (`time_offseter.cpp:53`).

### AsyncJobPublisher and PastDataJobs

Both operations of the publisher hold `_mutex` throughout, so each is one step.
The handler of a timer captures its station by reference: for stations in
`Lasting` the caller keeps the key alive, for the others (the HTTP handlers pass
a local variable) the handler reads any key, or none. `Publish` and
`PublishFails` are `doPublish` and its two exceptions; `Restart` is an exit of
the daemon, after which the spans held in memory are gone.

`PastDataJobs` says what is promised: a span requested is owed until one min/max
job and one anomaly job cover all that is owed for the station, and no more. A
failure may write the first job only; a crash forgets what is owed.
`KeepsPromise` is the refinement, with `owed`, the history variable of the
publisher, mapped to itself.

### AbstractDownloadScheduler

`waits`, `ready` and `cancelled` are the handlers of `_timer` in their three
states; `running` counts downloads, each holding a thread. `left` is the time to
the deadline and `now` the clock modulo two periods, enough because the code
only uses it modulo one. `Start`, `Reload` and `Stop` come from the control
connector and need the scheduler to be alive. Four subclasses declare a
`_mustStop` of their own (`mbdata/mbdata_download_scheduler.h:96` and those of
Weatherlink and Météo-France), which their loops over the stations read and
`stop()` does not set: a stop does not cut a download short.

### EventExport

`subscriptions` counts, for each station, the pointers to the exporter held by
`EventManager::_subscriptionsForStation`; as in the scheduler, the exporter lives by the
handlers of its timer and by its export jobs. `PublishForStation` is the
publication by `WeatherlinkApiv2Downloader`, `PublishForAll` the one by
`VantagePro2Connector`, which names no station and which nobody subscribes to.
`Dispatch` is resolved as the compiler does: `Subscriber` declares one `handle`,
for any event. `WalksPastTheEnd` is the loop of `publish`, whose iterator jumps
over `end()` when the vector has an odd number of pointers; what it reads after it is
undefined, and since it is never equal to `end()` again the daemon ends there.
`HandleNewDatapoint` and `Export` are kept, although nothing reaches them.

### PolledArchive and Downloaders

`PolledArchive` is the promise of whoever keeps a watermark: `mark`, the time of
the last archive download, passes a record the site has shown only if the record is in the
database or has been *forsaken*, that is given up in one of the ways that the
detailed module names at the action that does it. `Downloaders` implements it for
seven kinds (`KeepsPromise`), and `Services` for the imports over HTTP
(`ImportsKeepPromise`), with `INSTANCE ... WITH`. So does `VantagePro2Archive`, whose
records are the memory of the station and which forsakes nothing: that one is a
theorem only (`PromiseKept`), since `NoHole` is what its run checks.

A download begins (`Apiv2Begin`, `FieldClimateBegin`...), asks for one span or
page after the other (`Apiv2Span`, `LiveobjectsPage`, `MeteoFranceHour`,
`VirtualTarget`...) and ends; `WeatherlinkDownload`, which asks once, is one
step. A request and what its answer triggers (deletion, insertions in both
databases, watermark, jobs) is one step, because the thread is blocked
throughout; the site, `Crash` and `ReloadStations` come between two. `RequestFails`
gives the download up where it stands.

What is forsaken, and what else the code does that the properties have to leave
out: Weatherlink v1 overwrites the result of each insertion with the next
(`weatherlink_downloader.cpp:270`), hands no publisher to its base class (`:70`)
and never updates `_lastArchive`, so that a record refused is given up if the
watermark passes it; v2 and FieldClimate go on to the next span
after a refused insertion, and give up what was refused unless the download ends
there (`PassedOver`); FieldClimate deletes the record at the watermark if the
database deletes both ends (`inclusive`; `fieldclimate_api_downloader.cpp:172`);
v2 (`weatherlink_apiv2_downloader.cpp:440`), FieldClimate and the 6-minute download
write TimescaleDB after the watermark and ignore its failure; a page of Live Objects with only illegible messages ends the window
(`liveobjects_api_downloader.cpp:227`); an hour of Météo-France that is garbled is
skipped (`meteo_france_api_downloader.cpp:148`); the 6-minute download advances
whatever happens (`meteo_france_api_download_scheduler.cpp:93`); a virtual station
writes its watermark at the first target (`virtual_obs_computer.cpp:106`) and asks
for its jobs at the end; a substation that lags behind the last one is passed over.

The jobs are of a station: `jobs` holds pairs of a part and a time. A Weatherlink v2
download stores the records of the substations under their own UUIDs
(`weatherlink_apiv2_downloader.cpp:412`), and then publishes jobs for `_station` alone
(`:436`). So the climatology of the substations is never asked for, and
`ClimatologyAsked` is about the records of the station itself (`Main`, which is
either of the two: the code keeps the UUIDs in a set, sorted).

### The services

`Connector` has what they share: `stopped`, the commands, the records a station
sends (`sent`), `stored`, `lost` (with a reason: each action that loses a record
says why), `mark`, and the faults. `Focus` gives a behaviour to one service.

* `MqttSubscriber`: clients in slots, because `start()` replaces `_client` while
  the one before still closes; each has a session of the broker named by the
  thread that called `start()`. `Accepted` is the acknowledgement of the connection with the catch-up
  request of the VP2 kind, `Lost` and `Closed` the handlers of close and
  error, `CheckRetryStartDeadline` the timer, `HandlePublish` a record with what
  each kind does of it. A reload leaves the old client's close handler, which
  restarts a third one; a refused subscription is only logged, and the client stays
  connected without it (`Unsubscribed`); sessions of another thread are orphaned with their
  records; a record is acknowledged although refused; a reload that fails to read the
  stations forgets them; a message that is not JSON throws, ends the daemon and
  is delivered again (`Poisoned`); two clients of one id disconnect each other;
  the mark follows older records back.
* `UdpConnection`: the receive is armed before the buffer is read, so that a
  second datagram may overwrite the first; reload adds a second loop; the buffer
  is the answer's too (`udp_connection.cpp:105`); a wrong HMAC is only logged. A
  datagram of less than 16 bytes, or of a station that is not known, is skipped; one of
  16 to 31 bytes of a known station throws (`nbiot/nbiot_udp_request_handler.cpp:105`:
  its hexadecimal digits are fewer than the 64 of an authentication code) and ends the
  daemon (`ProcessThrows`).
* `RestWebServer` and `HttpImports`: the server lives by the handler of its accept;
  start after stop spins on a closed acceptor (`rest_web_server.cpp:61`); a
  connection has no deadline while it writes (`http_connection.cpp:124`). Of the
  imports: a VP2 page deletes its span first (`vantagepro2_http_request_handler.cpp:203`),
  stops at the first refusal and answers 200; a page without a legible record
  sets the mark to 1970; the jobs of Monitor II are asked for from now to
  the epoch; the Cimel importers answer success whatever is refused.
* `ControlConnector`: one timer for the deadline of the client and the flush of the
  socket ten seconds after an error; queries that come in one read are thrown away;
  a flush queued before a stop throws on the closed socket. The acceptor takes the next
  client at once (`meteo_server.cpp:471`): one is followed in detail, the others
  (`others`) come, may stop the server, and leave.
* `MeteoServer`: acceptors, workers blocked by downloads, watchdog, stop, `pollSignal`.
  `polling` is the wait of `_signalTimer`, armed again for ever until a signal is caught
  (`meteo_server.cpp:139`). `stop()` (`:396`) does not cancel it: after a signal the
  daemon ends, after `general shutdown` it does not, and since the watchdog was stopped,
  systemd kills it and starts it again (`SystemdAborts`).
  The exporter's waits keep `run()` from returning too; a direct connection queued
  before the stop meets a group that is gone (`GroupGone`); stopping the group of
  direct connectors does not stop the acceptor. `KeepsServing` says that a stopped
  server ends unless something in `StillWaits` is left.

### The decoders

`HexPayload` has the arithmetic of fields: digits, widths, two's complement,
sentinels; a payload that is too short leaves fields undefined, and a `float` that is not
initialised has a value of the environment. Each decoder is an operator from a
payload to a record of measures, and `SensorMessages` chooses it as the factory
does. A behaviour goes through the payloads of a sensor: all zeros, all ones, or
ones in one field, with each bit flipped in turn, a digit missing or not
hexadecimal. `SensorsReadAsDocumented` compares what is read with the layout that
the comments of the Barani decoders give of their payload (`Layout`: each field
changes with its bits, with those of the fields it is relative to, and with no other).
It also says that a missing number (a field that is all ones: `Numbers` has those of the
sensors without documented layout) is not stored, nor what is computed from
it, whichever other fields are there. The payloads with ones in one field are messages
of the type that is decoded, but where that type is the field. `Misread` names the fields the
code misreads: the average direction of meteowind; `cwMax` and the debug flags of
its 2026 version; humidity and the time between clicks of meteohelix; most of
the second half of its 2026 version, which parses 10 bytes and reads 16; clicks
and correction of meteorain. `TakenForNumbers` names what is stored though it is missing: a
direction of 511 degrees of meteowind; a humidity of 102.2 % of meteohelix, compared with the ones of a
wider field (`barani_thermohygro_message.cpp:108`), and the dew point computed from it;
the lowest and highest temperatures of meteohelix when the temperature they are differences with is
missing (`:103`, `:106`: near 104 degrees); the highest temperature of its 2026 version; the
gusts of the three meteowinds, added to a missing speed. In the 2026 version of meteohelix
the difference is added to a float that is missing then, and so is the sum (`AddsToValue`).
Grouped packets of the oy1110 make
a loop that does not end (`:86`); probes read log(0) as -273.15; unsigned
temperatures of oseren and lorain, and negative directions of thwlora and
thwnbiot, are stored as they are.

`SynopParser` reads a report as the code does, an iterator over groups and
a section at a time; `MCSynop` writes a report from the groups it holds, present
or not, and the property says that what was reported is what is stored. The exceptions: wrong
digits for `manned` (`parser.cpp`, after line 36), `horizVisibility` (203), `snowDepth`
(373), `netRadiationLastHour` (420); section 2 is looked for with the wrong
number (666) and hides later ones; a second radiation after 553SS is refused
(359); a sunshine group without radiation takes the next group; a group with
one digit missing is skipped whole (279); some groups at the end of sections 3
and 4 are read past the end (553, 572); evapotranspiration in tenths of mm is
stored as mm (`ogimet_synop.cpp`); direction 99, variable, is stored as 990.

`WeatherlinkMessages` keeps the order in which substations are read, sorted and
inserted: a value is the reading it comes from, so that the property can say which one
prevails. Exceptions: the flag of voltages is inverted, missing leaf wetness
and soil moisture are stored, an unset soil temperature of v1 is stored, a
dedicated parser is ignored on stations without substations. The two comparators are
not strict weak orders, which `std::sort` requires. Up to `InsertionLimit` entries (16 in
libstdc++) it is an insertion sort, whose result is modelled exactly (`SortEntries`). A page with more
(a few hours of a few sensors) is partitioned first: `Sortings` is then any order that sorts the
entries if the comparator is a strict weak order on them, and otherwise any order at all, or a
sort that goes out of bounds (`crashed`). The measures are all stored whatever the order; that
the station prevails over the suites, which the comment of
`weatherlink_apiv2_archive_page.cpp:51` wants, is not true of such a page when it has
another sensor (`LongAndMixed`): 20 entries of a barometer, a suite, a leaf sensor and a
station are enough. `WlAssumption` says what a page may be: a sensor sends
members that its kind of sensor has (`HasData`), the wind whole or not at all when a
dedicated parser takes it, and is given variables that its parser knows (`HasVariables`).
`FieldClimateMessages` is similar for columns of
values; integer members lose a value written with decimals. `TextFiles` varies
the writing of each column of seven formats, one at a time; the optional columns of
`meteohub` and `weatherdisplay` are read without the `try` of the others.

### Rain and climatology

* `RainGauges`: a counter of each width near its wrap, messages lost, twice or late,
  two insertions and a cache that may each fail. `Known` names what the code adds or
  loses: rain_gauge adds 4096 clicks to a dry message, misreads the high bits and
  adds a correction that has not grown (`barani_rain_gauge_message.cpp:112`);
  lorain loses one click per wrap; cpl01 and thpllora wrap at the wrong width;
  thplnbiot caches before it inserts and goes back with a late datagram
  (`nbiot_udp_request_handler.cpp:149`). When Cassandra accepts and TimescaleDB
  refuses, the rain counts twice in Cassandra; a duplicate overwrites rain with 0.
* `DayRain`: five sources (the day and the hour of MBData and of StatIC, the current
  conditions of Weatherlink), a file that may be downloaded twice, late or never,
  a cached total or the sum of what is stored. Each day's rows must add up to the
  rain of the day at its last row, but for the lapses that the actions note. They are: 100 mm a day or more is never stored; a file of the
  evening ingested after midnight stores its day again; a replay after a restart
  overwrites with 0; the time of the last download of StatIC is never set
  (`static_txt_downloader.cpp:192`), so a file is read again.
* `Climatology`: both workers take a job in three steps (retrieve, compute,
  mark), and a day is computed from the one before. `ClimatologyFollows` says that,
  once the jobs are done, the row of a day has the rain observed, that its sums
  over the month and the year are right when the rows before it are older, and
  that the row of a month that ended is that of its days. The days
  after the end of a job stay stale, a failure ends the
  job without a retry, an exit between two steps (`minmax_worker.cpp:101`) loses
  it, and the tools run by hand ask for no month: these are in the hypotheses of
  the property.

## Runs

| Run | What it asks | Result |
|---|---|---|
| `vp2_orderly` | one worker held up once, no command, a station that answers anything, late, never, sends a stray newline or leaves | `SingleOperation`, `AnswerFollowsRequest`, `AckOnlyStoredPages`, `PagesExpected`, `SilenceBounded`, `DaemonSurvives`, `DepartureStops` hold |
| `vp2_disturbed` | two workers taking handlers in any order, a stop at any time, and a reload, a start, a stray newline or a departure | `NeverForgotten`, `EveryExchangeEnds`, `ClosedIsReleased` hold |
| `vp2_departure` | does a departed station always stop the connector, as `vantagepro2_connector.h:99` says | no |
| `vp2_archive` | the watermark across failures and reconnections | `NoHole`, `WatermarkAdvances`, `EverythingStored` hold |
| `vp2_climatology` | is every day of late data recomputed, as `vantagepro2_connector.h:476` says | no |
| `publisher` | debouncing under stale handlers, dangling keys, exceptions and exits | `EntryWatched`, `EntryIsSpan`, `AcceptedStaysPast`, `KeepsPromise`, `RequestsPublished` hold |
| `scheduler` | downloads under commands that leave stray handlers | `NeverForgotten`, `StopIsSoon`, `OneDownloadPerSlot`, `DownloadsRepeat`, `StoppedIsReleased` hold |
| `event_export` | is what is downloaded for a selected station sent to the FFVL, as `export/ffvl_exporter.h:54` says | no |
| `downloads` | the watermarks of seven downloaders through refusals, lost answers, illegible pages, rebuilt stations and crashes | `KeepsPromise`, `TimescaleFollows`, `ClimatologyAsked`, `DownloadsEnd`, `CatchesUp` hold |
| `services` | each service under commands, errors, late handlers and exits | `StoppedStaysDown`, `KeepsServing`, `NothingMissed`, `ImportsKeepPromise` hold |
| `observations` | does every decoder store what its message says, but for what is named | `SensorsReadAsDocumented`, `SynopFollowsReport`, `WeatherlinkFollowsSensors`, `FilesFollowWritings`, `ArchivesFollowStations` hold |
| `rainfall` | is each drop of rain counted once, but for what is named | `GaugeRainIsCounted`, `RainStoredOnce`, `ClimatologyFollows` hold |

The type invariants are proved (see below) and not checked again by a run.

### Why the connector has two runs

The properties of `vp2_orderly` are about the conversation and do not survive
the disturbances of the other run, as the code stands: a reload does not cancel
the operation under way, so that there are two of them and answers cross
(`SingleOperation`, `AnswerFollowsRequest`); a stop from the control socket cannot
cancel a queued flush, whose `available()` then throws on a closed socket out of
`io_context::run` (`DaemonSurvives`). They are stated for the case where the code
intends them. `vp2_disturbed` says what remains true with two workers, and after a stop
and any one disturbance. Its two liveness properties have an exception, `ReadsForEver`,
which is the bug of `vp2_departure`: the handler of `recvAck` (`vantagepro2_connector.cpp:309`)
looks at its buffer before its error code, so that a stray newline left there makes it read a
closed or departed socket for ever, and hold the connector.

### Bounds

* Connector: one announced page at most and a counter of three values, enough
  for "none", "last" and a wrap; `MaxTimeouts` is the code's 5 in `vp2_orderly`
  because `SilenceBounded` is about it, 3 elsewhere; two errors in place of 5
  and 100 for acknowledgements and pages, since a retry and a refusal both
  happen; one stray newline, which is one more than the code handles well; one
  command (a reload or a start), which meets every state of the conversation.
  `MaxDisturbances` bounds stray newlines, commands, stalls and the departure together: 3
  in `vp2_orderly`, which is all it has (a newline, a stall, a departure); 2 in `vp2_departure`, which is
  the newline and the departure; 1 in `vp2_disturbed`, where any one of them meets the
  stop, which is not counted, in any order of the handlers of two workers. Silence
  and garbled answers are not disturbances: any answer may be late, missing or wrong.
  `MaxQueued` bounds the handlers queued together when the timer fires:
  with one connector, two are the most the code can race.
  `MaxStalls` is 1 in `vp2_orderly`: once, a deadline passes while a handler of
  the connector is queued, or an operation completes behind a queued deadline,
  because something else (a blocking download, a database) holds the thread.
  One such stall already lets an answer be taken for the one of a later request
  (`AnswerFollowsRequest` is stated for none); the other properties survive it. With
  two stalls TLC finds them violated as well, `SilenceBounded` and
  `DepartureStops` aside: two operations at once, a flush after the socket is
  closed. So the conversation relies on an event loop that is not held up.
  `vp2_disturbed` has no stall, for its size; `NeverForgotten` is proved for any
  number of them.
* Archive: pages of two records, a memory of three pages, days of three times
  and two failures: a failure on the retry after a failure, and a page that
  spans two days.
* Publisher: two stations, one of each kind; three requests, so that a
  third request meets a stale handler of the merge of two; one exception, one
  exit, three days.
* Exporter: two stations, one of each kind of publication, two commands.
* Scheduler: a period of three with offset one, and three commands: two stray
  handlers beside the registered wait.
* Downloads: three times and a window of two, so that a catch-up takes two
  requests; one illegible time, in the middle; two parts of a station for those that
  have them; one fault, at any step.
* Services: one command for the subscribers and the server, whose states are many,
  two for the others (stop then start); one fault; two records, of which the second
  is illegible; two threads, hence two sessions, and three client slots, since a
  reload makes the third; two connections; two workers; one direct connection and two
  clients of the control socket at once, of which either may stop the server.
* Observations: 22 sensors in two environments, each field of ones in its turn and each bit flipped;
  SYNOP reports of up to two of the optional groups, in every pair, cut short
  or not; pages of three readings among thirteen, with
  `InsertionLimit` at 5, so that these pages, of six entries at most, are on both sides of
  it; files of each width with two
  columns written in another way; FieldClimate pages of two dates; consoles with a
  plain setting or plain measures, with two records across each change of the clock.
* Rainfall: counters one or two clicks before their wrap, steps of 0 and 3, so a wrap
  may come or not at each message; one fault and one duplicate; days of four ticks
  with rain that doubles at each tick, so that any two sums differ, over two days;
  one lapse; two months of two days, two batches of late observations, one failure
  and one run of a tool.

`CHECK_DEADLOCK FALSE` appears only where the system really ends: a stopped
connector, a publisher whose bounded requests are all published, a daemon that
has terminated, a message that is decoded, the last tick or day.

### Fairness

The `io_context` runs what is queued, time passes and timers fire; an operation
that can no longer succeed fails (the sockets have keepalive set, so a dead link is
one). Downloads end, because their requests have timeouts: `Downloaders` assumes weak
fairness of the scheduler's calls and of the answers. For the archive, the
station reconnects, answers and is polled again: without that nothing can be
stored. In `Services`, the event loop and the other side (broker, download) are
weakly fair; the delivery of a record, the answer to a client and the notification of
systemd are strongly fair, since they need a connection or a worker that comes
and goes. The connector's fairness is one condition on the event loop as a whole
(`EventLoop`): it goes on while a handler, a timer or a failed operation is there, and
nothing is assumed of which comes first, nor of the station. No module
assumes anything of the operator.

### The disagreements found

1. `recvAck` (`vantagepro2_connector.cpp:309`) reads again while its buffer holds
   a newline, before looking at the error code: once the station has left, it
   reads again for ever, without a pause, and never stops (`vp2_departure`).
2. `_oldestArchive` (`:798`) is compared with the newest record of each page, so
   the recomputed span starts at the end of the first page (`vp2_climatology`).
3. `NewDatapointEvent::dispatch` (`event/new_datapoint_event.cpp:56`) calls the only
   `handle` of `Subscriber`, so the exporter drops each event as unknown: nothing
   is ever exported. With the dispatch repaired, `publish`
   (`event/event_manager.cpp:151`) would still walk past the end of the
   subscriptions (`event_export`). Repairing the dispatch would also make
   reachable a cycle of two mutexes: `publish` would take the exporter's under the
   manager's, while `reload` takes them in the other order.

Others are in the models without a run of their own, beside those named with their modules above:

* `reload()` of the connector (`vantagepro2_connector.cpp:228`) leaves the socket
  operation under way; when it completes it cancels the reload's timer, and the
  restart of `h:90` does not come. It cancels the hourly timer that sets the clock
  too.
* `general shutdown` does not end the daemon: its help says "make the server gracefully
  exits" (`control/general_query_handler.cpp:53`), but `pollSignal` goes on and keeps
  `io_context::run` (`meteo_server.cpp:139`, `:396`), until a signal, or systemd, which restarts it.
* Nobody asks for the climatology of the substations of Weatherlink v2
  (`davis/weatherlink_apiv2_downloader.cpp:436`).
* A page of Weatherlink with more entries than `std::sort` inserts is sorted with a comparator
  that is not a strict weak order (`davis/weatherlink_apiv2_archive_page.cpp:137`), which is
  undefined behaviour; with libstdc++ the suites may come after the station, against the comment at `:51`.
* A scheduler that is stopped has no handler left to hold it: it is destroyed
  (`abstract_download_scheduler.cpp:83`), and the `start` of
  `control/connectors_query_handler.cpp:67` finds an unavailable connector. A reload
  between a multiple of the period and its offset skips a slot.
* `_timeouts` (`vantagepro2_connector.h:388`) counts each timeout twice, so a station is given
  up after three; `_lastArchive` (`h:470`) goes back to the epoch after a download
  of no page by a new connector, so everything is asked again; the comment of
  `SettimeRequestParams` (`h:157`) counts the years from 2000 and the code from
  1900 (`cpp:125`).
* The comparator of the realtime messages of Weatherlink does the opposite of its comment
  (`davis/weatherlink_apiv2_realtime_message.h:73`): the rain of one sensor is
  overwritten by the 0 of another.

## Proofs

All theorems are about `Spec`, without fairness, for any number of workers, commands,
faults, pages, stations and times: what they use of the constants is the assumption
of their module (`ConstantsAssumption`, `DownloadersAssumption`, `RainAssumption`, `RecordsAssumption`...),
which TLC evaluates in the runs. Where a property needs more than that to be true,
the theorem says so in its hypotheses, explained below; each is met by the run that
checks the property.

**Connector, its life.** `TypeCorrect` (the page counter included: the decrement wraps at
its width and never leaves it) and `AlwaysWaitedFor`, which proves
`NeverForgotten`: a connector that is not stopped, or has an operation pending on
an open socket, has a timer or a queued handler. This last property is not inductive:
from `STOPPED` with an open socket and operations, a discarded handler could be
the last thing that watched them. The invariant adds `StoppedIsIdle`, which says
what a stopped connector may still hold. The proof has one lemma for the
outcome of each way out of `handleEvent` (go on, retry, wait, stop, answer a
page), one for each handler and command, and combines them by cases of `Next`.

**Connector, its conversation.** Six theorems with the same hypotheses prove the
six invariants of `vp2_orderly`: `OneOperationAtATime` (`SingleOperation`),
`AnswersInTurn` (`AnswerFollowsRequest`), `PagesAreExpected` (`PagesExpected`),
`AcksStoredPagesOnly` (`AckOnlyStoredPages`), `SilenceIsBounded` (`SilenceBounded`)
and `DaemonNeverThrows` (`DaemonSurvives`). They hold with one worker, no stop from
the control socket, `MaxTimeouts` of two or more, and as long as the behaviour is
`Undisturbed`: no reload nor start from the control socket yet, and the event loop held up
once at most. None of this is for the convenience of the proof: with a second stall, a command
or a second worker there are
two operations at once, and TLC shows it. `MaxTimeouts`, the answers, the errors, the
pages announced and the departures are any. The invariant, `InOrder`, describes the
exchange: which operations, waits and queued handlers go with each state and each
stall (`Exchange`), how far the timeouts have been counted (`Counted`), and what a
completed read (`ReadInTurn`) and a handler that has run (`HandledInTurn`) leave
behind. The attempt to prove `SilenceBounded` corrected it: the bound is
`MaxTimeouts \div 2 + 1`, which for the code's 5 is the 3 it said before, but not for
an even number: the timeout that ends a setting of the clock is counted once only.

**Archive.** `TypeCorrect`, `NothingBehindIsMissing` (`NoHole`) and
`NeverGoesBack` (`WatermarkAdvances`). `NoHole` alone is not inductive: a page may
be acknowledged, so the next download starts after it, before the watermark is
written, and the station answers from the record the connector asks for. The
invariant says that every time from which a download may start (the watermark,
`_lastArchive`, `_newestArchive`, `_beginning`, the most recent relevant record of
the page) is *complete*, that is has no unstored record at or before it
(`MarksComplete`); that the watermark is never after the record the page is
compared with (`WatermarkBehind`), which proves it advances; that the memory is in
order of time; and that the pages still to come are pages of the memory, those
before being stored (`PagesSent`). `PromiseKept` (the refinement of
`PolledArchive`, nothing forsaken) adds to `NoHole` that the memory only grows.
`LeastNumber` and `GreatestNumber`, which give
the first record asked for and the most recent one of a page, are proved from the
well-foundedness of strict inclusion between finite sets, because
the induction theorems over numbers take an operator.

**Downloaders.** `PromiseKept`: each of the seven implements `PolledArchive`
(`KeepsPromise`). What is *missing* is what the site has shown that is neither in the
database nor forsaken; the promise says that it all comes after the watermark
(`Clear(mark)`). The steps that store need more, which differs by kind, and the
invariant has a conjunct for each. Weatherlink (`WeatherlinkMarks`): `_lastArchive`, which
falls behind, never passes the watermark, and neither passes the last record of the
site, so that all that is deleted is asked for again. v2 and FieldClimate
(`SpansInOrder`), Live Objects (`PagesInOrder`) and the hours of Météo-France
(`HoursInOrder`): during a download all that is missing comes after `cursor`, and the
watermark to be written does not. For Live Objects this needs that a page holds the first records of
its span (`PageComesFirst`, by the cardinality of the sets of earlier records); for
Météo-France, whose loop starts at the hour of the watermark, that this hour's record is in the database. Nothing is
missing for the 6-minute download (`NothingIsMissing`), which forsakes at once. The
watermark of a virtual station runs ahead of its loop, and all up to it is stored or
forsaken (`TargetsInOrder`). The proof has one lemma for each action that stores, one for
the beginnings of downloads and one for the steps that store nothing.

`TimescaleIsFollowed` (`TimescaleFollows`) and `ClimatologyIsAsked`
(`ClimatologyAsked`) follow from the same invariant with what each insertion into TimescaleDB,
each publication and each failure did. The attempt to prove the latter refuted its
first form, an invariant on all the records up to the watermark, in two cases
that the bounds of the run left out. A lagging substation of Weatherlink v2 stores
its record behind the watermark in a span where another record is refused: nothing
is published then, nor later if the station is rebuilt. A record of Live
Objects stored by a download that failed is passed by a later one, behind a page of
illegible messages. The property is now about the step that moves the watermark over a
record, and names the second case. It is about the records of the station: those of the
substations of Weatherlink v2 are left out by name, because their jobs are never published.

**Services.** `ImportsPromiseKept` (`ImportsKeepPromise`): the imports posted over
HTTP implement `PolledArchive`. `StoppedServicesStayDown` (`StoppedStaysDown`): no
handler left behind by a stop begins to connect, receive or accept. Both rest
on `TypeCorrect`, whose invariant has the types of each service, and `Behind`: any record
at or before the watermark, or at or before the last one the station was told of, is
stored or lost in a named way. The second half is what makes the first inductive: the
station posts what comes after the time it was told, and a page without a legible
record may set the watermark back meanwhile. The lemmas `Vp2Kept`, `MonitorIIKept` and
`CimelKept` show that each import keeps it when a page is stored in part.

**Publisher.** `PublisherTypeCorrect`; `EntryNeverForgotten` (`EntryWatched`); `NothingDropped`
(`AcceptedStaysPast`: the date test repeated by `doPublish` never drops what was
accepted, since days only go forward and merging keeps the earlier beginning);
`SpanExact` (`EntryIsSpan`: merging and erasing under stale handlers loses and
invents nothing); `PromiseKept`, the refinement of `PastDataJobs`, for any key
the handlers read. The refinement rests on `EntryIsSpan` and
`AcceptedStaysPast`: without the second, `doPublish` could erase an entry
and publish nothing.

**Scheduler.** `SchedulerTypeCorrect` (the deadline is never more than a period and the
offset away), `AlwaysScheduled` (`NeverForgotten`) and `StopsSoon`
(`StopIsSoon`: after a stop, at most one download for each command ever given
and one for the first start). The invariant that carries the last is
`StraysBounded`: waits, queued handlers and downloads together never exceed one
and the number of commands, nor do the late downloads with what may still become
one; a stop creates none, and a handler that runs while stopped is not replaced.

`OnceForEachSlot` (`OneDownloadPerSlot`) has one worker as hypothesis, because with two
threads two stray handlers of one slot download at the same time. Its invariant says
that a deadline is on a slot (`OnSlot`: congruent to the offset modulo the period, which
time preserves), and that unless a new slot has come since it began its download, a
scheduler that waits has its deadline ahead (`SlotToCome`). The period is a constant of any value: the lemmas
`Remainder` and `SamePhase` derive what is needed of the remainder from the division,
which the provers do not do for a variable divisor.

**Rain gauges.** `GaugeRainCounted` (`GaugeRainIsCounted`): the rain in TimescaleDB between
two cached counts is the rain that fell, but for what the property names of each decoder,
and Cassandra never misses any of it. Its hypothesis `NoFullTurn(most)`: at
most `most` clicks come between two messages, and fewer than a turn of the counter during
the life of a cached count. Without it, no decoder could tell a full turn from no
rain. (`thplnbiot` has no age limit for its cached count; its hypothesis is that its counter does
not overflow during the run.) The invariant has four parts: the total only grows, by at most
`most` (`Counters`); turns and dry messages are counted since the origin
(`Counting`); the tables only have times that were sent (`Tables`); and `Accounts`, which
relates the sums to the cached clicks. The last one is stronger than the property: the
rows stored ahead of the cached time, by an insertion that failed half way, count from the
cached clicks (`Pending`), so that the message that will be cached replaces them with a row
that says the same. `HighBitsOrder` and `CounterTurns` say what the three misplaced bits of
`rain_gauge` and the turn of a counter do to a difference.

**Rain of the files.** `FileRainStored` (`RainStoredOnce`), for any weather, length of
the day and of the hour, backlog and number of mishaps. The property says by how much the
rows differ at the last one of each day; the invariant `FilesInv` says it at every
time, since what is subtracted is known earlier than what is stored. For the totals of a
day, `DayAtMost`: the rows of a day hold no more than the rain of the day at any time after
the last of them; `DayAtLeast`: no less than at any of them. What the sources subtract then
follows from three facts: the cached total is at most what the rows hold, or over the limit
(`Subtracted`: a replay that stores less than nothing is the case against it); the row of
midnight is dry, so that it does not matter whether the database includes it
(`MidnightIsDry`); and downloads are ingested in the order of their times, each after
its own (`FilesInOrder`), so that a poll knows of all the rows before it. For the totals of
an hour, `HoursAtMost` and `HoursAtLeast` say the same of all the rows since the hour
before the first. `SameRows` takes care of the two databases: they are the same unless an
insertion was refused by one only. The lemmas from `RowValues` to `MoreRain` say what one more row,
fewer rows or other bounds do to a sum; those of each source (`StaticCounts`,
`CurrentCounts`, `DayCountsMost`, `DayCountsLeast`, `HourMost`, `HourLeast`,
`StaticHourMost`, `StaticHourLeast`) are about tables and times only, and `FilesMove` applies
them to the steps. No hypothesis is added to the lapses that the property names.

**Climatology.** `ClimatologyFollowsObservations` (`ClimatologyFollows`), for any length of the
months and of the year, and number of observations, jobs, failures and runs of the tools. What
the property says of a quiet system, when a chain of rows is in order, is not inductive: the
invariant `ClimInv` says of each row, at any time, what it was computed from. `Follow` relates a row
to the one before it unless it is older (`stale`), and to the last row of the month before
unless a day in between is older: computing a day makes the next one older, so that it
breaks no relation that is still claimed (`OtherRows`). `RowsFollow` adds that a row that
does not hold the rain observed is of a day of a queued job, or of one that failed.
`MonthsAreQueued` says that a month that is over is right, or of the job being marked, or
of a queued job of months; and that such a job has a row for each of its months, without
which the worker stops before them. The loop of `computeMinmax` is a recursive function:
`LoopEnds` proves that it exists, and `DayComputed` that `UpTo`, what the days so far have become,
passes from a day to the next, through any failure. `YearIsSum` and `SumSince` turn the relations
into sums.

**Decoders of stations.** `ArchivesFollow` (`ArchivesFollowStations`) has two halves, each
with its inductive invariant, a theorem of its own.

* `RecordsInvariant`, the consoles: for any settings, measures, dates of the two changes of
  the clock, records kept and downloads that fail half way, a record in the memory holds the
  word of each measure and, once the server has set the clock, the local time of its
  writing; and what is stored at a time is the observation of such a record of that time
  (`ConsoleInv`). The property then rests on two groups of lemmas. `TimeIsReadBack`: the
  time read from the local time is the time of the writing in every zone, but for the hour
  shown twice, whose first passage is read as the second; `ClockFollows`: time going by and the changes of the clock keep a clock that was set
  right. `FieldIsRead`: a word is read as what was measured, or as nothing for
  a dash, by kind of field (`ByteTemperatureIsRead`, `SignedIsRead`, `UnsignedIsRead`,
  `DashIsRead`), but for the two temperatures below zero that the property sets aside.
  `RecordsAssumption` bounds the values by what the
  width of each field can hold beside its dash, which `CanMeasure` says field by field, and asks that the
  summer last more than the hour by which it differs.
* `FieldClimateInvariant`, the pages of the API: any number of dates, any values
  missing. What is collected is the observation of each date, in order. `ColumnIsComputed`
  goes from the messages to the columns of an observation; `FieldClimateAssumption` says that what
  an absent value is read as (`InvalidDefault`) is not a value of a sensor.

**Text files.** `FilesFollow` (`FilesFollowWritings`): in every format, what is stored of a file
is what is written in it, column by column, and an illegible value costs no other, but for the
exceptions that the property names. The invariant `FileInv` says what was stored or thrown of the file in place. `LinesAreRead` and
`PlaceOf` say which writing is chosen for a name, by the place of a name in the columns of its format,
and `MeasureIsRead` has a case for the formats read whole (`WholeIsRead`) and one for those with
optional columns, read in parts (`PartsAreRead`). The attempt to prove it corrected the property: two
arms of a CASE overlapped, for a dew point that is computed, and its value was open to choice.

**Pages of Weatherlink.** `WeatherlinkFollows` (`WeatherlinkFollowsSensors`), for any number
of sensors, order, times, variables, and insertion that fails. The invariant `WlInv` says that
the messages are those of the readings of the page (`MessagesOf`), each at each of its times,
and that a database, once filled, is what inserting them in order makes. The argument has four parts.

* `LastMessagePrevails`: a column of a row is what the last message that has it says. The sort,
  the insertions and `FlattenSeq` go through recursive functions whose existence is one
  lemma, `Recursion`, after which numbers do for induction (`SortedOneByOne`, `InsertedOneByOne`).
* `SortKeepsEntries`: the sort loses and makes up no message, whatever the comparator, the
  number of entries and the order it leaves them in (`AnyOrderHasAll`). Of up to
  `InsertionLimit` entries, with the comparator of the archives, though it is not a strict
  weak order, a suite comes after the station only if a sensor that is neither stands
  between them in the page (`Ordered`, kept by each placement: `PlacedInOrder`). Of more
  entries, all of stations and suites, the comparator is a strict weak order and puts the suites first
  (`SuitesGoBefore`); with another sensor among them nothing is claimed (`LongAndMixed`).
  The realtime comparator promises no order, and the property claims none.
* `DataIsRead` and `ParsersFollowVariables`: what a sensor sends is read, by its conventional
  message or by its dedicated parser, for every kind of sensor, device and page.
* `MeantIsRead` and `ReadIsMeant` join them: a measure meant by a reading is in a message, and a
  measure of a message is meant by its reading, or is one of those stored though unsent.

The attempt corrected the model and the property: arms of `IngestArchive` overlapped, the variable
of a probe was read without asking whether it has one, and the exception for a sensor standing between the
station and a suite is now claimed for each pair of them, where one such pair excused a whole page.

**Sums and first failures.** The induction theorems of the library take an operator, which
the provers cannot instantiate. `NumberSets` has `NoFirstFailure` instead: a set of numbers
without 0 that has no first element is empty, from the well-foundedness of strict
inclusion between finite sets. `LeastNumber` and `GreatestNumber` follow from the same fact, and so
does `SumDefinition`, that the recursive function of `Sums` exists and satisfies its
equation, with its consequences (`SameSum`, `SumGrows`, `SumAdvances`, `SumChanges`, `SumCovered`,
`SumSince`). The loop of the climatology is handled in the same way, and those of Weatherlink by
`Recursion`: a function whose value at each number comes from the one before exists.

**Only model-checked.** Liveness (`EveryExchangeEnds`, `ClosedIsReleased`,
`DepartureStops`, `EverythingStored`, `RequestsPublished`, `DownloadsRepeat`,
`StoppedIsReleased`, `DownloadsEnd`, `CatchesUp`, `KeepsServing`, `NothingMissed`),
out of this prover's reach. Two decoders. `SensorsReadAsDocumented`: a field is a sum of its
bits folded over a set, and what a sensor measures is split in bits by the sender; the run
enumerates the patterns of bits instead. `SynopFollowsReport`: the parser is a fold over the groups of
a report whose next step depends on the groups already read, by the folds of the library, and
the run varies one group at a time.

## Not modelled, and why

* Two handlers of one object executing at the same time on several threads
  (`daemon.cpp:241`): a data race in C++, whose outcomes the language does
  not define. This includes `MqttSubscriber::handleConnAck`, which walks the stations
  without the mutex that `reload` holds. The runs with two workers cover handlers in any order, each run to its end.
* Exceptions of the databases in the connector and exceptions other than
  `runtime_error` in downloads: they leave `io_context::run` and end the daemon.
* The overflow of the station's memory.
* Uninitialised rain of the Barani messages is modelled as any value in `RainGauges`;
  the meteohelix of 2026, whose count is read beyond the bytes parsed, has no value
  to count with and is in `BaraniMessages` only.
* `davis/vantagepro2_message.cpp`, the loop packet of the VantagePro2: nothing in
  the daemon asks for one. The conversions of its header are arithmetic on floats.
* `records.cpp`: a sequential report printed by a tool run by hand.
* Importers of files and standalone tools: sequential programs run by hand, which
  read one file or one window, insert and exit. What they share with the daemon
  (the Cimel importers, `minmax`, `month_minmax`, `synop`) is in its modules.
* Floating-point rounding, units other than where a conversion is wrong, the
  meaning of each measure of the climatology beside the rain.
* The downlinks of the NB-IoT handler, the value of a composite observation of
  a virtual station, the command line of the daemon and what `start()` creates.
* Database and HTTP client wrappers: their failures are steps of the modules
  that call them. The database library is not in the repository; what is not known
  of it is a choice (`inclusive`, whether a sum includes its ends).

## Plan

In order of importance:

1. The two decoders that are only model-checked, with their folds written as functions of
   the place in the message, as those of `WeatherlinkMessages` are: the fields of `HexPayload` for
   every value of a field, then the groups of SYNOP.
2. The composition of `AsyncJobPublisher` with `Climatology`: today the second
   takes the jobs that the first promises.
3. The downlinks of the NB-IoT handler and the composite values of the virtual stations.
