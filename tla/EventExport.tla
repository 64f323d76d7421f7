----------------------------- MODULE EventExport -----------------------------
(***************************************************************************)
(* New observations are announced by EventManager (event/event_manager.cpp)*)
(* to FfvlExporter (export/ffvl_exporter.cpp), which subscribes to the     *)
(* stations it exports and sends their last observation to the web site of *)
(* the FFVL.  There is one exporter, known to the server and to the        *)
(* manager by weak pointers: a wait that never ends keeps it alive.        *)
(*                                                                         *)
(* Each operation of the manager holds its mutex throughout.               *)
(***************************************************************************)
EXTENDS Naturals, FiniteSets

CONSTANTS
    Stations,
    Direct,         \* the stations of VantagePro2Connector; the others are
                    \* downloaded by WeatherlinkApiv2Downloader
    MaxCommands     \* bound: commands of the control socket

VARIABLES
    configured,     \* the stations to export, in the database
    stations,       \* _stations
    subscriptions,  \* _subscriptionsForStation: number of pointers to the exporter
    mustStop,       \* _mustStop
    waits,          \* waits registered on _timer
    cancelled,      \* handlers of _timer queued with operation_canceled
    jobs,           \* export jobs posted, by station
    daemon,         \* "running" or "terminated"
    unsent,         \* history: exported stations with an observation not sent
    commands

timerVars == <<waits, cancelled>>
vars == <<configured, stations, subscriptions, mustStop, timerVars, jobs, daemon, unsent, commands>>

Running == daemon = "running"
JobsPending == \E s \in Stations : jobs[s] > 0
Alive == waits + cancelled > 0 \/ JobsPending

-----------------------------------------------------------------------------
(* The exporter's stations and its wait                                     *)

\* reloadStations: the database may fail, and the stations stay as they were.
ReloadStations ==
    /\ stations' \in {configured, stations}
    /\ subscriptions' = [s \in Stations |-> IF s \in stations' THEN 1 ELSE 0]

Cancel == waits' = 0 /\ cancelled' = cancelled + waits

\* waitForEvent: moving the expiry cancels the former wait.
WaitForEvent(stopping) ==
    /\ cancelled' = cancelled + waits
    /\ waits' = IF stopping THEN 0 ELSE 1

Command ==
    /\ Running /\ Alive
    /\ commands < MaxCommands
    /\ commands' = commands + 1

Start ==
    /\ Command
    /\ mustStop' = FALSE
    /\ ReloadStations
    /\ WaitForEvent(FALSE)
    /\ UNCHANGED <<configured, jobs, daemon, unsent>>

Reload ==
    /\ Command
    /\ ReloadStations
    /\ WaitForEvent(mustStop)
    /\ UNCHANGED <<configured, mustStop, jobs, daemon, unsent>>

Stop ==
    /\ Command
    /\ mustStop' = TRUE
    /\ Cancel
    /\ UNCHANGED <<configured, stations, subscriptions, jobs, daemon, unsent>>

\* checkDeadline, on operation_canceled.  (The deadline is the end of time.)
Bail ==
    /\ Running
    /\ cancelled > 0
    /\ cancelled' = cancelled - 1
    /\ UNCHANGED <<configured, stations, subscriptions, mustStop, waits, jobs, daemon, unsent,
                   commands>>

-----------------------------------------------------------------------------
(* Publication                                                              *)

\* handle(const Event&), virtual: the event is unknown.
HandleEvent(s) == UNCHANGED <<timerVars, jobs>>

\* handle(const NewDatapointEvent&), which is not virtual.
HandleNewDatapoint(s) ==
    IF s \in stations
    THEN Cancel /\ jobs' = [jobs EXCEPT ![s] = @ + 1]
    ELSE UNCHANGED <<timerVars, jobs>>

\* NewDatapointEvent::dispatch calls visitor.handle(*this) on a Subscriber&,
\* whose only handle takes any event.
Dispatch(s) == HandleEvent(s)

\* EventManager::publish moves its iterator twice for a subscriber, and past
\* the successor of one it erases: with an odd number of them it is never
\* equal to end(), and reads what follows the vector until the daemon faults.
WalksPastTheEnd(s) == subscriptions[s] % 2 = 1

Owed(s) == IF s \in stations /\ ~mustStop THEN unsent \cup {s} ELSE unsent

\* doProcessRealtimeMessage has inserted an observation and publishes it.
PublishForStation(s) ==
    /\ Running
    /\ s \notin Direct
    /\ unsent' = Owed(s)
    /\ IF Alive /\ subscriptions[s] > 0 THEN Dispatch(s) ELSE UNCHANGED <<timerVars, jobs>>
    /\ IF WalksPastTheEnd(s) THEN daemon' = "terminated" ELSE UNCHANGED daemon
    /\ UNCHANGED <<configured, stations, subscriptions, mustStop, commands>>

\* VantagePro2Connector has stored a page: Connector::publish names no
\* station, and nobody subscribes to the events of all stations.
PublishForAll(s) ==
    /\ Running
    /\ s \in Direct
    /\ unsent' = Owed(s)
    /\ UNCHANGED <<configured, stations, subscriptions, mustStop, timerVars, jobs, daemon, commands>>

\* The job of postStationExportJob: the last observation is sent (a failure
\* is only logged), and the exporter waits again.
Export(s) ==
    /\ Running
    /\ jobs[s] > 0
    /\ jobs' = [jobs EXCEPT ![s] = @ - 1]
    /\ unsent' = unsent \ {s}
    /\ WaitForEvent(mustStop)
    /\ UNCHANGED <<configured, stations, subscriptions, mustStop, daemon, commands>>

\* The list of exported stations is edited in the database.
Configure(s) ==
    /\ Running
    /\ configured' = (configured \ {s}) \cup ({s} \ configured)
    /\ UNCHANGED <<stations, subscriptions, mustStop, timerVars, jobs, daemon, unsent, commands>>

-----------------------------------------------------------------------------
\* The server has built the exporter and started it.
Init ==
    /\ configured \in SUBSET Stations
    /\ stations \in {configured, {}}
    /\ subscriptions = [s \in Stations |-> IF s \in stations THEN 1 ELSE 0]
    /\ mustStop = FALSE
    /\ waits = 1 /\ cancelled = 0
    /\ jobs = [s \in Stations |-> 0]
    /\ daemon = "running"
    /\ unsent = {}
    /\ commands = 0

Next ==
    \/ Start \/ Reload \/ Stop \/ Bail
    \/ \E s \in Stations :
         PublishForStation(s) \/ PublishForAll(s) \/ Export(s) \/ Configure(s)

Spec == Init /\ [][Next]_vars

\* The io_context runs what is queued.  Data need not come, nor commands.
FairSpec == Spec /\ WF_vars(Bail) /\ \A s \in Stations : WF_vars(Export(s))

-----------------------------------------------------------------------------
(* Property *)

\* The exporter is "responsible for sending data to the FFVL platform for
\* selected stations as they arrive": what is downloaded for an exported
\* station is sent, unless the exporter is stopped or its list reloaded without
\* the station.
DataExported ==
    \A s \in Stations \ Direct :
        s \in unsent ~> s \notin unsent \/ mustStop \/ s \notin stations

=============================================================================
