----------------------------- MODULE MeteoServer -----------------------------
(***************************************************************************)
(* The server: the acceptors of the stations that connect directly and of  *)
(* the control socket, the workers that run the event loop (downloads      *)
(* block them), the watchdog, which needs a worker to notify systemd, and  *)
(* the end: a signal or a command stops the server, and the event loop     *)
(* returns once nothing waits any more.  One client of the control socket  *)
(* is followed in detail, the others only come, stop the server, and leave.*)
(***************************************************************************)
EXTENDS ControlConnector

CONSTANTS
    Workers,        \* number of threads of io_context::run
    MaxClients      \* bound: connections of each acceptor at once

ASSUME WorkersAssumption == Workers \in Nat \ {0} /\ MaxClients \in [{"vp2", "control"} -> Nat]

Acceptors == {"vp2", "control"}

VARIABLES
    accepting,      \* acceptors with an accept under way
    accepted,       \* acceptors with a queued handler of a connection
    stations,       \* VantagePro2Connectors that run
    others,         \* ControlConnectors that are not followed
    polling,        \* the wait of _signalTimer: pollSignal has seen no signal
    exporter,       \* the configuration starts the exporter, which always waits
    busy,           \* workers a download blocks
    watchdog,       \* "waiting", "due", or "off"
    ended           \* io_context::run has returned
network == <<accepting, accepted, stations, others>>
serverVars == <<controlVars, network, polling, exporter, busy, watchdog, ended>>

Free == busy < Workers /\ ~ended

\* MeteoServer::stop: every connector is stopped, the acceptors are closed.  Neither
\* the connections of the control socket nor _signalTimer are.
StopServer ==
    /\ stopped' = TRUE
    /\ accepting' = {}
    /\ stations' = 0
    /\ watchdog' = "off"

\* catchSignal and pollSignal, which waits again unless a signal came.
PollSignal ==
    /\ Free /\ polling
    /\ commands < MaxCommands[focus] /\ commands' = commands + 1
    /\ polling' = FALSE
    /\ StopServer
    /\ UNCHANGED <<failures, records, controlVars, accepted, others, exporter, busy, ended>>

\* A query of the control socket; one of them is "general shutdown".
Shutdown ==
    /\ ~stopped
    /\ commands < MaxCommands[focus] /\ commands' = commands + 1
    /\ StopServer
ControlSocket ==
    /\ Free
    /\ ControlHandlers
    /\ \/ UNCHANGED <<stopped, commands, accepting, stations, watchdog>>
       \/ stored' # stored /\ Shutdown
    /\ UNCHANGED <<mark, accepted, others, polling, exporter, busy, ended>>
ControlOutside ==
    /\ ControlEvents \/ ControlClient
    /\ UNCHANGED <<stopped, commands, mark, network, polling, exporter, busy, watchdog, ended>>

\* The other clients, and their queries.
OtherControl ==
    /\ others > 0
    /\ \/ Free /\ Shutdown /\ UNCHANGED others
       \/ others' = others - 1 /\ UNCHANGED <<stopped, commands, accepting, stations, watchdog>>
    /\ UNCHANGED <<failures, records, controlVars, accepted, polling, exporter, busy, ended>>

ClientsOf(acceptor) ==
    IF acceptor = "vp2" THEN stations ELSE others + (IF state = "NONE" THEN 0 ELSE 1)
Connection(acceptor) ==
    /\ acceptor \in accepting
    /\ ClientsOf(acceptor) < MaxClients[acceptor]
    /\ accepting' = accepting \ {acceptor}
    /\ accepted' = accepted \cup {acceptor}
    /\ UNCHANGED <<stopped, commands, failures, records, controlVars, stations, others, polling,
                   exporter, busy, watchdog, ended>>

\* startAccepting... , then the connection starts; stop() has reset the group of
\* the direct connectors, which runNewVp2DirectConnector would dereference.
RunNewConnector(acceptor) ==
    /\ Free
    /\ acceptor \in accepted
    /\ accepted' = accepted \ {acceptor}
    /\ accepting' = IF stopped THEN accepting ELSE accepting \cup {acceptor}
    /\ \/ acceptor = "vp2" /\ ~stopped
          /\ stations' = stations + 1 /\ UNCHANGED <<state, reading, others>>
       \/ acceptor = "control" /\ state = "NONE"
          /\ state' = "WAITING_COMMAND" /\ reading' = TRUE /\ UNCHANGED <<stations, others>>
       \/ acceptor = "control" /\ state # "NONE"
          /\ others' = others + 1 /\ UNCHANGED <<state, reading, stations>>
    /\ UNCHANGED <<stopped, commands, failures, records, inSocket, queryBuffer, pending, due,
                   postponed, polling, exporter, busy, watchdog, ended>>
GroupGone == stopped /\ "vp2" \in accepted

StationLeaves ==
    /\ Free
    /\ stations > 0
    /\ stations' = stations - 1
    /\ UNCHANGED <<stopped, commands, failures, records, controlVars, accepting, accepted,
                   others, polling, exporter, busy, watchdog, ended>>

\* A download blocks its worker until the server answers or its timeout.
DownloadBegins ==
    /\ Free /\ ~stopped
    /\ busy' = busy + 1
    /\ UNCHANGED <<stopped, commands, failures, records, controlVars, network, polling,
                   exporter, watchdog, ended>>
DownloadEnds ==
    /\ busy > 0
    /\ busy' = busy - 1
    /\ UNCHANGED <<stopped, commands, failures, records, controlVars, network, polling,
                   exporter, watchdog, ended>>

\* Watchdog: half of the period of systemd has passed; the notification, and the
\* next wait.  (A fault used as a mutant: the wait is not renewed.)
WatchdogExpires ==
    /\ watchdog = "waiting"
    /\ watchdog' = "due"
    /\ UNCHANGED <<stopped, commands, failures, records, controlVars, network, polling,
                   exporter, busy, ended>>
NotifyOnce == "off"
WaitUntilNextNotification == "waiting"
Notify ==
    /\ Free
    /\ watchdog = "due"
    /\ watchdog' = WaitUntilNextNotification
    /\ UNCHANGED <<stopped, commands, failures, records, controlVars, network, polling,
                   exporter, busy, ended>>

\* The process dies and is started again: of an exception in a handler, of a null
\* group...
RestartServer ==
    /\ NoControl
    /\ stopped' = FALSE /\ polling' = TRUE
    /\ accepting' = Acceptors /\ accepted' = {} /\ stations' = 0 /\ others' = 0
    /\ busy' = 0 /\ watchdog' = "waiting"
    /\ UNCHANGED <<commands, sent, stored, mark, exporter, ended>>
ExitServer ==
    /\ FlushThrows \/ GroupGone
    /\ Free
    /\ RestartServer
    /\ UNCHANGED failures
\* ... or of systemd, when it is not notified: the workers are busy for too long, or
\* the watchdog was stopped by a shutdown after which the event loop goes on.
SystemdAborts ==
    /\ \/ watchdog = "due" /\ ~Free /\ Failure
       \/ watchdog = "off" /\ polling /\ ~ended /\ UNCHANGED failures
    /\ RestartServer

\* Nothing is left to wait for.
RunReturns ==
    /\ stopped /\ busy = 0 /\ accepted = {} /\ stations = 0
    /\ state = "NONE" /\ others = 0 /\ ~polling /\ ~exporter
    /\ ~ended /\ ended' = TRUE
    /\ UNCHANGED <<stopped, commands, failures, records, controlVars, network, polling,
                   exporter, busy, watchdog>>

ServerInit ==
    /\ ControlInit
    /\ accepting = Acceptors /\ accepted = {}
    /\ stations = 0 /\ others = 0 /\ busy = 0
    /\ polling = TRUE
    /\ exporter \in BOOLEAN
    /\ watchdog = "waiting"
    /\ ended = FALSE

NewConnector == \E acceptor \in Acceptors : RunNewConnector(acceptor)
Handlers ==
    \/ ControlSocket \/ Notify \/ StationLeaves \/ NewConnector
ServerStep ==
    \/ PollSignal \/ ControlOutside \/ OtherControl \/ Handlers
    \/ \E acceptor \in Acceptors : Connection(acceptor)
    \/ DownloadBegins \/ DownloadEnds
    \/ WatchdogExpires \/ ExitServer \/ SystemdAborts \/ RunReturns

=============================================================================
