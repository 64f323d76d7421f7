----------------------------- MODULE Connector -----------------------------
(***************************************************************************)
(* What the services of the daemon share: the interface of Connector, that *)
(* the control socket calls (start, stop, reload), the records a station   *)
(* sends, the database, and the faults.  A behaviour is about one service, *)
(* its focus; each service is a module whose actions say what becomes of   *)
(* its own variables and of these.                                         *)
(***************************************************************************)
EXTENDS Integers, SequencesExt

CONSTANTS
    MaxCommands,    \* bound: commands given to each service
    MaxFailures,    \* bound: lost connections, refused insertions, exits
    MaxRecords,     \* bound: records the station sends
    Illegible       \* records that cannot be read

Kinds == {"mqtt", "udp", "rest", "server"}

ASSUME ConnectorAssumption ==
    /\ MaxCommands \in [Kinds -> Nat]
    /\ MaxFailures \in Nat /\ MaxRecords \in Nat
    /\ Illegible \subseteq 1..MaxRecords

VARIABLES
    focus,          \* the service the behaviour is about
    stopped,        \* _stopped
    commands,       \* how many commands were given
    failures,
    sent,           \* the last record the station made; records are dated 1, 2...
    stored,         \* records in the database
    lost,           \* records nobody will come back to
    mark            \* last archive download time
connectorVars == <<focus, stopped, commands, failures, sent, stored, lost, mark>>
records == <<sent, stored, lost, mark>>

Everyone == 1..sent

\* callOnConnector, for a connector the registry can still lock.
Command(alive) == alive /\ commands < MaxCommands[focus] /\ commands' = commands + 1
Failure == failures < MaxFailures /\ failures' = failures + 1

\* A step of a service.
Focus(service) == focus = service /\ UNCHANGED focus

ConnectorInit(service) ==
    /\ focus = service
    /\ stopped = FALSE
    /\ commands = 0 /\ failures = 0
    /\ sent = 0 /\ stored = {} /\ lost = {} /\ mark = 0
=============================================================================
