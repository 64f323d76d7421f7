--------------------------- MODULE MqttSubscriber ---------------------------
(***************************************************************************)
(* A subscriber to the records of a station on an MQTT broker, through the *)
(* clients it creates one after the other: start() replaces the client, a  *)
(* closed connection arms a timer that starts again.  The broker keeps a   *)
(* queue for each client id (set_clean_session(false)) and one connection  *)
(* with it; the client id holds the id of the thread that called start().  *)
(* A record stays in its queue until its handler returns.                  *)
(***************************************************************************)
EXTENDS Connector

CONSTANTS
    Threads,        \* threads of io_context::run
    Slots,          \* bound: clients that live at once
    Overlap         \* records of the two hours before the last archive

ASSUME MqttAssumption ==
    Overlap \in Nat /\ Threads # {} /\ Slots # {}

VARIABLES
    kind,           \* "vp2", "generic", "chirpstack" or "liveobjects"
    client,         \* slot -> state of the connection of a client
    session,        \* slot -> the thread in its client id
    current,        \* slot of _client
    waits, fired,   \* _timer: waits, and queued handlers of the waits that ended
    known,          \* whether _stations holds the topic
    subscribed,     \* sessions with a subscription at the broker
    queue,          \* session -> records the broker holds for it
    lastArchive     \* the copy of the last archive download time in _stations
timer == <<waits, fired>>
broker == <<subscribed, queue>>
mqttVars == <<kind, client, session, current, timer, known, broker, lastArchive>>

-----------------------------------------------------------------------------
(* Clients                                                                  *)

\* disconnect(): a client that is not connected yet may go on connecting.
AfterDisconnect(state) == IF state = "connected" THEN {"closing"} ELSE {state, "none"}

\* start(): a new client replaces _client, whose state is old from then on.
Open(thread, old) ==
    \E slot \in Slots \ {current} :
        /\ client[slot] = "none"
        /\ client' = [client EXCEPT ![current] = old, ![slot] = "connecting"]
        /\ session' = [session EXCEPT ![slot] = thread]
        /\ current' = slot

\* handleClose and handleError: wait, unless stopped.
ArmTimer == IF stopped THEN UNCHANGED timer ELSE waits' = 1 /\ UNCHANGED fired

Start(thread) ==
    /\ Command(TRUE)
    /\ stopped' = FALSE
    /\ Open(thread, client[current])
    /\ UNCHANGED <<failures, records, timer, known, broker, lastArchive>>

Stop ==
    /\ Command(TRUE)
    /\ stopped' = TRUE
    /\ waits' = 0
    /\ \E old \in AfterDisconnect(client[current]) : client' = [client EXCEPT ![current] = old]
    /\ UNCHANGED <<failures, records, session, current, fired, known, broker, lastArchive>>

\* reload(): the stations are read again; those the database does not give are
\* forgotten.
Reload(thread) ==
    /\ Command(TRUE)
    /\ \E old \in AfterDisconnect(client[current]) :
         IF stopped
         THEN /\ client' = [client EXCEPT ![current] = old]
              /\ UNCHANGED <<session, current, known, lastArchive, failures>>
         ELSE /\ Open(thread, old)
              /\ lastArchive' = mark
              /\ \/ known' = TRUE /\ UNCHANGED failures
                 \/ known' = FALSE /\ Failure
    /\ UNCHANGED <<stopped, records, timer, broker>>

\* The broker accepts a client, throws out another one with its id, resumes its
\* session; handleConnAck subscribes, handleSubAck of VP2MqttSubscriber asks for
\* the archives since two hours before the last one it knows of.  A subscription the
\* session does not have yet may be refused: that is logged, until the next connection.
CatchUp == IF kind = "vp2" /\ known /\ sent > lastArchive
           THEN {r \in Everyone : r > lastArchive - Overlap} ELSE {}
Accepted(c) ==
    /\ client[c] = "connecting"
    /\ client' = [s \in Slots |->
            IF s = c THEN "connected"
            ELSE IF client[s] = "connected" /\ session[s] = session[c] THEN "closing"
            ELSE client[s]]
    /\ \/ /\ subscribed' = subscribed \cup (IF known THEN {session[c]} ELSE {})
          /\ queue' = [queue EXCEPT ![session[c]] = @ \cup CatchUp]
          /\ UNCHANGED failures
       \/ known /\ session[c] \notin subscribed /\ Failure /\ UNCHANGED broker
    /\ UNCHANGED <<stopped, commands, records, session, current, timer, known, lastArchive>>

\* The connection is refused, lost, or closed as it was asked to.
Gone(c) ==
    /\ client' = [client EXCEPT ![c] = "none"]
    /\ ArmTimer
    /\ UNCHANGED <<stopped, commands, records, session, current, known, broker, lastArchive>>
Lost(c) == client[c] \in {"connecting", "connected"} /\ Failure /\ Gone(c)
Closed(c) == client[c] = "closing" /\ Gone(c) /\ UNCHANGED failures

TimerExpires ==
    /\ waits > 0
    /\ fired' = fired + waits
    /\ waits' = 0
    /\ UNCHANGED <<stopped, commands, failures, records, client, session, current, known, broker, lastArchive>>

\* checkRetryStartDeadline: a timer that was armed again since is waited for
\* again.  (A fault used as a mutant: the handler does not look at _stopped.)
RestartAnyway(thread) ==
    IF waits > 0 THEN waits' = waits + 1 /\ UNCHANGED <<client, session, current>>
    ELSE UNCHANGED waits /\ Open(thread, client[current])
Restart(thread) ==
    IF stopped THEN UNCHANGED <<waits, client, session, current>>
    ELSE IF waits > 0 THEN waits' = waits + 1 /\ UNCHANGED <<client, session, current>>
    ELSE UNCHANGED waits /\ Open(thread, client[current])
CheckRetryStartDeadline(thread) ==
    /\ fired > 0
    /\ fired' = fired - 1
    /\ Restart(thread)
    /\ UNCHANGED <<stopped, commands, failures, records, known, broker, lastArchive>>

-----------------------------------------------------------------------------
(* Records                                                                  *)

\* A record nobody subscribed to is lost, unless the station keeps archives.
Publish ==
    /\ sent < MaxRecords
    /\ sent' = sent + 1
    /\ queue' = [s \in Threads |-> queue[s] \cup (IF s \in subscribed THEN {sent'} ELSE {})]
    /\ lost' = lost \cup (IF subscribed = {} /\ kind # "vp2" THEN {sent'} ELSE {})
    /\ UNCHANGED <<stopped, commands, failures, stored, mark,
                   client, session, current, timer, known, subscribed, lastArchive>>

\* processArchive: a record is acknowledged when the handler returns, stored or
\* not; the time of the last archive is that of the record, whatever it was.
\* (updateLastArchiveDownloadTime may fail too: that is only logged.)
GivenUp(r) == lost' = lost \cup {r} /\ UNCHANGED <<stored, mark>>
Inserted(r) ==
    \/ stored' = stored \cup {r} /\ mark' = r /\ UNCHANGED <<lost, failures>>
    \/ GivenUp(r) /\ Failure                        \* refused by Cassandra
    \/ stored' = stored \cup {r} /\ UNCHANGED <<lost, mark>> /\ Failure     \* by TimescaleDB
Unknown(r) == ~known /\ GivenUp(r) /\ UNCHANGED failures
Discarded(r) == r \in Illegible /\ GivenUp(r) /\ UNCHANGED failures

\* VP2: a record of another size, or that does not look valid, is discarded.
ProcessVp2Archive(r) ==
    \/ Unknown(r)
    \/ known /\ Discarded(r)
    \/ known /\ r \notin Illegible /\ Inserted(r)
\* JSON that cannot be read throws: the record is not acknowledged.
ProcessGenericArchive(r) ==
    \/ Unknown(r)
    \/ known /\ r \notin Illegible /\ Inserted(r)
\* Chirpstack: the JSON may hold a payload that cannot be decoded.
ProcessChirpstackArchive(r) ==
    \/ Unknown(r)
    \/ known /\ Discarded(r)
    \/ known /\ r \notin Illegible /\ Inserted(r)
\* Liveobjects: the stream the record is from is in the JSON.
ProcessLiveobjectsArchive(r) ==
    /\ r \notin Illegible
    /\ Unknown(r) \/ (known /\ Inserted(r))

ProcessArchive(r) ==
    \/ kind = "vp2" /\ ProcessVp2Archive(r)
    \/ kind = "generic" /\ ProcessGenericArchive(r)
    \/ kind = "chirpstack" /\ ProcessChirpstackArchive(r)
    \/ kind = "liveobjects" /\ ProcessLiveobjectsArchive(r)
HandlePublish(c, r) ==
    /\ client[c] = "connected" /\ r \in queue[session[c]]
    /\ ProcessArchive(r)
    /\ queue' = [queue EXCEPT ![session[c]] = @ \ {r}]
    /\ UNCHANGED <<stopped, commands, sent, client, session, current, timer, known,
                   subscribed, lastArchive>>
\* The records that make the handler throw, out of the event loop.
Throws == Illegible \cap
    CASE kind = "vp2" -> {}
      [] kind \in {"generic", "chirpstack"} /\ ~known -> {}
      [] OTHER -> Everyone

\* The daemon exits, on a record whose JSON cannot be read, or on its own; it is
\* started again.
Exit ==
    /\ \/ /\ \E c \in Slots : client[c] = "connected" /\ queue[session[c]] \cap Throws # {}
          /\ UNCHANGED failures
       \/ Failure
    /\ stopped' = FALSE
    /\ \E thread \in Threads :
         /\ client' = [s \in Slots |-> IF s = current THEN "connecting" ELSE "none"]
         /\ session' = [session EXCEPT ![current] = thread]
    /\ waits' = 0 /\ fired' = 0
    /\ known' = TRUE
    /\ lastArchive' = mark
    /\ UNCHANGED <<commands, records, current, broker>>

-----------------------------------------------------------------------------
MqttInit ==
    /\ kind \in {"vp2", "generic", "chirpstack", "liveobjects"}
    /\ current = CHOOSE slot \in Slots : TRUE
    /\ client = [slot \in Slots |-> IF slot = current THEN "connecting" ELSE "none"]
    /\ session = [slot \in Slots |-> CHOOSE thread \in Threads : TRUE]
    /\ waits = 0 /\ fired = 0
    /\ known = TRUE
    /\ subscribed = {} /\ queue = [thread \in Threads |-> {}]
    /\ lastArchive = 0

ClosedByBroker == \E c \in Slots : Closed(c)
AcceptedByBroker == \E c \in Slots : Accepted(c)
Broker == AcceptedByBroker \/ ClosedByBroker
Retry == \E thread \in Threads : CheckRetryStartDeadline(thread)
Receive(r) == \E c \in Slots : HandlePublish(c, r)
MqttStep ==
    \/ \E thread \in Threads : Start(thread) \/ Reload(thread)
    \/ Stop
    \/ \E c \in Slots : Lost(c)
    \/ AcceptedByBroker \/ ClosedByBroker
    \/ TimerExpires \/ Retry
    \/ Publish
    \/ \E r \in Everyone : Receive(r)
    \/ Exit

-----------------------------------------------------------------------------
(* What the properties are made of                                          *)

Alive == {c \in Slots : client[c] # "none"}
\* Records in the queue of a session that no client has any more: its client was
\* started by another thread.
Orphans == UNION {queue[thread] : thread \in Threads \ {session[c] : c \in Alive}}
\* The broker has refused the subscription of the client.
Unsubscribed == client[current] = "connected" /\ session[current] \notin subscribed
\* A record that cannot be read makes the daemon exit each time it is delivered.
Poisoned == \E thread \in Threads : queue[thread] \cap Throws # {}
=============================================================================
