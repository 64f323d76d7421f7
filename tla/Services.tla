------------------------------ MODULE Services ------------------------------
(***************************************************************************)
(* The services of the daemon under one specification: a behaviour takes   *)
(* one of them, its focus, through the commands of the control socket,     *)
(* lost connections, refused insertions and exits of the daemon.  All of   *)
(* them promise the same: once stopped, a service starts nothing; while it *)
(* is not stopped, it is back in service again and again, and what the     *)
(* stations sent ends in the database or is lost in a way that is named.   *)
(***************************************************************************)
EXTENDS MqttSubscriber, UdpConnection, RestWebServer, MeteoServer

vars == <<connectorVars, mqttVars, udpVars, restVars, serverVars>>

Init ==
    /\ \E service \in Kinds : ConnectorInit(service)
    /\ MqttInit /\ UdpInit /\ RestInit /\ ImportInit /\ ServerInit
    /\ focus # "mqtt" => kind = "vp2"
    /\ focus # "rest" => protocol = "vp2"
    /\ focus # "server" => ~exporter

\* A step A of one service.
Mqtt(A) == Focus("mqtt") /\ A /\ UNCHANGED <<kind, udpVars, restVars, serverVars>>
Udp(A) == Focus("udp") /\ A /\ UNCHANGED <<mqttVars, restVars, serverVars>>
Rest(A) == Focus("rest") /\ A /\ UNCHANGED <<mqttVars, udpVars, serverVars>>
Server(A) == Focus("server") /\ A /\ UNCHANGED <<mqttVars, udpVars, restVars>>
Next == Mqtt(MqttStep) \/ Udp(UdpStep) \/ Rest(RestStep) \/ Server(ServerStep)

Spec == Init /\ [][Next]_vars

\* The workers run what is in the queue of the event loop, timers expire, and the
\* other side (the broker, the server a download waits for, the clients that
\* have something to post) goes on.  A handler that is again and again unable to
\* run, for want of a worker or a connection, runs in the end.
EventLoopRuns ==
    \/ Mqtt(TimerExpires \/ Retry)
    \/ Udp(Received \/ HandleReceive)
    \/ Rest(EventLoop)
    \/ Server((ControlOutside /\ ReceiveQuery) \/ ExitServer \/ RunReturns)
OtherSide == Mqtt(Broker) \/ Server(DownloadEnds)
Delivers(r) == Mqtt(r \in Everyone /\ Receive(r))
Answers == Rest(Client) \/ Server(ControlSocket \/ (stopped /\ NewConnector))
Notifies == Server(Notify)
Fairness ==
    /\ WF_vars(EventLoopRuns) /\ WF_vars(OtherSide)
    /\ \A r \in 1..MaxRecords : SF_vars(Delivers(r))
    /\ SF_vars(Answers) /\ SF_vars(Notifies)
FairSpec == Spec /\ Fairness

-----------------------------------------------------------------------------
\* What a service has under way to get more from the outside.
Begun ==
    CASE focus = "mqtt" -> {c \in Slots : client[c] = "connecting"}
      [] focus = "udp" -> 1..receives
      [] focus = "rest" -> 1..accepts
      [] focus = "server" -> accepting

\* A stopped service begins nothing until it is started again: handlers that
\* were waiting for a connection, a timer or a datagram when stop() was called,
\* and run after it, do not connect, receive or accept again.
StoppedStaysDown == [][stopped /\ stopped' => Begun' \subseteq Begun]_vars

InService ==
    CASE focus = "mqtt" -> \E c \in Slots : client[c] = "connected"
      [] focus = "udp" -> receives > 0
      [] focus = "rest" -> accepts > 0 \/ Spinning
      [] focus = "server" -> watchdog = "waiting"

\* What keeps the event loop of a stopped server from returning: the exporter, a
\* client of the control socket, and, when "general shutdown" has stopped it, the
\* polling of signals, which only a signal ends.
StillWaits == exporter \/ state # "NONE" \/ others > 0 \/ polling

\* A service that is not stopped is in service again and again, after any error,
\* reload or exit; but the web server, once its acceptor is closed, spins.  A
\* server that a signal has stopped ends, unless the exporter waits or a client holds
\* the control socket; nothing ends one that "general shutdown" has stopped (its help
\* says "make the server gracefully exits"), if neither a signal nor systemd does.
KeepsServing ==
    []<>(IF stopped THEN focus = "server" => ended \/ StillWaits ELSE InService)

Excused ==
    CASE focus = "mqtt" -> ~known \/ Poisoned \/ Unsubscribed
      [] focus = "rest" -> Spinning
      [] OTHER -> FALSE
Astray == IF focus = "mqtt" THEN Orphans ELSE {}

\* What the stations sent, while the service is not stopped, is in the database
\* sooner or later, or was lost in one of the ways the actions name, or is in
\* the session of another client; a subscriber that has forgotten its stations,
\* whose subscription is refused, or that is delivered a record it cannot read,
\* stores nothing any more.
NothingMissed == []<>(stopped \/ Excused \/ Everyone \subseteq stored \cup lost \cup Astray)

\* The mark of a station that posts its archives never passes a record that is
\* neither in the database nor lost in one of the ways the actions name.
Archive == INSTANCE PolledArchive WITH
    Records <- {1} \X (1..MaxRecords),
    offered <- IF focus = "rest" THEN {1} \X Everyone ELSE {},
    stored <- {1} \X stored,
    forsaken <- IF focus = "rest" THEN {1} \X (lost \cap Everyone) ELSE {},
    mark <- mark
ImportsKeepPromise == Archive!Spec
=============================================================================
