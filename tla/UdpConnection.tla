---------------------------- MODULE UdpConnection ----------------------------
(***************************************************************************)
(* The socket the stations on NB-IoT send their datagrams to.  A receive   *)
(* fills the one buffer of the connection when a datagram comes; its       *)
(* handler asks for the next receive, then reads the buffer.  (A receive   *)
(* asked for while a datagram waits fills the buffer at once.)             *)
(***************************************************************************)
EXTENDS Connector

VARIABLES
    open,           \* _socket
    receives,       \* receives under way
    handlers,       \* their handlers in the queue: "received" or "cancelled"
    buffer,         \* the datagram in _buffer, 0 for none
    waiting         \* datagrams in the socket
udpVars == <<open, receives, handlers, buffer, waiting>>

\* A datagram that is still in the buffer, its handler in the queue.
Unread == IF \E i \in DOMAIN handlers : handlers[i] = "received" THEN {buffer} \ (stored \cup lost) ELSE {}

\* stop() cancels the receives and closes, start() opens and receives.
CloseUdp ==
    /\ handlers' = handlers \o [i \in 1..receives |-> "cancelled"]
    /\ lost' = lost \cup ToSet(waiting)
    /\ waiting' = <<>>

StopUdp ==
    /\ Command(TRUE)
    /\ stopped' = TRUE
    /\ IF open THEN CloseUdp ELSE UNCHANGED <<handlers, waiting, lost>>
    /\ open' = FALSE /\ receives' = 0
    /\ UNCHANGED <<failures, sent, stored, mark, buffer>>

ReloadUdp ==
    /\ Command(TRUE)
    /\ stopped' = FALSE
    /\ IF open THEN CloseUdp ELSE UNCHANGED <<handlers, waiting, lost>>
    /\ open' = TRUE /\ receives' = 1
    /\ UNCHANGED <<failures, sent, stored, mark, buffer>>

\* start(): opening a socket that is open throws, out of the event loop, and so does
\* a datagram of a known station that ends before its authentication code: the daemon
\* is started again, as it is after any other exit.
StartUdp ==
    /\ Command(TRUE)
    /\ ~open
    /\ stopped' = FALSE
    /\ open' = TRUE /\ receives' = receives + 1
    /\ UNCHANGED <<failures, records, handlers, buffer, waiting>>
Truncated(datagram) == datagram \in Illegible
ProcessThrows ==
    /\ ~stopped
    /\ handlers # <<>> /\ Head(handlers) = "received"
    /\ Truncated(buffer) \/ (waiting # <<>> /\ Truncated(Head(waiting)))
ExitUdp ==
    /\ \/ open /\ Command(TRUE) /\ UNCHANGED failures
       \/ ProcessThrows /\ UNCHANGED <<commands, failures>>
       \/ Failure /\ UNCHANGED commands
    /\ stopped' = FALSE
    /\ open' = TRUE /\ receives' = 1
    /\ handlers' = <<>> /\ waiting' = <<>>
    /\ lost' = lost \cup ToSet(waiting) \cup Unread
    /\ UNCHANGED <<sent, stored, mark, buffer>>

Datagram ==
    /\ sent < MaxRecords
    /\ sent' = sent + 1
    /\ IF open THEN waiting' = Append(waiting, sent') /\ UNCHANGED lost
       ELSE lost' = lost \cup {sent'} /\ UNCHANGED waiting
    /\ UNCHANGED <<stopped, commands, failures, stored, mark, open, receives, handlers, buffer>>

\* A receive completes.
Received ==
    /\ receives > 0 /\ waiting # <<>>
    /\ receives' = receives - 1
    /\ buffer' = Head(waiting) /\ waiting' = Tail(waiting)
    /\ handlers' = Append(handlers, "received")
    /\ lost' = lost \cup Unread
    /\ UNCHANGED <<stopped, commands, failures, sent, stored, mark, open>>

\* NbiotUdpRequestHandler: a datagram of less than 16 bytes or of an unknown station
\* is skipped (one of 16 to 31 bytes of a known station throws, see ExitUdp), an
\* observation the database refuses is given up.
Process(datagram, lostBefore) ==
    \/ /\ datagram \notin Illegible
       /\ stored' = stored \cup {datagram}
       /\ mark' = datagram
       /\ lost' = lostBefore
       /\ UNCHANGED failures
    \/ /\ \/ datagram \in Illegible /\ UNCHANGED failures
          \/ datagram \notin Illegible /\ Failure
       /\ lost' = lostBefore \cup {datagram}
       /\ UNCHANGED <<stored, mark>>

\* The handler of readRequest: it asks for the next receive, which may complete
\* at once into the same buffer, then processes what the buffer holds.
HandleReceive ==
    /\ handlers # <<>>
    /\ LET event == Head(handlers)
           overwritten == waiting # <<>>
           done(lostBefore) == IF event = "received" THEN Process(buffer', lostBefore)
                               ELSE lost' = lostBefore /\ UNCHANGED <<stored, mark, failures>>
       IN \/ /\ stopped
             /\ handlers' = Tail(handlers)
             /\ lost' = lost \cup Unread
             /\ UNCHANGED <<receives, buffer, waiting, stored, mark, failures>>
          \/ /\ ~stopped
             /\ receives' = receives + 1
             /\ handlers' = Tail(handlers)
             /\ UNCHANGED <<buffer, waiting>>
             /\ done(lost)
          \/ /\ ~stopped /\ overwritten
             /\ handlers' = Append(Tail(handlers), "received")
             /\ buffer' = Head(waiting) /\ waiting' = Tail(waiting)
             /\ UNCHANGED receives
             /\ done(lost \cup Unread)
    /\ UNCHANGED <<stopped, commands, sent, open>>

UdpInit ==
    /\ open = TRUE /\ receives = 1
    /\ handlers = <<>> /\ buffer = 0 /\ waiting = <<>>

UdpStep ==
    \/ StartUdp \/ StopUdp \/ ReloadUdp \/ ExitUdp
    \/ Datagram \/ Received \/ HandleReceive

=============================================================================
